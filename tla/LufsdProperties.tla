-------------------------- MODULE LufsdProperties --------------------------
(***************************************************************************)
(* What the directory cache promises the users of the mount.               *)
(***************************************************************************)
EXTENDS Lufsd, FiniteSets

Entries(list) == {n \in Names : list[n] # 0}

\* A bucket counts what it holds, never holds more than it may, and holds a
\* directory once: shrink and search rely on the count, and an older listing
\* of the same directory would show again when the newer one goes.  Where less
\* than none may be held, none is.
CacheWellFormed ==
    \A h \in Buckets :
        LET b == cache.buckets[h] IN
        /\ cache.lengths[h] = Len(b)
        /\ Len(b) <= MaxEntries \/ b = <<>>
        /\ \A i, j \in 1 .. Len(b) : i # j => b[i].name # b[j].name

\* A channel has changed d and has not yet invalidated its listing.
Changing(d) == \E c \in Channels : \E i \in 1 .. Len(chan[c].todo) : chan[c].todo[i] = d

\* A listing of a directory that is there, with the names it has.
Right(d, list) == There(d) /\ Entries(list) = Entries(fs[d])

\* A valid listing names what the directory holds, however many channels
\* read, change and invalidate: a name that was removed is not found in the
\* cache, one that was made is not missing.  The exceptions are the directories
\* in untold, until they are read or invalidated again: where a rmdir failed
\* that hides the directory all the same, one that was itself removed or made,
\* and all of them after LiveCDFS has read .whiteout again.
NamesCurrent ==
    \A h \in Buckets : \A i \in 1 .. Len(cache.buckets[h]) :
        LET d == cache.buckets[h][i] IN
        Valid(d) /\ ~Changing(d.name) /\ d.name \notin untold => Right(d.name, d.list)

\* A listing the kernel gets is the one of that moment, with the same
\* exceptions, and for them only when the cache had a listing.
ListingsCurrent ==
    [][\A c \in Channels :
          (chan[c].op = "readdir" /\ chan[c].reply # "OK" /\ chan'[c].reply = "OK")
          => \/ Right(Dir(c), chan'[c].list)
             \/ chan[c].pc = "called" /\ Dir(c) \in untold]_vars

=============================================================================
