------------------------------ MODULE DirCache ------------------------------
(***************************************************************************)
(* dircache.c: the cache of directory listings all channels share.  A      *)
(* listing is kept in the bucket of its name's hash, most recent first,    *)
(* and a bucket counts its listings.  Each operator below is what one call *)
(* does while it holds the lock.  A time stamp is modelled by its age.     *)
(* Both numbers are what atoi() makes of an option, unless that is 0; a    *)
(* Ttl beyond the seconds since 1970 is not modelled.                      *)
(***************************************************************************)
EXTENDS Integers, Sequences

CONSTANTS
    Dirs,       \* names of directories
    Buckets,    \* 0 .. NBUCKETS - 1
    hash,       \* the bucket of a name
    MaxEntries, \* dir_cache::entries: the listings a bucket may hold
    Ttl,        \* dir_cache::ttl: seconds until a listing expires
    Listings    \* what a directory can be seen to hold

ASSUME CacheAssumption ==
    /\ hash \in [Dirs -> Buckets]
    /\ MaxEntries \in Int \ {0}
    /\ Ttl \in Int \ {0}

\* A struct directory, and the cache: a list for each bucket, and its length.
Directory == [name : Dirs, list : Listings, age : Nat]
Cache == [buckets : [Buckets -> Seq(Directory)], lengths : [Buckets -> Nat]]

EmptyCache == [buckets |-> [h \in Buckets |-> <<>>], lengths |-> [h \in Buckets |-> 0]]

Expired(d) == d.age >= Ttl
Valid(d)   == ~Expired(d)

\* Where search stops in a bucket: at the first listing of dir that is valid.
FoundAt(b, dir) ==
    {i \in 1 .. Len(b) : /\ b[i].name = dir /\ Valid(b[i])
                         /\ \A j \in 1 .. (i - 1) : b[j].name # dir \/ Expired(b[j])}
Index(b, dir)  == CHOOSE i \in FoundAt(b, dir) : TRUE
Found(C, dir)  == FoundAt(C.buckets[hash[dir]], dir) # {}
Cached(C, dir) == LET b == C.buckets[hash[dir]] IN b[Index(b, dir)]

\* A bucket becomes b; added and deleted listings have been counted.
SetBucket(C, h, b) ==
    [buckets |-> [C.buckets EXCEPT ![h] = b],
     lengths |-> [C.lengths EXCEPT ![h] = @ + Len(b) - Len(C.buckets[h])]]

\* search deletes the expired listings it passes, and gives the one it finds
\* a new time stamp.
Unexpired(b) ==
    LET kept[n \in 0 .. Len(b)] ==
            IF n = 0 THEN <<>>
            ELSE IF Valid(b[n]) THEN Append(kept[n - 1], b[n]) ELSE kept[n - 1]
    IN  kept[Len(b)]

Before(b, i) == SubSeq(b, 1, i - 1)
After(b, i)  == SubSeq(b, i + 1, Len(b))

Swept(b, dir) ==
    IF FoundAt(b, dir) = {} THEN Unexpired(b)
    ELSE LET i == Index(b, dir)
         IN  Unexpired(Before(b, i)) \o <<[b[i] EXCEPT !.age = 0]>> \o After(b, i)

Search(C, dir) == SetBucket(C, hash[dir], Swept(C.buckets[hash[dir]], dir))

\* Mutant of Shrunk: >= is read for >.
ShrunkLate(b) == IF Len(b) > MaxEntries + 1 THEN SubSeq(b, 1, MaxEntries + 1) ELSE b

\* while(cache->lengths[hsh] > cache->entries) shrink(cache, hsh)
\* With a negative number the bucket is emptied, and the loop goes on: shrink
\* does not count an empty bucket down.
Shrunk(b) ==
    IF Len(b) <= MaxEntries THEN b ELSE SubSeq(b, 1, IF MaxEntries > 0 THEN MaxEntries ELSE 0)
ShrinkEnds == MaxEntries > 0

\* lu_cache_add_dir: what search finds is deleted, the new listing comes first.
Others(b, dir) ==
    IF FoundAt(b, dir) = {} THEN b
    ELSE Before(b, Index(b, dir)) \o After(b, Index(b, dir))

AddDir(C, dir, list) ==
    LET h   == hash[dir]
        new == [name |-> dir, list |-> list, age |-> 0]
    IN  SetBucket(C, h, Shrunk(<<new>> \o Others(Swept(C.buckets[h], dir), dir)))

\* lu_cache_invalidate: stamp 0, the listing is as old as can be.
Oldest == IF Ttl > 0 THEN Ttl ELSE 0
Invalidate(C, dir) ==
    LET h == hash[dir]
        b == Swept(C.buckets[h], dir)
    IN  SetBucket(C, h, [i \in 1 .. Len(b) |->
            IF i \in FoundAt(b, dir) THEN [b[i] EXCEPT !.age = Oldest] ELSE b[i]])

\* A second passes.
Older(n) == IF n < Ttl THEN n + 1 ELSE n
Aged(C) ==
    [C EXCEPT !.buckets = [h \in Buckets |-> [i \in 1 .. Len(C.buckets[h]) |->
        [C.buckets[h][i] EXCEPT !.age = Older(@)]]]]
=============================================================================
