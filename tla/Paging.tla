------------------------------- MODULE Paging -------------------------------
(***************************************************************************)
(* Reading a directory that does not fit into one reply.  The kernel asks  *)
(* for the entries from an offset on, as many as the buffer holds, until a *)
(* reply is empty.  generic_readdir takes them from the cached listing, or *)
(* reads the directory again: the cache may have dropped it, and other     *)
(* requests may have changed the directory, between two pages.  The order  *)
(* of a listing is that of the layers: first what is in rw_tmp, then the   *)
(* names of the CD that are not.                                           *)
(***************************************************************************)
EXTENDS Naturals, Sequences, SequencesExt, FiniteSetsExt

CONSTANTS
    Names,      \* names of entries, "." and ".." excluded
    CdOrders,   \* the orders in which the CD may list its directory
    nameLen,    \* the length of each name
    BufLen,     \* LU_MAXDATA
    OffsetMod,  \* 2^16: lufs_req_readdir::offset is an unsigned short
    MaxChanges, \* bound on the changes made while the directory is read
    MaxGot      \* bound on the entries the kernel collects

Dots == {".", ".."}

ASSUME PagingAssumption ==
    /\ CdOrders \subseteq Seq(Names \cup Dots)
    /\ nameLen \in [Names \cup Dots -> Nat]
    /\ \A n \in Names \cup Dots : nameLen[n] + 2 < BufLen
    /\ OffsetMod \in Nat \ {0}

VARIABLES
    onCd,     \* the directory on the CD, in its order
    inTmp,    \* the directory in rw_tmp, in its order; empty if there is none
    hidden,   \* the whiteouts
    cached,   \* the listing in the cache; empty if there is none
    got,      \* the entries the kernel has received
    done,     \* and whether it has received an empty page
    removed, added, moved,  \* the changes made since it began
    stable    \* the names that have been there all the time

changes == <<removed, added, moved, stable>>
vars == <<onCd, inTmp, hidden, cached, got, done, changes>>

FilesIn(s) == ToSet(s) \ Dots

Init ==
    /\ onCd \in CdOrders
    /\ inTmp = <<>> /\ hidden = {} /\ cached = <<>>
    /\ got = <<>> /\ done = FALSE
    /\ removed = 0 /\ added = 0 /\ moved = 0
    /\ stable = FilesIn(onCd)

----------------------------------------------------------------------------
(***************************************************************************)
(* The order of a listing.                                                 *)
(***************************************************************************)

\* doReaddir appends each entry it adds.
Merged ==
    LET visible(n) == n \notin hidden
        cdOnly(n)  == visible(n) /\ n \notin ToSet(inTmp)
    IN  SelectSeq(inTmp, visible) \o SelectSeq(onCd, cdOnly)

\* list_del and list_add: e becomes the first entry, or the second.
ToFront(s, e)  == <<e>> \o Remove(s, e)
ToSecond(s, e) == <<Head(Remove(s, e)), e>> \o Tail(Remove(s, e))

\* One turn of the loop of check_dir, at entry e.
Turn(state, e) ==
    CASE e = "."  -> [state EXCEPT !.list = ToFront(@, e), !.dot = TRUE]
      [] e = ".." -> [state EXCEPT !.list = IF state.dot THEN ToSecond(@, e) ELSE ToFront(@, e),
                                   !.dotdot = TRUE]
      [] OTHER    -> state

Added(state) ==
    [state EXCEPT !.list = @ \o (IF state.dot THEN <<>> ELSE <<".">>)
                             \o (IF state.dotdot THEN <<>> ELSE <<"..">>)]

\* One pass over the list; what is missing is added at its end, for a second.
Pass(state) == Added(FoldLeft(Turn, state, state.list))

\* Mutant of CheckDir: what was added is not moved.
CheckDirOnce(s) == Pass([list |-> s, dot |-> FALSE, dotdot |-> FALSE]).list

CheckDir(s) ==
    LET first == Pass([list |-> s, dot |-> FALSE, dotdot |-> FALSE])
    IN  IF first.dot /\ first.dotdot THEN first.list ELSE Pass(first).list

----------------------------------------------------------------------------
(***************************************************************************)
(* lu_cache_readdir.                                                       *)
(***************************************************************************)

\* Names and newlines in the buffer, and a byte kept for the end.
Fits(s) == SumFunction([i \in 1 .. Len(s) |-> nameLen[s[i]] + 1]) + 1 < BufLen

\* Mutant of Page: off > offset is read for off >= offset.
PageAfter(list, off) ==
    LET upTo(k) == SubSeq(list, off + 2, k)
        last == Max({off} \cup {k \in (off + 1) .. Len(list) : Fits(upTo(k))})
    IN  upTo(last)

\* The entries from off on, up to the first that does not fit.
Page(list, off) ==
    LET upTo(k) == SubSeq(list, off + 1, k)
        last == Max({off} \cup {k \in (off + 1) .. Len(list) : Fits(upTo(k))})
    IN  upTo(last)

\* Mutant of Offset: a byte.
OffsetByte(n) == n % (OffsetMod \div 2)

\* The kernel counts the entries it has; the request holds 16 bits of that.
Offset(n) == n % OffsetMod

\* generic_readdir, from the request to the reply.  Reading the directory
\* makes it in rw_tmp.
ReadPage ==
    /\ ~done /\ Len(got) < MaxGot
    /\ cached' = IF cached # <<>> THEN cached ELSE CheckDir(Merged)
    /\ inTmp' = IF inTmp = <<>> THEN <<".", "..">> ELSE inTmp
    /\ \E page \in {Page(cached', Offset(Len(got)))} :
           got' = got \o page /\ done' = (page = <<>>)
    /\ UNCHANGED <<onCd, hidden, changes>>

----------------------------------------------------------------------------
(***************************************************************************)
(* What happens between two pages.                                         *)
(***************************************************************************)

\* The listing expires, or another one takes its place in the bucket.
Evict ==
    /\ cached # <<>> /\ cached' = <<>>
    /\ UNCHANGED <<onCd, inTmp, hidden, got, done, changes>>

MayChange == ~done /\ removed + added + moved < MaxChanges

\* rw_tmp lists a new entry wherever it likes.
PutInTmp(n) == \E i \in 1 .. (Len(inTmp) + 1) : inTmp' = InsertAt(inTmp, i, n)

Unlink(n) ==
    /\ MayChange /\ n \in ToSet(Merged)
    /\ inTmp' = Remove(inTmp, n)
    /\ hidden' = hidden \cup ({n} \cap ToSet(onCd))
    /\ cached' = <<>>
    /\ removed' = removed + 1 /\ stable' = stable \ {n}
    /\ UNCHANGED <<onCd, got, done, added, moved>>

Create(n) ==
    /\ MayChange /\ inTmp # <<>> /\ n \notin ToSet(Merged)
    /\ PutInTmp(n) /\ hidden' = hidden \ {n}
    /\ cached' = <<>>
    /\ added' = added + 1
    /\ UNCHANGED <<onCd, got, done, removed, moved, stable>>

\* An open for writing copies a file up, and with it its entry moves from the
\* second part of the listing to the first.  generic_open invalidates nothing.
CopyUp(n) ==
    /\ MayChange /\ inTmp # <<>> /\ n \in ToSet(Merged) \ ToSet(inTmp)
    /\ PutInTmp(n)
    /\ moved' = moved + 1
    /\ UNCHANGED <<onCd, hidden, cached, got, done, removed, added, stable>>

----------------------------------------------------------------------------
Next ==
    \/ ReadPage \/ Evict
    \/ \E n \in Names : Unlink(n) \/ Create(n) \/ CopyUp(n)

\* The reader goes on reading, and its requests are handled.
Spec == Init /\ [][Next]_vars /\ WF_vars(ReadPage)

----------------------------------------------------------------------------
Missed   == (stable \cup Dots) \ ToSet(got)
Repeated == Len(got) - Cardinality(ToSet(got))

\* A directory nobody changes is listed in full and each name once, whenever
\* the cache forgets it and the layers are merged again.  A name that was
\* there all the time can be missed, one for each entry that was removed
\* since or copied up, and one can be repeated for each that was added or
\* copied up: the listing is counted off, and these move what is counted.
ListedOnce ==
    /\ done => Cardinality(Missed) <= removed + moved
    /\ Len(got) < OffsetMod => Repeated <= added + moved

\* In whatever order the layers list them, and if they do not, "." and ".."
\* come first, and the other entries keep their order.
DotsFirst ==
    cached # <<>> =>
        /\ SubSeq(cached, 1, 2) = <<".", "..">>
        /\ removed + added + moved = 0 =>
               SubSeq(cached, 3, Len(cached)) = SelectSeq(onCd, LAMBDA n : n \in Names)

\* Reading ends, unless the directory has more entries than the 16 bits of the
\* offset can count: then the pages start again from the first.
ReadingEnds == [](Cardinality(FilesIn(Merged)) + 2 < OffsetMod) => <>done
=============================================================================
