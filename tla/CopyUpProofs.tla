---------------------------- MODULE CopyUpProofs ----------------------------
(***************************************************************************)
(* Proofs about copying a file up to rw_tmp, for any number of channels,   *)
(* any size of the file and anything that users write: what the file reads *)
(* as when no copy is being made.                                          *)
(***************************************************************************)
EXTENDS CopyUp, SequenceTheorems, TLAPS

----------------------------------------------------------------------------
(***************************************************************************)
(* The invariant.                                                          *)
(***************************************************************************)
Values == {"cd", "hole"} \cup Written

Types ==
    /\ exists \in BOOLEAN /\ raced \in BOOLEAN /\ cut \in BOOLEAN /\ torn \in BOOLEAN
    /\ copy \in Seq(Values) /\ Len(copy) <= Size
    /\ latest \in Seq(Values) /\ Len(latest) <= Size
    /\ pc \in [Channels -> {"idle", "open", "copy", "truncate"}]
    /\ pos \in [Channels -> 0 .. Size] /\ size \in [Channels -> 0 .. Size]
    /\ setting \in [Channels -> BOOLEAN] /\ writer \in [Channels -> BOOLEAN]

\* Nobody copies, writes or truncates a file that is not in rw_tmp; until it
\* is there it reads as the CD has it.
Untouched ==
    ~exists => /\ latest = OnCd
               /\ \A c \in Channels : pc[c] \in {"idle", "open"} /\ ~writer[c]

\* While no request raced a copy: no copy is being made and the file is what
\* the requests made of it, or one is, and nothing has changed the file yet.
Copied == (\A c \in Channels : ~Filling(c)) /\ copy = latest
Copying(c) ==
    /\ pc[c] = "copy" /\ \A d \in Channels \ {c} : ~Filling(d)
    /\ latest = OnCd /\ copy = [i \in 1 .. pos[c] |-> "cd"]
Unraced == Copied \/ \E c \in Channels : Copying(c)

\* After a race: a buffer is what the requests made of it, or that of the CD,
\* or a copy that is being made will still come to it.
Good(i)    == Content(i) \in {latest[i], "cd"}
Comes(i)   == \E c \in Channels : pc[c] = "copy" /\ pos[c] < i
Covered    == Len(latest) = Size /\ \A i \in 1 .. Size : Good(i) \/ Comes(i)

Made == exists /\ ~torn => (~raced => Unraced) /\ (raced /\ ~cut => Covered)

CopyInv == Types /\ Untouched /\ Made

----------------------------------------------------------------------------
(***************************************************************************)
(* Lemmas about the contents of a file.                                    *)
(***************************************************************************)

\* A file cut to a size it does not reach stays as it is.
LEMMA ShortenedFacts ==
    ASSUME NEW s \in Seq(Values), Len(s) <= Size, NEW n \in 0 .. Size
    PROVE  /\ Shortened(s, n) \in Seq(Values)
           /\ Len(Shortened(s, n)) <= Size
           /\ n = Size => Shortened(s, n) = s
<1>1. Size \in Nat /\ Len(s) \in Nat
  BY CopyUpAssumption, LenProperties
<1>2. CASE Len(s) > n
  <2>1. \A i \in 1 .. n : s[i] \in Values
    BY <1>1, <1>2
  <2>2. /\ SubSeq(s, 1, n) \in Seq(Values)
        /\ Len(SubSeq(s, 1, n)) = IF 1 <= n THEN n - 1 + 1 ELSE 0
    BY <2>1, SubSeqProperties
  <2>3. Len(SubSeq(s, 1, n)) = n
    BY <1>1, <2>2
  <2> QED
    BY <1>1, <1>2, <2>2, <2>3 DEF Shortened
<1>3. CASE ~(Len(s) > n)
  BY <1>3 DEF Shortened
<1> QED
  BY <1>2, <1>3

\* write() puts its buffer in place and fills a gap before it with zeros.
LEMMA WriteAtFacts ==
    ASSUME NEW s \in Seq(Values), Len(s) <= Size, NEW i \in 1 .. Size, NEW v \in Values
    PROVE  /\ WriteAt(s, i, v) \in Seq(Values)
           /\ Len(WriteAt(s, i, v)) = IF i > Len(s) THEN i ELSE Len(s)
           /\ Len(WriteAt(s, i, v)) <= Size
           /\ \A j \in 1 .. Len(WriteAt(s, i, v)) :
                  WriteAt(s, i, v)[j] = IF j = i THEN v ELSE IF j <= Len(s) THEN s[j] ELSE "hole"
<1> DEFINE m == IF i > Len(s) THEN i ELSE Len(s)
           e(j) == IF j = i THEN v ELSE IF j <= Len(s) THEN s[j] ELSE "hole"
           t == [j \in 1 .. m |-> e(j)]
<1>1. Size \in Nat /\ Len(s) \in Nat /\ m \in Nat /\ m <= Size
  BY CopyUpAssumption, LenProperties
<1>2. \A j \in 1 .. m : e(j) \in Values
  <2>1. \A j \in 1 .. Len(s) : s[j] \in Values
    OBVIOUS
  <2>2. "hole" \in Values
    BY DEF Values
  <2> QED
    BY <1>1, <2>1, <2>2
<1>3. t = WriteAt(s, i, v)
  BY DEF WriteAt
<1> HIDE DEF m
<1>4. t \in [1 .. m -> Values]
  BY <1>2
<1>5. t \in Seq(Values) /\ Len(t) = m
  BY <1>1, <1>4
<1>6. \A j \in 1 .. m : t[j] = e(j)
  OBVIOUS
<1> QED
  BY <1>1, <1>3, <1>5, <1>6 DEF m

\* What was written reads so, and no other buffer reads otherwise than before.
LEMMA ReadsAfterWrite ==
    ASSUME NEW s \in Seq(Values), Len(s) <= Size, NEW i \in 1 .. Size, NEW v \in Values
    PROVE  LET Read(t, k) == IF k <= Len(t) THEN t[k] ELSE "hole"
           IN  \A k \in 1 .. Size :
                   Read(WriteAt(s, i, v), k) = IF k = i THEN v ELSE Read(s, k)
<1>1. /\ Len(WriteAt(s, i, v)) = IF i > Len(s) THEN i ELSE Len(s)
      /\ \A j \in 1 .. Len(WriteAt(s, i, v)) :
             WriteAt(s, i, v)[j] = IF j = i THEN v ELSE IF j <= Len(s) THEN s[j] ELSE "hole"
  BY WriteAtFacts
<1>2. Len(s) \in Nat /\ Size \in Nat
  BY CopyUpAssumption, LenProperties
<1> QED
  BY <1>1, <1>2, SMT

\* The file of the CD.
LEMMA OnCdFacts ==
    /\ OnCd \in Seq(Values) /\ Len(OnCd) = Size
    /\ \A i \in 1 .. Size : OnCd[i] = "cd"
<1>1. Size \in Nat
  BY CopyUpAssumption
<1>2. OnCd \in [1 .. Size -> Values]
  BY DEF OnCd, Values
<1>3. OnCd \in Seq(Values) /\ Len(OnCd) = Size
  BY <1>1, <1>2
<1> QED
  BY <1>3 DEF OnCd

----------------------------------------------------------------------------
(***************************************************************************)
(* Lemmas about the invariant.                                             *)
(***************************************************************************)

\* At the start the file is on the CD only.
LEMMA InitCopy == Init => CopyInv
<1> SUFFICES ASSUME Init PROVE CopyInv
  OBVIOUS
<1>1. Size \in Nat /\ 0 \in 0 .. Size /\ Size \in 0 .. Size
  BY CopyUpAssumption
<1>2. copy \in Seq(Values) /\ Len(copy) <= Size
  BY <1>1, EmptySeq DEF Init
<1>3. latest \in Seq(Values) /\ Len(latest) <= Size
  BY <1>1, OnCdFacts DEF Init
<1>4. Types
  BY <1>1, <1>2, <1>3 DEF Init, Types, All
<1> QED
  BY <1>4 DEF Init, CopyInv, Untouched, Made, All

\* A copy that nothing raced covers the file.
LEMMA CopyingCovers ==
    ASSUME Types, exists, NEW c \in Channels, Copying(c)
    PROVE  Covered
<1>1. /\ latest = OnCd /\ copy = [i \in 1 .. pos[c] |-> "cd"] /\ pc[c] = "copy"
      /\ pos[c] \in 0 .. Size /\ Size \in Nat
  BY CopyUpAssumption DEF Copying, Types
<1>2. ASSUME NEW i \in 1 .. Size PROVE Good(i) \/ Comes(i)
  <2>1. CASE i <= pos[c]
    <3>1. i \in 1 .. pos[c] /\ Len(copy) = pos[c] /\ copy[i] = "cd"
      BY <1>1, <2>1
    <3> QED
      BY <2>1, <3>1 DEF Good, Content
  <2>2. CASE pos[c] < i
    BY <1>1, <2>2 DEF Comes
  <2> QED
    BY <1>1, <2>1, <2>2
<1> QED
  BY <1>1, <1>2, OnCdFacts DEF Covered

\* Requests that change neither the file nor who copies it.
LEMMA MadeKept ==
    ASSUME Types, Made, UNCHANGED <<exists, copy, latest, raced, cut, torn, pos>>,
           exists => \A c \in Channels : \/ pc'[c] = pc[c]
                                         \/ pc[c] \in {"idle", "truncate"} /\ pc'[c] \in {"idle", "truncate"}
    PROVE  Made'
<1> SUFFICES ASSUME exists, ~torn
             PROVE  (~raced' => Unraced') /\ (raced' /\ ~cut' => Covered')
  BY DEF Made
<1>1. \A c \in Channels : (pc'[c] = "copy" <=> pc[c] = "copy") /\ (Filling(c)' <=> Filling(c))
  BY DEF Filling
<1>2. (~raced => Unraced) /\ (raced /\ ~cut => Covered)
  BY DEF Made
<1>3. Unraced => Unraced'
  BY <1>1 DEF Unraced, Copied, Copying
<1>4. Covered => Covered'
  <2>1. \A i \in 1 .. Size : (Good(i) => Good(i)') /\ (Comes(i) => Comes(i)')
    BY <1>1 DEF Good, Content, Comes
  <2> QED
    BY <2>1 DEF Covered
<1> QED
  BY <1>2, <1>3, <1>4

\* Requests that change the file: where nobody fills it they change it as they
\* should, and else they race.
LEMMA ChangeRaces ==
    ASSUME Types, Made, exists, ~torn, NEW c \in Channels, ~Filling(c)
    PROVE  /\ ~raced /\ ~OtherFills(c) => Copied
           /\ (raced \/ OtherFills(c)) /\ ~cut => Covered
<1>1. ASSUME ~raced, ~OtherFills(c) PROVE Copied
  <2>1. \A d \in Channels : ~Filling(d)
    BY <1>1 DEF OtherFills
  <2>2. \A d \in Channels : ~Copying(d)
    BY <2>1 DEF Copying, Filling
  <2> QED
    BY <1>1, <2>2 DEF Made, Unraced
<1>2. ASSUME ~raced, OtherFills(c) PROVE Covered
  <2>1. ~Copied
    BY <1>2 DEF Copied, OtherFills
  <2> QED
    BY <1>2, <2>1, CopyingCovers DEF Made, Unraced
<1> QED
  BY <1>1, <1>2 DEF Made

----------------------------------------------------------------------------
(***************************************************************************)
(* The steps.                                                              *)
(***************************************************************************)

\* An open or a setattr that copies the file, or finds it copied, and a close.
LEMMA OpenInv ==
    ASSUME CopyInv, NEW c \in Channels, Open(c) \/ Release(c) \/ \E n \in 0 .. Size : Setattr(c, n)
    PROVE  CopyInv'
<1>1. /\ UNCHANGED <<exists, copy, scratched, pos, latest, raced, cut, torn>>
      /\ pc[c] = "idle"
      /\ \/ pc' = pc
         \/ pc' = [pc EXCEPT ![c] = IF exists THEN "truncate" ELSE "open"]
         \/ ~exists /\ pc' = [pc EXCEPT ![c] = "open"]
      /\ \/ writer' = writer \/ writer' = [writer EXCEPT ![c] = FALSE]
         \/ exists /\ writer' = [writer EXCEPT ![c] = TRUE]
      /\ setting' = setting \/ setting' = [setting EXCEPT ![c] = TRUE]
      /\ size' = size \/ \E n \in 0 .. Size : size' = [size EXCEPT ![c] = n]
  BY DEF Open, Release, Setattr, InTmp, history
<1>2. Types'
  <2>1. pc' \in [Channels -> {"idle", "open", "copy", "truncate"}]
    BY <1>1 DEF CopyInv, Types
  <2>2. writer' \in [Channels -> BOOLEAN] /\ setting' \in [Channels -> BOOLEAN]
    BY <1>1 DEF CopyInv, Types
  <2>3. size' \in [Channels -> 0 .. Size]
    BY <1>1 DEF CopyInv, Types
  <2> QED
    BY <1>1, <2>1, <2>2, <2>3 DEF CopyInv, Types
<1>3. Untouched'
  BY <1>1 DEF CopyInv, Types, Untouched
<1>4. exists => \A d \in Channels : \/ pc'[d] = pc[d]
                                    \/ pc[d] \in {"idle", "truncate"} /\ pc'[d] \in {"idle", "truncate"}
  BY <1>1 DEF CopyInv, Types
<1>5. Made'
  BY <1>1, <1>4, MadeKept DEF CopyInv
<1> QED
  BY <1>2, <1>3, <1>5 DEF CopyInv

\* The last step of setattr.
LEMMA TruncateInv ==
    ASSUME CopyInv, NEW c \in Channels, Truncate(c)
    PROVE  CopyInv'
<1>1. /\ Types /\ Untouched /\ Made /\ pc[c] = "truncate" /\ size[c] \in 0 .. Size /\ Size \in Nat
      /\ copy' = Shortened(copy, size[c]) /\ latest' = Shortened(latest, size[c])
      /\ cut' = (cut \/ size[c] < Size) /\ raced' = (raced \/ OtherFills(c))
      /\ pc' = [pc EXCEPT ![c] = "idle"] /\ size' = [size EXCEPT ![c] = Size]
      /\ setting' = [setting EXCEPT ![c] = FALSE] /\ UNCHANGED <<exists, pos, writer, torn>>
  BY CopyUpAssumption DEF CopyInv, Truncate, Types
<1>2. exists
  BY <1>1 DEF Untouched
<1>3. /\ copy' \in Seq(Values) /\ Len(copy') <= Size /\ (size[c] = Size => copy' = copy)
      /\ latest' \in Seq(Values) /\ Len(latest') <= Size /\ (size[c] = Size => latest' = latest)
  BY <1>1, ShortenedFacts DEF Types
<1>4. Types'
  <2>1. cut' \in BOOLEAN /\ raced' \in BOOLEAN
    BY <1>1 DEF Types, OtherFills
  <2>2. pc' \in [Channels -> {"idle", "open", "copy", "truncate"}] /\ setting' \in [Channels -> BOOLEAN]
    BY <1>1 DEF Types
  <2>3. size' \in [Channels -> 0 .. Size]
    BY <1>1 DEF Types
  <2> QED
    BY <1>1, <1>3, <2>1, <2>2, <2>3 DEF Types
<1>5. \A d \in Channels : (pc'[d] = "copy" <=> pc[d] = "copy") /\ (Filling(d)' <=> Filling(d))
  BY <1>1 DEF Types, Filling
<1>6. ASSUME ~torn, ~raced' PROVE Unraced'
  <2>1. Copied
    BY <1>1, <1>2, <1>6, ChangeRaces DEF Filling
  <2>2. Copied'
    BY <1>1, <1>5, <2>1 DEF Copied
  <2> QED
    BY <2>2 DEF Unraced
<1>7. ASSUME ~torn, raced', ~cut' PROVE Covered'
  <2>1. size[c] = Size
    <3>1. ~(size[c] < Size)
      BY <1>1, <1>7
    <3> QED
      BY <1>1, <3>1
  <2>2. Covered /\ copy' = copy /\ latest' = latest
    BY <1>1, <1>2, <1>3, <1>7, <2>1, ChangeRaces DEF Filling
  <2>3. \A i \in 1 .. Size : (Good(i) => Good(i)') /\ (Comes(i) => Comes(i)')
    BY <1>1, <1>5, <2>2 DEF Good, Content, Comes
  <2> QED
    BY <2>2, <2>3 DEF Covered
<1>8. Untouched'
  BY <1>1, <1>2 DEF Untouched
<1> QED
  BY <1>1, <1>4, <1>6, <1>7, <1>8 DEF CopyInv, Made

\* A write reaches the buffer it is of, in the file and in what it should hold.
LEMMA WriteInv ==
    ASSUME CopyInv, NEW c \in Channels, NEW i \in 1 .. Size, NEW v \in Written, Write(c, i, v)
    PROVE  CopyInv'
<1>1. /\ Types /\ Untouched /\ Made /\ pc[c] = "idle" /\ writer[c] /\ Size \in Nat /\ v \in Values
      /\ copy' = WriteAt(copy, i, v) /\ latest' = WriteAt(latest, i, v)
      /\ raced' = (raced \/ OtherFills(c))
      /\ UNCHANGED <<exists, pc, pos, size, setting, writer, cut, torn>>
  BY CopyUpAssumption DEF CopyInv, Write, threadVars, Values
<1>2. exists
  BY <1>1 DEF Untouched
<1>3. /\ copy \in Seq(Values) /\ Len(copy) <= Size /\ latest \in Seq(Values) /\ Len(latest) <= Size
      /\ Len(latest) \in Nat
  BY <1>1, LenProperties DEF Types
<1>4. /\ copy' \in Seq(Values) /\ Len(copy') <= Size /\ latest' \in Seq(Values) /\ Len(latest') <= Size
      /\ Len(latest') = IF i > Len(latest) THEN i ELSE Len(latest)
  BY <1>1, <1>3, WriteAtFacts
<1>5. Types'
  <2>1. raced' \in BOOLEAN
    BY <1>1 DEF Types, OtherFills
  <2> QED
    BY <1>1, <1>4, <2>1 DEF Types
<1>6. \A d \in Channels : (pc'[d] = "copy" <=> pc[d] = "copy") /\ (Filling(d)' <=> Filling(d))
  BY <1>1 DEF Filling
<1>7. ASSUME ~torn, ~raced' PROVE Unraced'
  <2>1. Copied
    BY <1>1, <1>2, <1>7, ChangeRaces DEF Filling
  <2>2. Copied'
    BY <1>1, <1>6, <2>1 DEF Copied
  <2> QED
    BY <2>2 DEF Unraced
<1>8. ASSUME ~torn, raced', ~cut' PROVE Covered'
  <2>1. Covered
    BY <1>1, <1>2, <1>8, ChangeRaces DEF Filling
  <2>2. Len(latest') = Size
    BY <1>1, <1>4, <2>1 DEF Covered
  <2>3. ASSUME NEW k \in 1 .. Size PROVE Good(k)' \/ Comes(k)'
    <3>1. Content(k)' = IF k = i THEN v ELSE Content(k)
      BY <1>1, <1>2, <1>3, ReadsAfterWrite DEF Content
    <3>2. latest'[k] = IF k = i THEN v ELSE latest[k]
      <4>1. Expected(k)' = IF k = i THEN v ELSE Expected(k)
        BY <1>1, <1>3, ReadsAfterWrite DEF Expected
      <4>2. Expected(k) = latest[k] /\ Expected(k)' = latest'[k]
        BY <1>1, <2>1, <2>2 DEF Covered, Expected
      <4> QED
        BY <4>1, <4>2
    <3>3. Good(k) => Good(k)'
      BY <3>1, <3>2 DEF Good
    <3>4. k = i => Good(k)'
      BY <3>1, <3>2 DEF Good
    <3>5. Comes(k) => Comes(k)'
      BY <1>1 DEF Comes
    <3> QED
      BY <2>1, <3>3, <3>5 DEF Covered
  <2> QED
    BY <2>2, <2>3 DEF Covered
<1>9. Untouched'
  BY <1>1, <1>2 DEF Untouched
<1> QED
  BY <1>1, <1>5, <1>7, <1>8, <1>9 DEF CopyInv, Made

\* copyTmp truncates what is there, and will come to every buffer.
LEMMA CopyOpenInv ==
    ASSUME CopyInv, NEW c \in Channels, CopyOpen(c)
    PROVE  CopyInv'
<1>1. /\ Types /\ Untouched /\ Made /\ pc[c] = "open" /\ Size \in Nat
      /\ exists' = TRUE /\ copy' = <<>>
      /\ pc' = [pc EXCEPT ![c] = "copy"] /\ pos' = [pos EXCEPT ![c] = 0]
      /\ raced' = (raced \/ OtherFills(c))
      /\ UNCHANGED <<size, setting, writer, latest, cut, torn>>
  BY CopyUpAssumption DEF CopyInv, CopyOpen
<1>2. pc'[c] = "copy" /\ pos'[c] = 0 /\ \A d \in Channels \ {c} : pc'[d] = pc[d]
  BY <1>1 DEF Types
<1>3. Types'
  <2>1. raced' \in BOOLEAN /\ copy' \in Seq(Values) /\ Len(copy') <= Size
    BY <1>1, EmptySeq DEF Types, OtherFills
  <2>2. /\ pc' \in [Channels -> {"idle", "open", "copy", "truncate"}]
        /\ pos' \in [Channels -> 0 .. Size]
    BY <1>1 DEF Types
  <2> QED
    BY <1>1, <2>1, <2>2 DEF Types
<1>4. Untouched'
  BY <1>1 DEF Untouched
<1>5. ASSUME exists, ~raced, ~torn PROVE FALSE
  <2>1. Unraced /\ Filling(c)
    BY <1>1, <1>5 DEF Made, Filling
  <2>2. ~Copied
    BY <2>1 DEF Copied
  <2>3. \A d \in Channels : ~Copying(d)
    BY <1>1, <2>1 DEF Copying
  <2> QED
    BY <2>1, <2>2, <2>3 DEF Unraced
<1>6. ASSUME ~torn, ~raced' PROVE Unraced'
  <2>1. latest = OnCd
    BY <1>1, <1>5, <1>6 DEF Untouched
  <2>2. \A d \in Channels \ {c} : ~Filling(d)'
    BY <1>1, <1>2, <1>6 DEF OtherFills, Filling
  <2>3. copy' = [i \in 1 .. pos'[c] |-> "cd"]
    BY <1>1, <1>2
  <2>4. Copying(c)'
    BY <1>1, <1>2, <2>1, <2>2, <2>3, OnCdFacts DEF Copying, OnCd
  <2> QED
    BY <2>4 DEF Unraced
<1>7. ASSUME ~torn, raced', ~cut' PROVE Covered'
  <2>1. CASE ~exists
    <3>1. Len(latest') = Size
      BY <1>1, <2>1, OnCdFacts DEF Untouched
    <3> QED
      BY <1>1, <1>2, <3>1 DEF Covered, Comes
  <2>2. CASE exists
    <3>1. Len(latest') = Size
      BY <1>1, <1>5, <1>7, <2>2 DEF Made, Covered
    <3> QED
      BY <1>1, <1>2, <3>1 DEF Covered, Comes
  <2> QED
    BY <2>1, <2>2
<1> QED
  BY <1>1, <1>3, <1>4, <1>6, <1>7 DEF CopyInv, Made

\* A turn of the loop of copyTmp.
LEMMA CopyBufferInv ==
    ASSUME CopyInv, NEW c \in Channels, CopyBuffer(c)
    PROVE  CopyInv'
<1>1. /\ Types /\ Untouched /\ Made /\ pc[c] = "copy" /\ pos[c] \in 0 .. Size /\ pos[c] < Size
      /\ Size \in Nat /\ pos[c] + 1 \in 1 .. Size
      /\ copy' = WriteAt(copy, pos[c] + 1, "cd") /\ pos' = [pos EXCEPT ![c] = pos[c] + 1]
      /\ UNCHANGED <<exists, pc, size, setting, writer, latest, raced, cut, torn>>
  BY CopyUpAssumption DEF CopyInv, CopyBuffer, Types, history
<1>2. exists /\ Filling(c)
  BY <1>1 DEF Untouched, Filling
<1>3. /\ copy \in Seq(Values) /\ Len(copy) <= Size /\ "cd" \in Values
      /\ pos'[c] = pos[c] + 1 /\ \A d \in Channels \ {c} : pos'[d] = pos[d]
  BY <1>1 DEF Types, Values
<1>4. copy' \in Seq(Values) /\ Len(copy') <= Size
  BY <1>1, <1>3, WriteAtFacts
<1>5. Types'
  <2>1. pos' \in [Channels -> 0 .. Size]
    BY <1>1 DEF Types
  <2> QED
    BY <1>1, <1>4, <2>1 DEF Types
<1>6. Untouched'
  BY <1>1, <1>2 DEF Untouched
<1>7. ASSUME ~torn, ~raced' PROVE Unraced'
  <2>1. Copying(c)
    <3>1. ~Copied /\ \A d \in Channels \ {c} : ~Copying(d)
      BY <1>2 DEF Copied, Copying
    <3> QED
      BY <1>1, <1>2, <1>7, <3>1 DEF Made, Unraced
  <2>2. copy = [k \in 1 .. pos[c] |-> "cd"] /\ Len(copy) = pos[c]
    BY <1>1, <2>1 DEF Copying
  <2>3. /\ Len(copy') = pos[c] + 1
        /\ \A k \in 1 .. (pos[c] + 1) : copy'[k] = "cd"
    <3>1. Len(copy') = IF pos[c] + 1 > Len(copy) THEN pos[c] + 1 ELSE Len(copy)
      BY <1>1, <1>3, WriteAtFacts
    <3>2. Len(copy') = pos[c] + 1
      BY <1>1, <2>2, <3>1
    <3>3. ASSUME NEW k \in 1 .. (pos[c] + 1) PROVE copy'[k] = "cd"
      <4>1. k \in 1 .. Size /\ k <= Len(copy')
        BY <1>1, <3>2, <3>3
      <4>2. Content(k)' = IF k = pos[c] + 1 THEN "cd" ELSE Content(k)
        BY <1>1, <1>2, <1>3, <4>1, ReadsAfterWrite DEF Content
      <4>3. k # pos[c] + 1 => Content(k) = "cd"
        <5>1. ASSUME k # pos[c] + 1 PROVE k \in 1 .. pos[c] /\ k <= Len(copy)
          BY <1>1, <2>2, <3>3, <5>1
        <5>2. ASSUME k \in 1 .. pos[c] PROVE copy[k] = "cd"
          BY <2>2, <5>2
        <5> QED
          BY <1>2, <5>1, <5>2 DEF Content
      <4>4. Content(k)' = copy'[k]
        BY <1>1, <1>2, <4>1 DEF Content
      <4> QED
        BY <4>2, <4>3, <4>4
    <3> QED
      BY <3>2, <3>3
  <2>4. copy' = [k \in 1 .. pos'[c] |-> "cd"]
    <3>1. copy' \in [1 .. Len(copy') -> Values]
      BY <1>4
    <3> QED
      BY <1>3, <2>3, <3>1
  <2>5. Copying(c)'
    BY <1>1, <2>1, <2>4 DEF Copying, Filling, OnCd
  <2> QED
    BY <2>5 DEF Unraced
<1>8. ASSUME ~torn, raced', ~cut' PROVE Covered'
  <2>1. Covered
    BY <1>1, <1>2, <1>8 DEF Made
  <2>2. ASSUME NEW k \in 1 .. Size PROVE Good(k)' \/ Comes(k)'
    <3>1. Content(k)' = IF k = pos[c] + 1 THEN "cd" ELSE Content(k)
      BY <1>1, <1>2, <1>3, ReadsAfterWrite DEF Content
    <3>2. CASE k = pos[c] + 1
      BY <3>1, <3>2 DEF Good
    <3>3. CASE k # pos[c] + 1
      <4>1. Good(k) => Good(k)'
        BY <1>1, <3>1, <3>3 DEF Good
      <4>2. Comes(k) => Comes(k)'
        <5>1. ASSUME NEW d \in Channels, pc[d] = "copy", pos[d] < k
              PROVE  pc'[d] = "copy" /\ pos'[d] < k
          BY <1>1, <1>3, <3>3, <5>1
        <5> QED
          BY <5>1 DEF Comes
      <4> QED
        BY <2>1, <4>1, <4>2 DEF Covered
    <3> QED
      BY <3>2, <3>3
  <2> QED
    BY <1>1, <2>1, <2>2 DEF Covered
<1> QED
  BY <1>1, <1>5, <1>6, <1>7, <1>8 DEF CopyInv, Made

\* The end of copyTmp: it has come to every buffer.
LEMMA CopyCloseInv ==
    ASSUME CopyInv, NEW c \in Channels, CopyClose(c)
    PROVE  CopyInv'
<1>1. /\ Types /\ Untouched /\ Made /\ pc[c] = "copy" /\ pos[c] = Size /\ Size \in Nat
      /\ pc' = [pc EXCEPT ![c] = IF setting[c] THEN "truncate" ELSE "idle"]
      /\ writer' = [writer EXCEPT ![c] = writer[c] \/ ~setting[c]]
      /\ UNCHANGED <<exists, copy, pos, size, setting, latest, raced, cut, torn>>
  BY CopyUpAssumption DEF CopyInv, CopyClose, CopyAll, history
<1>2. /\ exists /\ Filling(c) /\ ~Filling(c)' /\ pc'[c] # "copy"
      /\ \A d \in Channels \ {c} : pc'[d] = pc[d] /\ (Filling(d)' <=> Filling(d))
  BY <1>1 DEF Untouched, Filling, Types
<1>3. Types'
  <2>1. pc' \in [Channels -> {"idle", "open", "copy", "truncate"}]
    BY <1>1 DEF Types
  <2>2. writer' \in [Channels -> BOOLEAN]
    BY <1>1 DEF Types
  <2> QED
    BY <1>1, <2>1, <2>2 DEF Types
<1>4. Untouched'
  BY <1>1, <1>2 DEF Untouched
<1>5. ASSUME ~torn, ~raced' PROVE Unraced'
  <2>1. Copying(c)
    <3>1. ~Copied /\ \A d \in Channels \ {c} : ~Copying(d)
      BY <1>2 DEF Copied, Copying
    <3> QED
      BY <1>1, <1>2, <1>5, <3>1 DEF Made, Unraced
  <2>2. copy' = latest'
    BY <1>1, <2>1 DEF Copying, OnCd
  <2>3. Copied'
    BY <1>2, <2>1, <2>2 DEF Copied, Copying
  <2> QED
    BY <2>3 DEF Unraced
<1>6. ASSUME ~torn, raced', ~cut' PROVE Covered'
  <2>1. Covered
    BY <1>1, <1>2, <1>6 DEF Made
  <2>2. \A k \in 1 .. Size : (Good(k) => Good(k)') /\ (Comes(k) => Comes(k)')
    <3>1. TAKE k \in 1 .. Size
    <3>2. Good(k) => Good(k)'
      BY <1>1 DEF Good, Content
    <3>3. ~(pos[c] < k)
      BY <1>1
    <3>4. Comes(k) => Comes(k)'
      BY <1>1, <1>2, <3>3 DEF Comes
    <3> QED
      BY <3>2, <3>4
  <2> QED
    BY <1>1, <2>1, <2>2 DEF Covered
<1> QED
  BY <1>1, <1>3, <1>4, <1>5, <1>6 DEF CopyInv, Made

\* A stop in the middle of a copy tears the file; any other stop leaves what
\* the copies made.
LEMMA StopInv ==
    ASSUME CopyInv, Stop
    PROVE  CopyInv'
<1>1. /\ Types /\ Untouched /\ Made /\ Size \in Nat
      /\ torn' = (torn \/ \E c \in Channels : pc[c] = "copy")
      /\ pc' = All("idle") /\ pos' = All(0) /\ size' = All(Size)
      /\ setting' = All(FALSE) /\ writer' = All(FALSE)
      /\ UNCHANGED <<exists, copy, latest, raced, cut>>
  BY CopyUpAssumption DEF CopyInv, Stop
<1>2. Types'
  BY <1>1 DEF Types, All
<1>3. Untouched'
  BY <1>1 DEF Untouched, All
<1>4. \A c \in Channels : pc'[c] = "idle" /\ ~Filling(c)'
  BY <1>1 DEF All, Filling
<1>5. ASSUME exists, ~torn', ~raced PROVE Unraced'
  <2>1. ~torn /\ \A c \in Channels : ~Copying(c)
    BY <1>1, <1>5 DEF Copying
  <2>2. Copied
    BY <1>1, <1>5, <2>1 DEF Made, Unraced
  <2> QED
    BY <1>1, <1>4, <2>2 DEF Copied, Unraced
<1>6. ASSUME exists, ~torn', raced, ~cut PROVE Covered'
  <2>1. Covered
    BY <1>1, <1>6 DEF Made
  <2>2. \A k \in 1 .. Size : ~Comes(k) /\ (Good(k) => Good(k)')
    BY <1>1, <1>6 DEF Comes, Good, Content
  <2> QED
    BY <1>1, <2>1, <2>2 DEF Covered
<1> QED
  BY <1>1, <1>2, <1>3, <1>5, <1>6 DEF CopyInv, Made

----------------------------------------------------------------------------
\* The invariant says what a file that nobody copies reads as.
LEMMA CopyInvSettles == CopyInv => Settled
<1> SUFFICES ASSUME CopyInv, \A c \in Channels : ~Filling(c), ~torn, NEW i \in 1 .. Size
             PROVE  \/ Content(i) = Expected(i)
                    \/ raced /\ Content(i) = "cd"
                    \/ raced /\ cut
  BY DEF Settled
<1>1. Size \in Nat
  BY CopyUpAssumption
<1>2. CASE ~exists
  <2>1. Content(i) = "cd" /\ latest = OnCd
    BY <1>2 DEF Content, CopyInv, Untouched
  <2> QED
    BY <1>1, <2>1, OnCdFacts DEF Expected
<1>3. CASE exists /\ ~raced
  <2>1. \A c \in Channels : ~Copying(c)
    BY DEF Copying, Filling
  <2>2. copy = latest
    BY <1>3, <2>1 DEF CopyInv, Made, Unraced, Copied
  <2> QED
    BY <1>3, <2>2 DEF Content, Expected
<1>4. CASE exists /\ raced /\ ~cut
  <2>1. Covered /\ ~Comes(i)
    BY <1>4 DEF CopyInv, Made, Comes, Filling
  <2>2. Content(i) \in {latest[i], "cd"} /\ Expected(i) = latest[i]
    BY <1>1, <2>1 DEF Covered, Good, Expected
  <2> QED
    BY <1>4, <2>2
<1> QED
  BY <1>2, <1>3, <1>4

\* However many channels open, write and set attributes at once, and wherever
\* the daemon stops: a file that no one copies reads as the requests left it,
\* but for what a stop inside copyTmp, or a race with it, has done to it.
THEOREM FileSettles == Spec => []Settled
<1>1. CopyInv /\ [Next]_vars => CopyInv'
  <2> SUFFICES ASSUME CopyInv, [Next]_vars PROVE CopyInv'
    OBVIOUS
  <2>1. ASSUME NEW c \in Channels, Thread(c) PROVE CopyInv'
    BY <2>1, CopyOpenInv, CopyBufferInv, CopyCloseInv, TruncateInv DEF Thread
  <2>2. ASSUME NEW c \in Channels, Request(c) PROVE CopyInv'
    BY <2>2, OpenInv, WriteInv DEF Request
  <2>3. CASE Stop
    BY <2>3, StopInv
  <2>4. CASE UNCHANGED vars
    <3>1. /\ UNCHANGED <<exists, copy, scratched, pc, pos, size, setting, writer>>
          /\ UNCHANGED <<latest, raced, cut, torn>>
      BY <2>4 DEF vars, threadVars, history
    <3>2. Types' /\ Untouched'
      BY <3>1 DEF CopyInv, Types, Untouched
    <3>3. Made'
      BY <3>1, MadeKept DEF CopyInv
    <3> QED
      BY <3>2, <3>3 DEF CopyInv
  <2> QED
    BY <2>1, <2>2, <2>3, <2>4 DEF Next
<1> QED
  BY InitCopy, CopyInvSettles, <1>1, PTL DEF Spec
=============================================================================
