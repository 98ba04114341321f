--------------------------- MODULE WhiteoutProofs ---------------------------
(***************************************************************************)
(* Lemmas about whiteouts, for any set of names: what setVisible and load  *)
(* do to the list and to the file.                                         *)
(***************************************************************************)
EXTENDS Whiteout, SequenceTheorems, WellFoundedInduction, TLAPS

\* A list that holds no name twice.
Distinct(s) == \A i, j \in 1 .. Len(s) : s[i] = s[j] => i = j

\* What find returns is a position of the name.
LEMMA FindPosition ==
    ASSUME NEW S, NEW w \in Whiteouts(S), NEW p, Hidden(w, p)
    PROVE  Find(w, p) \in 1 .. Len(w.entries) /\ w.entries[Find(w, p)] = p
  <1> DEFINE T == {i \in 1 .. Len(w.entries) : w.entries[i] = p}
  <1>1. T # {} /\ T \subseteq Nat
    BY DEF Hidden, Whiteouts
  <1>2. PICK i \in T : \A j \in T : <<j, i>> \notin OpToRel(<, Nat)
    BY <1>1, NatLessThanWellFounded, WFMin
  <1>3. /\ i \in 1 .. Len(w.entries) /\ w.entries[i] = p
        /\ \A j \in 1 .. Len(w.entries) : w.entries[j] = p => ~(j < i)
    BY <1>1, <1>2 DEF OpToRel
  <1> HIDE DEF T
  <1>4. Len(w.entries) \in Nat
    BY DEF Whiteouts
  <1>5. \A j \in 1 .. (i - 1) : j \in 1 .. Len(w.entries) /\ j < i
    BY <1>3, <1>4
  <1>6. QED
    BY <1>3, <1>5 DEF Find

\* Erasing the entry at i shifts those after it.
LEMMA WithoutProperties ==
    ASSUME NEW S, NEW s \in Seq(S), NEW i \in 1 .. Len(s)
    PROVE  /\ Without(s, i) \in Seq(S)
           /\ Len(Without(s, i)) = Len(s) - 1
           /\ \A k \in 1 .. (Len(s) - 1) : Without(s, i)[k] = IF k < i THEN s[k] ELSE s[k + 1]
  <1> DEFINE a == SubSeq(s, 1, i - 1)
             b == SubSeq(s, i + 1, Len(s))
  <1>1. Len(s) \in Nat /\ i \in Nat /\ i >= 1 /\ i <= Len(s)
    OBVIOUS
  <1>2. \A k \in 1 .. Len(s) : s[k] \in S
    OBVIOUS
  <1>3. /\ a \in Seq(S) /\ Len(a) = i - 1
        /\ \A k \in 1 .. (i - 1) : a[k] = s[k]
    BY <1>1, <1>2, SubSeqProperties
  <1>4. /\ b \in Seq(S) /\ Len(b) = Len(s) - i
        /\ \A k \in 1 .. (Len(s) - i) : b[k] = s[k + i]
    BY <1>1, <1>2, SubSeqProperties
  <1> HIDE DEF a, b
  <1>5. a \o b \in Seq(S) /\ Len(a \o b) = Len(a) + Len(b)
    BY <1>3, <1>4, ConcatProperties
  <1>6. \A k \in 1 .. (Len(s) - 1) : (a \o b)[k] = IF k < i THEN s[k] ELSE s[k + 1]
    <2>1. TAKE k \in 1 .. (Len(s) - 1)
    <2>2. (a \o b)[k] = IF k <= Len(a) THEN a[k] ELSE b[k - Len(a)]
      BY <1>1, <1>3, <1>4, ConcatProperties
    <2>3. CASE k < i
      BY <1>1, <1>3, <2>2, <2>3
    <2>4. CASE ~(k < i)
      <3>1. k - (i - 1) \in 1 .. (Len(s) - i) /\ k - (i - 1) + i = k + 1
        BY <1>1, <2>4
      <3>2. b[k - (i - 1)] = s[k + 1]
        BY <1>1, <1>4, <3>1
      <3>3. QED
        BY <1>1, <1>3, <2>2, <2>4, <3>2
    <2>5. QED
      BY <2>3, <2>4
  <1>7. Without(s, i) = a \o b
    BY DEF Without, a, b
  <1>8. Len(a \o b) = Len(s) - 1
    BY <1>1, <1>3, <1>4, <1>5
  <1>9. QED
    BY <1>5, <1>6, <1>7, <1>8

\* Erasing an entry leaves no name twice.
LEMMA EraseEntries ==
    ASSUME NEW S, NEW w \in Whiteouts(S), NEW i \in 1 .. Len(w.entries)
    PROVE  /\ Erase(w, i) \in Whiteouts(S)
           /\ Erase(w, i).file = Erase(w, i).entries
           /\ Distinct(w.entries) => Distinct(Erase(w, i).entries)
  <1> DEFINE s == w.entries
             t == Without(s, i)
  <1>1. s \in Seq(S)
    BY DEF Whiteouts
  <1>2. /\ t \in Seq(S) /\ Len(t) = Len(s) - 1
        /\ \A k \in 1 .. (Len(s) - 1) : t[k] = IF k < i THEN s[k] ELSE s[k + 1]
    BY <1>1, WithoutProperties
  <1> HIDE DEF s, t
  <1>3. Distinct(s) => Distinct(t)
    <2>1. SUFFICES ASSUME Distinct(s), NEW j \in 1 .. Len(t), NEW k \in 1 .. Len(t), t[j] = t[k]
                   PROVE  j = k
      BY DEF Distinct
    <2> DEFINE at(m) == IF m < i THEN m ELSE m + 1
    <2>2. at(j) \in 1 .. Len(s) /\ at(k) \in 1 .. Len(s)
      BY <1>1, <1>2 DEF s
    <2>3. s[at(j)] = s[at(k)]
      BY <1>1, <1>2, <2>1
    <2>4. at(j) = at(k)
      BY <2>1, <2>2, <2>3 DEF Distinct
    <2>5. QED
      BY <1>1, <1>2, <2>4 DEF s
  <1>4. Erase(w, i) = [entries |-> t, file |-> t]
    BY DEF Erase, Store, s, t
  <1>5. QED
    BY <1>2, <1>3, <1>4 DEF Whiteouts, s

\* Adding a name that is not there leaves no name twice.
LEMMA AddEntry ==
    ASSUME NEW S, NEW w \in Whiteouts(S), NEW p \in S
    PROVE  /\ Add(w, p) \in Whiteouts(S)
           /\ Add(w, p).file = Add(w, p).entries
           /\ Distinct(w.entries) /\ ~Hidden(w, p) => Distinct(Add(w, p).entries)
  <1>1. Add(w, p) = [entries |-> Append(w.entries, p), file |-> Append(w.entries, p)]
    BY DEF Add, Store
  <1>2. w.entries \in Seq(S) /\ Append(w.entries, p) \in Seq(S)
    BY DEF Whiteouts
  <1>3. Distinct(w.entries) /\ ~Hidden(w, p) => Distinct(Append(w.entries, p))
    BY <1>2 DEF Distinct, Hidden
  <1>4. QED
    BY <1>1, <1>2, <1>3 DEF Whiteouts

\* A whiteout state: the file holds the list, the list holds no name twice.
Stored(w) == w.file = w.entries /\ Distinct(w.entries)

\* setVisible, which adds only what it does not find and erases one entry
\* only, keeps the list stored and distinct.
LEMMA SetVisibleType ==
    ASSUME NEW S, NEW w \in Whiteouts(S), NEW p \in S, NEW v \in BOOLEAN
    PROVE  /\ SetVisible(w, p, v) \in Whiteouts(S)
           /\ Stored(w) => Stored(SetVisible(w, p, v))
  BY FindPosition, EraseEntries, AddEntry DEF SetVisible, Stored

\* After setVisible the name is hidden or not as asked, and no other name has
\* changed; without duplicates erasing one entry is enough for that.
LEMMA SetVisibleHides ==
    ASSUME NEW S, NEW w \in Whiteouts(S), NEW p \in S, NEW v \in BOOLEAN, Distinct(w.entries)
    PROVE  \A q : Hidden(SetVisible(w, p, v), q) <=> IF q = p THEN ~v ELSE Hidden(w, q)
  <1> DEFINE s == w.entries
  <1>1. s \in Seq(S) /\ Len(s) \in Nat
    BY DEF Whiteouts
  <1>2. CASE v /\ Hidden(w, p)
    <2> DEFINE i == Find(w, p)
               t == Without(s, i)
    <2>1. i \in 1 .. Len(s) /\ s[i] = p
      BY <1>2, FindPosition
    <2> HIDE DEF i
    <2>2. /\ Len(t) = Len(s) - 1
          /\ \A k \in 1 .. (Len(s) - 1) : t[k] = IF k < i THEN s[k] ELSE s[k + 1]
      BY <1>1, <2>1, WithoutProperties
    <2> HIDE DEF t
    <2>3. ASSUME NEW k \in 1 .. Len(t) PROVE t[k] # p /\ \E j \in 1 .. Len(s) : s[j] = t[k]
      <3>1. PICK j \in 1 .. Len(s) : j # i /\ t[k] = s[j]
        BY <1>1, <2>1, <2>2
      <3>2. QED
        BY <2>1, <3>1 DEF Distinct
    <2>4. ASSUME NEW j \in 1 .. Len(s), s[j] # p PROVE \E k \in 1 .. Len(t) : t[k] = s[j]
      <3>1. CASE j < i
        BY <1>1, <2>1, <2>2, <3>1
      <3>2. CASE j > i
        <4>1. j - 1 \in 1 .. Len(t) /\ t[j - 1] = s[j]
          BY <1>1, <2>1, <2>2, <3>2
        <4>2. QED
          BY <4>1
      <3>3. QED
        BY <2>1, <2>4, <3>1, <3>2
    <2>5. SetVisible(w, p, v) = [entries |-> t, file |-> t]
      BY <1>2 DEF SetVisible, Erase, Store, t, i
    <2> DEFINE w2 == SetVisible(w, p, v)
    <2>6. w2.entries = t
      BY <2>5
    <2> HIDE DEF w2
    <2>7. ASSUME NEW q PROVE Hidden(w2, q) <=> IF q = p THEN ~v ELSE Hidden(w, q)
      <3>1. CASE q = p
        BY <1>2, <2>3, <2>6, <3>1 DEF Hidden
      <3>2. CASE q # p
        <4>1. Hidden(w, q) => Hidden(w2, q)
          BY <2>4, <2>6, <3>2 DEF Hidden
        <4>2. Hidden(w2, q) => Hidden(w, q)
          BY <2>3, <2>6 DEF Hidden
        <4>3. QED
          BY <3>2, <4>1, <4>2
      <3>3. QED
        BY <3>1, <3>2
    <2>8. QED
      BY <2>7 DEF w2
  <1>3. CASE ~v /\ ~Hidden(w, p)
    <2>1. SetVisible(w, p, v) = [entries |-> Append(s, p), file |-> Append(s, p)]
      BY <1>3 DEF SetVisible, Add, Store
    <2>2. /\ Len(Append(s, p)) = Len(s) + 1 /\ Append(s, p)[Len(s) + 1] = p
          /\ \A k \in 1 .. Len(s) : Append(s, p)[k] = s[k]
      BY <1>1, AppendProperties
    <2>3. QED
      BY <1>1, <1>3, <2>1, <2>2 DEF Hidden
  <1>4. CASE (v /\ ~Hidden(w, p)) \/ (~v /\ Hidden(w, p))
    BY <1>4 DEF SetVisible
  <1>5. QED
    BY <1>2, <1>3, <1>4

(***************************************************************************)
(* The same with a store that may fail: the list is what it would be, the  *)
(* file need not follow.                                                   *)
(***************************************************************************)

\* Neither list nor file holds a name twice; they differ only if store may fail.
Kept(w, mayFail) ==
    /\ Distinct(w.entries) /\ Distinct(w.file)
    /\ ~mayFail => w.file = w.entries

\* The first entries of a list that holds no name twice.
LEMMA DistinctStart ==
    ASSUME NEW S, NEW s \in Seq(S), Distinct(s), NEW k \in 0 .. Len(s)
    PROVE  SubSeq(s, 1, k) \in Seq(S) /\ Distinct(SubSeq(s, 1, k))
  <1>1. /\ SubSeq(s, 1, k) \in Seq(S) /\ Len(SubSeq(s, 1, k)) = k
        /\ \A i \in 1 .. k : SubSeq(s, 1, k)[i] = s[i]
    BY SubSeqProperties
  <1>2. QED
    BY <1>1 DEF Distinct

\* What setVisible leaves, whether store fails or not.
LEMMA SetVisibleEndsType ==
    ASSUME NEW S, NEW w \in Whiteouts(S), NEW p \in S, NEW v \in BOOLEAN,
           NEW mayFail \in BOOLEAN, Kept(w, mayFail), NEW u \in SetVisibleEnds(w, p, v, mayFail)
    PROVE  /\ u \in Whiteouts(S) /\ Kept(u, mayFail)
           /\ u.entries = SetVisible(w, p, v).entries
           /\ \E k \in 0 .. Len(u.entries) : u.file \in {w.file, SubSeq(u.entries, 1, k)}
  <1> DEFINE w2 == SetVisible(w, p, v)
  <1>1. w2 \in Whiteouts(S) /\ Distinct(w2.entries) /\ (w2 = w \/ w2.file = w2.entries)
    BY FindPosition, EraseEntries, AddEntry DEF SetVisible, Kept
  <1> HIDE DEF w2
  <1>2. w2.entries \in Seq(S) /\ w2.file \in Seq(S) /\ w.file \in Seq(S) /\ Len(w2.entries) \in Nat
    BY <1>1 DEF Whiteouts
  <1>3. SubSeq(w2.entries, 1, Len(w2.entries)) = w2.entries
    BY <1>2, SubSeqProperties
  <1>4. CASE u = w2
    <2>1. Kept(u, mayFail)
      BY <1>1, <1>4 DEF Kept
    <2>2. \E k \in 0 .. Len(u.entries) : u.file \in {w.file, SubSeq(u.entries, 1, k)}
      BY <1>1, <1>2, <1>3, <1>4
    <2>3. QED
      BY <1>1, <1>4, <2>1, <2>2 DEF w2
  <1>5. CASE mayFail /\ u \in StoreFails(w, w2.entries)
    <2>1. PICK f \in {w.file} \cup {SubSeq(w2.entries, 1, k) : k \in 0 .. Len(w2.entries)} :
              u = [entries |-> w2.entries, file |-> f]
      BY <1>5 DEF StoreFails
    <2>2. f \in Seq(S) /\ Distinct(f)
      BY <1>1, <1>2, DistinctStart DEF Kept
    <2>3. \E k \in 0 .. Len(u.entries) : u.file \in {w.file, SubSeq(u.entries, 1, k)}
      BY <1>2, <2>1
    <2>4. u \in Whiteouts(S)
      BY <1>2, <2>1, <2>2 DEF Whiteouts
    <2>5. QED
      BY <1>1, <1>5, <2>1, <2>2, <2>3, <2>4 DEF Kept, w2
  <1>6. QED
    BY <1>4, <1>5 DEF SetVisibleEnds, w2

\* Only the file tells whether store failed: what is hidden is as asked.
LEMMA SetVisibleEndsHide ==
    ASSUME NEW S, NEW w \in Whiteouts(S), NEW p \in S, NEW v \in BOOLEAN,
           NEW mayFail \in BOOLEAN, Kept(w, mayFail), NEW u \in SetVisibleEnds(w, p, v, mayFail)
    PROVE  \A q : Hidden(u, q) <=> IF q = p THEN ~v ELSE Hidden(w, q)
  <1>1. u.entries = SetVisible(w, p, v).entries
    BY SetVisibleEndsType
  <1>2. \A q : Hidden(u, q) <=> Hidden(SetVisible(w, p, v), q)
    BY <1>1 DEF Hidden
  <1>3. QED
    BY <1>2, SetVisibleHides DEF Kept

\* What load leaves, whether store fails or not: a part of what it found, and
\* the list is from that.
LEMMA LoadEndsType ==
    ASSUME NEW S, NEW w \in Whiteouts(S), NEW mayFail \in BOOLEAN, Kept(w, mayFail),
           NEW u \in LoadEnds(w, mayFail)
    PROVE  /\ u \in Whiteouts(S) /\ Kept(u, mayFail)
           /\ \E k \in 0 .. Len(w.file) : u.entries = SubSeq(w.file, 1, k)
           /\ \E n \in 0 .. Len(u.entries) : u.file = SubSeq(u.entries, 1, n)
  <1>1. w.file \in Seq(S) /\ Len(w.file) \in Nat /\ Distinct(w.file)
    BY DEF Whiteouts, Kept
  <1>2. CASE u = Load(w)
    <2>1. CASE w.file = <<>>
      <3>1. u.entries = <<>> /\ u.file = <<>>
        BY <1>2, <2>1 DEF Load
      <3>2. Len(w.file) = 0 /\ SubSeq(w.file, 1, 0) = <<>> /\ Len(u.entries) = 0
        BY <2>1, <3>1
      <3>3. u \in Whiteouts(S)
        BY <1>2, <2>1 DEF Load, Whiteouts
      <3>4. QED
        BY <3>1, <3>2, <3>3, <2>1 DEF Kept, Distinct
    <2>2. CASE w.file # <<>>
      <3> DEFINE s == Append(<<>>, Head(w.file))
      <3>1. Head(w.file) \in S /\ Len(w.file) >= 1 /\ Head(w.file) = w.file[1]
        BY <1>1, <2>2
      <3>2. s \in Seq(S) /\ Len(s) = 1 /\ s[1] = w.file[1]
        BY <3>1
      <3>3. s = SubSeq(w.file, 1, 1)
        <4>1. /\ SubSeq(w.file, 1, 1) \in Seq(S) /\ Len(SubSeq(w.file, 1, 1)) = 1
              /\ SubSeq(w.file, 1, 1)[1] = w.file[1]
          BY <1>1, <3>1, SubSeqProperties
        <4>2. QED
          BY <3>2, <4>1, SeqEqual
      <3> HIDE DEF s
      <3>4. u.entries = s /\ u.file = s /\ u = [entries |-> s, file |-> s]
        BY <1>2, <2>2 DEF Load, Add, Store, s
      <3>5. Distinct(s)
        BY <3>2 DEF Distinct
      <3>6. SubSeq(s, 1, Len(s)) = s
        BY <3>2, SubSeqProperties
      <3>7. 1 \in 0 .. Len(w.file) /\ Len(s) \in 0 .. Len(s)
        BY <1>1, <3>1, <3>2
      <3>8. u \in Whiteouts(S)
        BY <3>2, <3>4 DEF Whiteouts
      <3>9. QED
        BY <3>3, <3>4, <3>5, <3>6, <3>7, <3>8 DEF Kept
    <2>3. QED
      BY <2>1, <2>2
  <1>3. CASE mayFail /\ u # Load(w)
    <2> PICK k \in 1 .. Len(w.file) : \E n \in 0 .. k :
              u = [entries |-> SubSeq(w.file, 1, k), file |-> SubSeq(w.file, 1, n)]
      BY <1>3 DEF LoadEnds
    <2>1. PICK n \in 0 .. k :
              u = [entries |-> SubSeq(w.file, 1, k), file |-> SubSeq(w.file, 1, n)]
      OBVIOUS
    <2>2. k \in 0 .. Len(w.file) /\ n \in 0 .. Len(w.file)
      BY <1>1
    <2>3. /\ SubSeq(w.file, 1, k) \in Seq(S) /\ Distinct(SubSeq(w.file, 1, k))
          /\ SubSeq(w.file, 1, n) \in Seq(S) /\ Distinct(SubSeq(w.file, 1, n))
      BY <1>1, <2>2, DistinctStart
    <2>4. u \in Whiteouts(S) /\ u.entries = SubSeq(w.file, 1, k) /\ u.file = SubSeq(w.file, 1, n)
      BY <2>1, <2>3 DEF Whiteouts
    <2>5. /\ Len(u.entries) = k /\ \A i \in 1 .. k : u.entries[i] = w.file[i]
          /\ u.entries \in Seq(S)
      BY <1>1, <2>2, <2>3, <2>4, SubSeqProperties
    <2>6. SubSeq(u.entries, 1, n) = SubSeq(w.file, 1, n)
      <3>1. /\ SubSeq(u.entries, 1, n) \in Seq(S) /\ Len(SubSeq(u.entries, 1, n)) = n
            /\ \A i \in 1 .. n : SubSeq(u.entries, 1, n)[i] = u.entries[i]
        BY <2>2, <2>5, SubSeqProperties
      <3>2. /\ Len(SubSeq(w.file, 1, n)) = n
            /\ \A i \in 1 .. n : SubSeq(w.file, 1, n)[i] = w.file[i]
        BY <1>1, <2>2, SubSeqProperties
      <3>3. \A i \in 1 .. n : u.entries[i] = w.file[i]
        BY <2>2, <2>5
      <3>4. QED
        BY <2>3, <3>1, <3>2, <3>3, SeqEqual
    <2>7. Kept(u, mayFail)
      BY <1>3, <2>3, <2>4 DEF Kept
    <2>8. QED
      BY <2>2, <2>4, <2>5, <2>6, <2>7
  <1>4. QED
    BY <1>2, <1>3 DEF LoadEnds
=============================================================================
