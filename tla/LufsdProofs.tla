---------------------------- MODULE LufsdProofs ----------------------------
(***************************************************************************)
(* Proofs about the directory cache of lufsd, for any number of channels,  *)
(* directories, names, buckets and entries, negative ones too, and any     *)
(* hash: the buckets stay well formed, and no channel is told of a name    *)
(* that is gone, or not of one that is there, but of the directories the   *)
(* cache was told nothing of.                                              *)
(***************************************************************************)
EXTENDS LufsdProperties, SequenceTheorems, WellFoundedInduction, TLAPS

----------------------------------------------------------------------------
(***************************************************************************)
(* Buckets.                                                                *)
(***************************************************************************)
Distinct(b) == \A i, j \in 1 .. Len(b) : i # j => b[i].name # b[j].name

\* d is what became of the listing e: it may have expired, and no more.
Same(d, e) == d.name = e.name /\ d.list = e.list /\ (Valid(d) => Valid(e))

\* Every listing of t was one of b.
From(t, b) == \A p \in 1 .. Len(t) : \E i \in 1 .. Len(b) : Same(t[p], b[i])

\* t is a bucket made of b by deleting and expiring listings.
Thinned(t, b) == t \in Seq(Directory) /\ Len(t) <= Len(b) /\ Distinct(t) /\ From(t, b)

\* The function that Unexpired defines by recursion, for the first m listings.
Keeping(f, b, m) ==
    f = [n \in 0 .. m |->
            IF n = 0 THEN <<>>
            ELSE IF Valid(b[n]) THEN Append(f[n - 1], b[n]) ELSE f[n - 1]]

\* What it is to be after n listings.
KeptSoFar(s, b, n) ==
    /\ s \in Seq(Directory) /\ Len(s) <= n /\ Distinct(s)
    /\ \A p \in 1 .. Len(s) : \E i \in 1 .. n : s[p] = b[i] /\ Valid(b[i])

\* One more listing.
LEMMA KeptNext ==
    ASSUME NEW b \in Seq(Directory), Distinct(b), NEW n \in 1 .. Len(b),
           NEW s, KeptSoFar(s, b, n - 1)
    PROVE  KeptSoFar(IF Valid(b[n]) THEN Append(s, b[n]) ELSE s, b, n)
  <1>1. s \in Seq(Directory) /\ Len(s) \in Nat /\ Len(s) <= n - 1 /\ b[n] \in Directory
    BY DEF KeptSoFar
  <1>2. CASE Valid(b[n])
    <2> DEFINE t == Append(s, b[n])
    <2>1. /\ t \in Seq(Directory) /\ Len(t) = Len(s) + 1
          /\ \A p \in 1 .. Len(s) : t[p] = s[p]
          /\ t[Len(s) + 1] = b[n]
      BY <1>1, AppendProperties
    <2> HIDE DEF t
    <2>2. \A p \in 1 .. Len(t) : \E i \in 1 .. n : t[p] = b[i] /\ Valid(b[i])
      <3>1. TAKE p \in 1 .. Len(t)
      <3>2. CASE p \in 1 .. Len(s)
        BY <2>1, <3>2 DEF KeptSoFar
      <3>3. CASE p = Len(s) + 1
        BY <1>2, <2>1, <3>3
      <3>4. QED
        BY <1>1, <2>1, <3>2, <3>3
    <2>3. \A p \in 1 .. Len(s) : s[p].name # b[n].name
      <3>1. TAKE p \in 1 .. Len(s)
      <3>2. PICK i \in 1 .. n - 1 : s[p] = b[i]
        BY DEF KeptSoFar
      <3>3. i \in 1 .. Len(b) /\ i # n
        BY <3>2
      <3>4. QED
        BY <3>2, <3>3 DEF Distinct
    <2>4. Distinct(t)
      <3>1. SUFFICES ASSUME NEW p \in 1 .. Len(t), NEW q \in 1 .. Len(t), p # q
                     PROVE  t[p].name # t[q].name
        BY DEF Distinct
      <3>2. CASE p \in 1 .. Len(s) /\ q \in 1 .. Len(s)
        BY <2>1, <3>1, <3>2 DEF KeptSoFar, Distinct
      <3>3. CASE p = Len(s) + 1 /\ q \in 1 .. Len(s)
        BY <2>1, <2>3, <3>3
      <3>4. CASE q = Len(s) + 1 /\ p \in 1 .. Len(s)
        BY <2>1, <2>3, <3>4
      <3>5. QED
        BY <1>1, <2>1, <3>1, <3>2, <3>3, <3>4
    <2>5. QED
      BY <1>1, <1>2, <2>1, <2>2, <2>4 DEF KeptSoFar, t
  <1>3. CASE ~Valid(b[n])
    BY <1>1, <1>3 DEF KeptSoFar
  <1>4. QED
    BY <1>2, <1>3

\* The recursion defines a function.
LEMMA KeepingExists ==
    ASSUME NEW b \in Seq(Directory)
    PROVE  \E f : Keeping(f, b, Len(b))
  <1> DEFINE T == {m \in Nat : ~\E f : Keeping(f, b, m)}
  <1>1. SUFFICES T = {}
    BY LenProperties
  <1>2. SUFFICES ASSUME T # {} PROVE FALSE
    OBVIOUS
  <1>3. PICK m \in T : \A k \in T : <<k, m>> \notin OpToRel(<, Nat)
    BY <1>2, NatLessThanWellFounded, WFMin
  <1>4. CASE m = 0
    <2>1. Keeping([n \in 0 .. 0 |-> <<>>], b, 0)
      BY DEF Keeping
    <2>2. QED
      BY <1>4, <2>1
  <1>5. CASE m > 0
    <2>1. m - 1 \in Nat /\ m - 1 < m
      BY <1>5
    <2>2. m - 1 \notin T
      BY <1>3, <2>1 DEF OpToRel
    <2>3. PICK f : Keeping(f, b, m - 1)
      BY <2>1, <2>2
    <2> DEFINE last == IF Valid(b[m]) THEN Append(f[m - 1], b[m]) ELSE f[m - 1]
               g == [n \in 0 .. m |-> IF n = m THEN last ELSE f[n]]
    <2>4. ASSUME NEW n \in 0 .. m
          PROVE  g[n] = IF n = 0 THEN <<>>
                        ELSE IF Valid(b[n]) THEN Append(g[n - 1], b[n]) ELSE g[n - 1]
      <3>1. CASE n = m
        <4>1. g[n] = last /\ g[n - 1] = f[m - 1]
          BY <1>5, <2>1, <3>1
        <4>2. QED
          BY <1>5, <3>1, <4>1
      <3>2. CASE n # m
        <4>1. n \in 0 .. m - 1 /\ g[n] = f[n]
          BY <2>1, <3>2
        <4>2. n # 0 => g[n - 1] = f[n - 1]
          BY <2>1, <3>2
        <4>3. f[n] = IF n = 0 THEN <<>>
                     ELSE IF Valid(b[n]) THEN Append(f[n - 1], b[n]) ELSE f[n - 1]
          BY <2>3, <4>1 DEF Keeping
        <4>4. QED
          BY <4>1, <4>2, <4>3
      <3>3. QED
        BY <3>1, <3>2
    <2>5. Keeping(g, b, m)
      BY <2>4 DEF Keeping
    <2>6. QED
      BY <2>5
  <1>6. QED
    BY <1>4, <1>5

\* What is left of a bucket when the expired listings have gone.
LEMMA UnexpiredKept ==
    ASSUME NEW b \in Seq(Directory), Distinct(b)
    PROVE  KeptSoFar(Unexpired(b), b, Len(b))
  <1> DEFINE kept == CHOOSE f : Keeping(f, b, Len(b))
  <1>1. Unexpired(b) = kept[Len(b)]
    BY DEF Unexpired, Keeping
  <1>2. Keeping(kept, b, Len(b))
    BY KeepingExists
  <1> HIDE DEF kept
  <1>3. Len(b) \in Nat
    OBVIOUS
  <1>4. kept[0] = <<>>
    BY <1>2, <1>3 DEF Keeping
  <1>5. \A n \in 1 .. Len(b) :
            kept[n] = IF Valid(b[n]) THEN Append(kept[n - 1], b[n]) ELSE kept[n - 1]
    <2>1. TAKE n \in 1 .. Len(b)
    <2>2. n \in 0 .. Len(b) /\ n # 0
      BY <1>3
    <2>3. QED
      BY <1>2, <2>2 DEF Keeping
  <1> DEFINE T == {n \in 0 .. Len(b) : ~KeptSoFar(kept[n], b, n)}
  <1>6. SUFFICES ASSUME T # {} PROVE FALSE
    BY <1>1, <1>3
  <1>7. PICK n \in T : \A k \in T : <<k, n>> \notin OpToRel(<, Nat)
    <2>1. T \subseteq Nat
      BY <1>3
    <2>2. QED
      BY <1>6, <2>1, NatLessThanWellFounded, WFMin
  <1>8. n \in 0 .. Len(b) /\ ~KeptSoFar(kept[n], b, n)
    OBVIOUS
  <1>9. \A k \in 0 .. Len(b) : k < n => KeptSoFar(kept[k], b, k)
    <2>1. TAKE k \in 0 .. Len(b)
    <2>2. HAVE k < n
    <2>3. <<k, n>> \in OpToRel(<, Nat)
      BY <1>3, <1>8, <2>2 DEF OpToRel
    <2>4. QED
      BY <1>7, <2>3
  <1> HIDE DEF T
  <1>10. n # 0
    <2>1. KeptSoFar(<<>>, b, 0)
      BY DEF KeptSoFar, Distinct
    <2>2. QED
      BY <1>4, <1>8, <2>1
  <1>11. n \in 1 .. Len(b) /\ n - 1 \in 0 .. Len(b) /\ n - 1 < n
    BY <1>3, <1>8, <1>10
  <1>12. KeptSoFar(kept[n - 1], b, n - 1)
    BY <1>9, <1>11
  <1>13. QED
    BY <1>5, <1>8, <1>11, <1>12, KeptNext

\* The same, as a bucket made of another.
LEMMA UnexpiredThinned ==
    ASSUME NEW b \in Seq(Directory), Distinct(b)
    PROVE  /\ Thinned(Unexpired(b), b)
           /\ \A p \in 1 .. Len(Unexpired(b)) : Valid(Unexpired(b)[p])
  BY UnexpiredKept DEF Thinned, From, Same, KeptSoFar

\* In a bucket that holds a directory once, search finds the listing there is.
LEMMA FoundThere ==
    ASSUME NEW b \in Seq(Directory), Distinct(b), NEW dir
    PROVE  FoundAt(b, dir) = {i \in 1 .. Len(b) : b[i].name = dir /\ Valid(b[i])}
  <1>1. ASSUME NEW i \in 1 .. Len(b), b[i].name = dir, NEW j \in 1 .. (i - 1)
        PROVE  b[j].name # dir
    BY <1>1 DEF Distinct
  <1>2. QED
    BY <1>1 DEF FoundAt

\* Deleting or expiring listings one time after another.
LEMMA ThinnedTwice ==
    ASSUME NEW b \in Seq(Directory), NEW t, Thinned(t, b), NEW u, Thinned(u, t)
    PROVE  Thinned(u, b)
  <1>1. Len(b) \in Nat /\ Len(t) \in Nat /\ Len(u) \in Nat
    BY LenProperties DEF Thinned
  <1>2. From(u, b)
    BY DEF Thinned, From, Same
  <1>3. QED
    BY <1>1, <1>2 DEF Thinned

\* What is before and after a listing.
LEMMA BeforeAfter ==
    ASSUME NEW b \in Seq(Directory), NEW i \in 1 .. Len(b)
    PROVE  /\ Before(b, i) \in Seq(Directory) /\ Len(Before(b, i)) = i - 1
           /\ \A j \in 1 .. i - 1 : Before(b, i)[j] = b[j]
           /\ After(b, i) \in Seq(Directory) /\ Len(After(b, i)) = Len(b) - i
           /\ \A j \in 1 .. Len(b) - i : After(b, i)[j] = b[i + j]
  <1>1. Len(b) \in Nat
    OBVIOUS
  <1>2. /\ Before(b, i) \in Seq(Directory) /\ Len(Before(b, i)) = i - 1
        /\ \A j \in 1 .. i - 1 : Before(b, i)[j] = b[j]
    <2>1. \A j \in 1 .. i - 1 : b[j] \in Directory
      BY <1>1
    <2>2. i - 1 \in Int /\ 1 \in Int
      BY <1>1
    <2>3. /\ Before(b, i) \in Seq(Directory)
          /\ Len(Before(b, i)) = IF 1 <= i - 1 THEN (i - 1) - 1 + 1 ELSE 0
          /\ \A j \in 1 .. (i - 1) - 1 + 1 : Before(b, i)[j] = b[1 + j - 1]
      BY <2>1, <2>2, SubSeqProperties DEF Before
    <2>4. QED
      BY <1>1, <2>3
  <1>3. /\ After(b, i) \in Seq(Directory) /\ Len(After(b, i)) = Len(b) - i
        /\ \A j \in 1 .. Len(b) - i : After(b, i)[j] = b[i + j]
    <2>1. \A j \in i + 1 .. Len(b) : b[j] \in Directory
      BY <1>1
    <2>2. i + 1 \in Int /\ Len(b) \in Int
      BY <1>1
    <2>3. /\ After(b, i) \in Seq(Directory)
          /\ Len(After(b, i)) = IF i + 1 <= Len(b) THEN Len(b) - (i + 1) + 1 ELSE 0
          /\ \A j \in 1 .. Len(b) - (i + 1) + 1 : After(b, i)[j] = b[(i + 1) + j - 1]
      BY <2>1, <2>2, SubSeqProperties DEF After
    <2>4. QED
      BY <1>1, <2>3
  <1>4. QED
    BY <1>2, <1>3

\* The places of a concatenation.
LEMMA Joined ==
    ASSUME NEW S, NEW s \in Seq(S), NEW a \in Seq(S)
    PROVE  /\ s \o a \in Seq(S) /\ Len(s \o a) = Len(s) + Len(a)
           /\ \A p \in 1 .. Len(s) : (s \o a)[p] = s[p]
           /\ \A p \in 1 .. Len(a) : (s \o a)[Len(s) + p] = a[p]
           /\ \A p \in 1 .. Len(s \o a) :
                  p \in 1 .. Len(s) \/ \E q \in 1 .. Len(a) : p = Len(s) + q
  <1>1. Len(s) \in Nat /\ Len(a) \in Nat
    OBVIOUS
  <1>2. /\ s \o a \in Seq(S) /\ Len(s \o a) = Len(s) + Len(a)
        /\ \A p \in 1 .. Len(s) + Len(a) :
               (s \o a)[p] = IF p <= Len(s) THEN s[p] ELSE a[p - Len(s)]
    BY ConcatProperties
  <1>3. \A p \in 1 .. Len(s) : (s \o a)[p] = s[p]
    <2>1. \A p \in 1 .. Len(s) : p \in 1 .. Len(s) + Len(a) /\ p <= Len(s)
      BY <1>1
    <2>2. QED
      BY <1>2, <2>1
  <1>4. \A p \in 1 .. Len(a) : (s \o a)[Len(s) + p] = a[p]
    <2>1. \A p \in 1 .. Len(a) : /\ Len(s) + p \in 1 .. Len(s) + Len(a)
                                 /\ ~(Len(s) + p <= Len(s)) /\ (Len(s) + p) - Len(s) = p
      BY <1>1
    <2>2. QED
      BY <1>2, <2>1
  <1>5. ASSUME NEW p \in 1 .. Len(s) + Len(a)
        PROVE  p \in 1 .. Len(s) \/ \E q \in 1 .. Len(a) : p = Len(s) + q
    <2>1. p \in 1 .. Len(s) \/ (p - Len(s) \in 1 .. Len(a) /\ p = Len(s) + (p - Len(s)))
      BY <1>1
    <2>2. QED
      BY <2>1
  <1>6. QED
    BY <1>2, <1>3, <1>4, <1>5

\* A bucket put together of listings from before a place, and listings from
\* behind it, with or without the one at the place.
LEMMA ThinnedAround ==
    ASSUME NEW b \in Seq(Directory), Distinct(b), NEW i \in 1 .. Len(b),
           NEW s, Thinned(s, Before(b, i)), NEW e \in Directory, Same(e, b[i])
    PROVE  /\ Thinned(s \o After(b, i), b)
           /\ \A p \in 1 .. Len(s \o After(b, i)) : (s \o After(b, i))[p].name # b[i].name
           /\ Thinned(s \o <<e>> \o After(b, i), b)
           /\ \E p \in 1 .. Len(s \o <<e>> \o After(b, i)) : (s \o <<e>> \o After(b, i))[p] = e
  <1> DEFINE a == After(b, i)
             f == Before(b, i)
  <1>1. /\ Len(b) \in Nat /\ a \in Seq(Directory) /\ Len(a) = Len(b) - i
        /\ \A j \in 1 .. Len(b) - i : a[j] = b[i + j]
        /\ f \in Seq(Directory) /\ Len(f) = i - 1
        /\ \A j \in 1 .. i - 1 : f[j] = b[j]
    <2>1. Len(b) \in Nat
      OBVIOUS
    <2>2. QED
      BY <2>1, BeforeAfter
  <1>2. /\ s \in Seq(Directory) /\ Len(s) \in Nat /\ Len(s) <= i - 1 /\ Distinct(s)
        /\ \A p \in 1 .. Len(s) : \E j \in 1 .. i - 1 : Same(s[p], b[j])
    <2>1. s \in Seq(Directory) /\ Len(s) <= Len(f) /\ Distinct(s) /\ From(s, f)
      BY DEF Thinned
    <2> HIDE DEF f
    <2>2. \A p \in 1 .. Len(s) : \E j \in 1 .. i - 1 : Same(s[p], f[j])
      BY <1>1, <2>1 DEF From
    <2>3. Len(s) \in Nat
      BY <2>1
    <2>4. QED
      BY <1>1, <2>1, <2>2, <2>3
  <1> HIDE DEF a, f
  <1> DEFINE t == s \o a
             v == s \o <<e>>
             u == v \o a
  <1>3. /\ t \in Seq(Directory) /\ Len(t) = Len(s) + Len(a)
        /\ \A p \in 1 .. Len(s) : t[p] = s[p]
        /\ \A p \in 1 .. Len(a) : t[Len(s) + p] = a[p]
        /\ \A p \in 1 .. Len(t) : p \in 1 .. Len(s) \/ \E q \in 1 .. Len(a) : p = Len(s) + q
    BY <1>1, <1>2, Joined
  <1>4. /\ u \in Seq(Directory) /\ Len(u) = Len(s) + 1 + Len(a)
        /\ \A p \in 1 .. Len(s) : u[p] = s[p]
        /\ u[Len(s) + 1] = e
        /\ \A p \in 1 .. Len(a) : u[Len(s) + 1 + p] = a[p]
        /\ \A p \in 1 .. Len(u) : \/ p \in 1 .. Len(s) \/ p = Len(s) + 1
                                   \/ \E q \in 1 .. Len(a) : p = Len(s) + 1 + q
    <2>1. <<e>> \in Seq(Directory) /\ Len(<<e>>) = 1 /\ <<e>>[1] = e
      OBVIOUS
    <2>2. /\ v \in Seq(Directory) /\ Len(v) = Len(s) + 1
          /\ \A p \in 1 .. Len(s) : v[p] = s[p]
          /\ v[Len(s) + 1] = e
      BY <1>2, <2>1, Joined
    <2> HIDE DEF v
    <2>3. /\ u \in Seq(Directory) /\ Len(u) = Len(v) + Len(a)
          /\ \A p \in 1 .. Len(v) : u[p] = v[p]
          /\ \A p \in 1 .. Len(a) : u[Len(v) + p] = a[p]
          /\ \A p \in 1 .. Len(u) : p \in 1 .. Len(v) \/ \E q \in 1 .. Len(a) : p = Len(v) + q
      <3>1. v \in Seq(Directory) /\ a \in Seq(Directory)
        BY <1>1, <2>2
      <3>2. QED
        BY <3>1, Joined
    <2> HIDE DEF u
    <2>4. /\ \A p \in 1 .. Len(s) : p \in 1 .. Len(v)
          /\ \A p \in 1 .. Len(v) : p \in 1 .. Len(s) \/ p = Len(s) + 1
          /\ Len(s) + 1 \in 1 .. Len(v)
      BY <1>2, <2>2
    <2>5. QED
      BY <2>2, <2>3, <2>4
  <1> HIDE DEF t, u
  \* where the listings of the three parts come from
  <1>5. \A p \in 1 .. Len(s) : s[p].name # b[i].name
    <2>1. TAKE p \in 1 .. Len(s)
    <2>2. PICK j \in 1 .. i - 1 : Same(s[p], b[j])
      BY <1>2
    <2>3. j \in 1 .. Len(b) /\ j # i
      BY <1>1, <2>2
    <2>4. QED
      BY <2>2, <2>3 DEF Distinct, Same
  <1>6. \A p \in 1 .. Len(a) : a[p].name # b[i].name
    <2>1. TAKE p \in 1 .. Len(a)
    <2>2. i + p \in 1 .. Len(b) /\ i + p # i /\ a[p] = b[i + p]
      BY <1>1
    <2>3. QED
      BY <2>2 DEF Distinct
  <1>7. \A p \in 1 .. Len(s), q \in 1 .. Len(a) : s[p].name # a[q].name
    <2>1. TAKE p \in 1 .. Len(s), q \in 1 .. Len(a)
    <2>2. PICK j \in 1 .. i - 1 : Same(s[p], b[j])
      BY <1>2
    <2>3. i + q \in 1 .. Len(b) /\ a[q] = b[i + q]
      BY <1>1
    <2>4. j \in 1 .. Len(b) /\ i + q # j
      BY <1>1, <2>2
    <2>5. QED
      BY <2>2, <2>3, <2>4 DEF Distinct, Same
  <1>8. \A p, q \in 1 .. Len(a) : p # q => a[p].name # a[q].name
    <2>1. TAKE p, q \in 1 .. Len(a)
    <2>2. i + p \in 1 .. Len(b) /\ i + q \in 1 .. Len(b) /\ a[p] = b[i + p] /\ a[q] = b[i + q]
      BY <1>1
    <2>3. p # q => i + p # i + q
      OBVIOUS
    <2>4. QED
      BY <2>2, <2>3 DEF Distinct
  <1>9. \A p \in 1 .. Len(s) : \E j \in 1 .. Len(b) : Same(s[p], b[j])
    BY <1>1, <1>2
  <1>10. \A p \in 1 .. Len(a) : \E j \in 1 .. Len(b) : Same(a[p], b[j])
    <2>1. TAKE p \in 1 .. Len(a)
    <2>2. p \in 1 .. Len(b) - i
      BY <1>1
    <2>3. i + p \in 1 .. Len(b) /\ a[p] = b[i + p]
      BY <1>1, <2>2
    <2>4. QED
      BY <2>3 DEF Same
  <1>11. Len(t) <= Len(b) /\ Len(u) <= Len(b)
    BY <1>1, <1>2, <1>3, <1>4
  <1>12. Thinned(t, b) /\ \A p \in 1 .. Len(t) : t[p].name # b[i].name
    <2>1. From(t, b)
      <3>1. SUFFICES ASSUME NEW p \in 1 .. Len(t)
                     PROVE  \E j \in 1 .. Len(b) : Same(t[p], b[j])
        BY DEF From
      <3>2. CASE p \in 1 .. Len(s)
        BY <1>3, <1>9, <3>2
      <3>3. ASSUME NEW q \in 1 .. Len(a), p = Len(s) + q
            PROVE  \E j \in 1 .. Len(b) : Same(t[p], b[j])
        BY <1>3, <1>10, <3>3
      <3>4. QED
        BY <1>3, <3>2, <3>3
    <2>2. Distinct(t)
      <3>1. SUFFICES ASSUME NEW p \in 1 .. Len(t), NEW q \in 1 .. Len(t), p # q
                     PROVE  t[p].name # t[q].name
        BY DEF Distinct
      <3>2. CASE p \in 1 .. Len(s) /\ q \in 1 .. Len(s)
        BY <1>2, <1>3, <3>1, <3>2 DEF Distinct
      <3>3. ASSUME NEW k \in 1 .. Len(a), p = Len(s) + k, q \in 1 .. Len(s)
            PROVE  t[p].name # t[q].name
        BY <1>3, <1>7, <3>3
      <3>4. ASSUME NEW l \in 1 .. Len(a), p \in 1 .. Len(s), q = Len(s) + l
            PROVE  t[p].name # t[q].name
        BY <1>3, <1>7, <3>4
      <3>5. ASSUME NEW k \in 1 .. Len(a), p = Len(s) + k, NEW l \in 1 .. Len(a), q = Len(s) + l
            PROVE  t[p].name # t[q].name
        BY <1>3, <1>8, <3>1, <3>5
      <3>6. QED
        BY <1>3, <3>2, <3>3, <3>4, <3>5
    <2>3. \A p \in 1 .. Len(t) : t[p].name # b[i].name
      BY <1>3, <1>5, <1>6
    <2>4. QED
      BY <1>3, <1>11, <2>1, <2>2, <2>3 DEF Thinned
  <1>13. Thinned(u, b)
    <2>1. From(u, b)
      <3>1. SUFFICES ASSUME NEW p \in 1 .. Len(u)
                     PROVE  \E j \in 1 .. Len(b) : Same(u[p], b[j])
        BY DEF From
      <3>2. CASE p \in 1 .. Len(s)
        BY <1>4, <1>9, <3>2
      <3>3. CASE p = Len(s) + 1
        BY <1>4, <3>3
      <3>4. ASSUME NEW q \in 1 .. Len(a), p = Len(s) + 1 + q
            PROVE  \E j \in 1 .. Len(b) : Same(u[p], b[j])
        BY <1>4, <1>10, <3>4
      <3>5. QED
        BY <1>4, <3>2, <3>3, <3>4
    <2>2. e.name = b[i].name
      BY DEF Same
    <2>3. Distinct(u)
      <3>1. SUFFICES ASSUME NEW p \in 1 .. Len(u), NEW q \in 1 .. Len(u), p # q,
                            u[p].name = u[q].name
                     PROVE  FALSE
        BY DEF Distinct
      <3>2. CASE p \in 1 .. Len(s)
        <4>1. CASE q \in 1 .. Len(s)
          BY <1>2, <1>4, <3>1, <3>2, <4>1 DEF Distinct
        <4>2. CASE q = Len(s) + 1
          BY <1>4, <1>5, <2>2, <3>1, <3>2, <4>2
        <4>3. ASSUME NEW l \in 1 .. Len(a), q = Len(s) + 1 + l PROVE FALSE
          BY <1>4, <1>7, <3>1, <3>2, <4>3
        <4>4. QED
          BY <1>4, <4>1, <4>2, <4>3
      <3>3. CASE p = Len(s) + 1
        <4>1. CASE q \in 1 .. Len(s)
          BY <1>4, <1>5, <2>2, <3>1, <3>3, <4>1
        <4>2. ASSUME NEW l \in 1 .. Len(a), q = Len(s) + 1 + l PROVE FALSE
          BY <1>4, <1>6, <2>2, <3>1, <3>3, <4>2
        <4>3. QED
          BY <1>4, <3>1, <3>3, <4>1, <4>2
      <3>4. ASSUME NEW k \in 1 .. Len(a), p = Len(s) + 1 + k PROVE FALSE
        <4>1. CASE q \in 1 .. Len(s)
          BY <1>4, <1>7, <3>1, <3>4, <4>1
        <4>2. CASE q = Len(s) + 1
          BY <1>4, <1>6, <2>2, <3>1, <3>4, <4>2
        <4>3. ASSUME NEW l \in 1 .. Len(a), q = Len(s) + 1 + l PROVE FALSE
          BY <1>4, <1>8, <3>1, <3>4, <4>3
        <4>4. QED
          BY <1>4, <4>1, <4>2, <4>3
      <3>5. QED
        BY <1>4, <3>2, <3>3, <3>4
    <2>4. QED
      BY <1>4, <1>11, <2>1, <2>3 DEF Thinned
  <1>14. \E p \in 1 .. Len(u) : u[p] = e
    <2>1. Len(s) + 1 \in 1 .. Len(u)
      BY <1>1, <1>2, <1>4
    <2>2. QED
      BY <1>4, <2>1
  <1>15. QED
    BY <1>12, <1>13, <1>14 DEF t, u, v, a

\* The part before a listing is a bucket like the whole.
LEMMA BeforeDistinct ==
    ASSUME NEW b \in Seq(Directory), Distinct(b), NEW i \in 1 .. Len(b)
    PROVE  Distinct(Before(b, i))
  <1>1. Len(b) \in Nat
    OBVIOUS
  <1>2. Len(Before(b, i)) = i - 1 /\ \A j \in 1 .. i - 1 : Before(b, i)[j] = b[j]
    BY BeforeAfter
  <1>3. \A j \in 1 .. i - 1 : j \in 1 .. Len(b)
    BY <1>1
  <1>4. QED
    BY <1>2, <1>3 DEF Distinct

\* A listing with a new time stamp.
LEMMA Stamped ==
    ASSUME NEW d \in Directory, NEW n \in Nat
    PROVE  /\ [d EXCEPT !.age = n] \in Directory
           /\ [d EXCEPT !.age = n].name = d.name /\ [d EXCEPT !.age = n].list = d.list
           /\ [d EXCEPT !.age = n].age = n
           /\ d.age \in Nat
  BY DEF Directory

\* What search leaves of a bucket.  When it finds nothing, no listing of dir
\* is left; what it finds stays.
LEMMA SweptThinned ==
    ASSUME NEW b \in Seq(Directory), Distinct(b), NEW dir
    PROVE  /\ Thinned(Swept(b, dir), b)
           /\ FoundAt(b, dir) = {} =>
                  \A p \in 1 .. Len(Swept(b, dir)) : Swept(b, dir)[p].name # dir
           /\ FoundAt(b, dir) # {} => FoundAt(Swept(b, dir), dir) # {}
  <1> DEFINE s == Swept(b, dir)
  <1>1. CASE FoundAt(b, dir) = {}
    <2>1. s = Unexpired(b)
      BY <1>1 DEF Swept
    <2>2. /\ Thinned(s, b)
          /\ \A p \in 1 .. Len(s) : Valid(s[p])
      BY <2>1, UnexpiredThinned
    <2> HIDE DEF s
    <2>3. ASSUME NEW p \in 1 .. Len(s), s[p].name = dir PROVE FALSE
      <3>1. PICK i \in 1 .. Len(b) : Same(s[p], b[i])
        BY <2>2 DEF Thinned, From
      <3>2. b[i].name = dir /\ Valid(b[i])
        BY <2>2, <2>3, <3>1 DEF Same
      <3>3. QED
        BY <1>1, <3>2, FoundThere
    <2>4. QED
      BY <1>1, <2>2, <2>3 DEF s
  <1>2. CASE FoundAt(b, dir) # {}
    <2> DEFINE i == Index(b, dir)
               e == [b[i] EXCEPT !.age = 0]
    <2>1. i \in 1 .. Len(b) /\ b[i].name = dir /\ Valid(b[i])
      <3>1. i \in FoundAt(b, dir)
        BY <1>2 DEF Index
      <3> HIDE DEF i
      <3>2. QED
        BY <3>1, FoundThere
    <2>2. s = Unexpired(Before(b, i)) \o <<e>> \o After(b, i)
      BY <1>2 DEF Swept
    <2> HIDE DEF i
    <2>3. e \in Directory /\ e.name = b[i].name /\ e.list = b[i].list /\ e.age = 0
      <3>1. b[i] \in Directory /\ 0 \in Nat
        BY <2>1
      <3>2. QED
        BY <3>1, Stamped
    <2> HIDE DEF e
    <2>4. Valid(e) /\ Same(e, b[i])
      <3>1. b[i].age \in Nat
        <4>1. b[i] \in Directory
          BY <2>1
        <4>2. QED
          BY <4>1 DEF Directory
      <3>2. QED
        BY <2>1, <2>3, <3>1, CacheAssumption DEF Same, Valid, Expired
    <2>5. Before(b, i) \in Seq(Directory) /\ Distinct(Before(b, i))
      BY <2>1, BeforeAfter, BeforeDistinct
    <2>6. Thinned(Unexpired(Before(b, i)), Before(b, i))
      BY <2>5, UnexpiredThinned
    <2>7. Thinned(s, b) /\ \E p \in 1 .. Len(s) : s[p] = e
      <3> DEFINE w == Unexpired(Before(b, i))
                 u == w \o <<e>> \o After(b, i)
      <3>1. i \in 1 .. Len(b) /\ Thinned(w, Before(b, i)) /\ e \in Directory /\ Same(e, b[i])
        BY <2>1, <2>3, <2>4, <2>6
      <3>2. s = u
        BY <2>2
      <3> HIDE DEF w, s
      <3>3. Thinned(u, b) /\ \E p \in 1 .. Len(u) : u[p] = e
        BY <3>1, ThinnedAround
      <3> HIDE DEF u
      <3>4. QED
        BY <3>2, <3>3
    <2> HIDE DEF s
    <2>8. FoundAt(s, dir) # {}
      <3>1. s \in Seq(Directory) /\ Distinct(s)
        BY <2>7 DEF Thinned
      <3>2. PICK p \in 1 .. Len(s) : s[p] = e
        BY <2>7
      <3>3. p \in FoundAt(s, dir)
        BY <2>1, <2>3, <2>4, <3>1, <3>2, FoundThere
      <3>4. QED
        BY <3>3
    <2>9. QED
      BY <1>2, <2>7, <2>8 DEF s
  <1>3. QED
    BY <1>1, <1>2

\* Nothing changes.
LEMMA ThinnedSame ==
    ASSUME NEW b \in Seq(Directory), Distinct(b)
    PROVE  Thinned(b, b)
  BY LenProperties DEF Thinned, From, Same

\* The first listings of a bucket.
LEMMA ThinnedBefore ==
    ASSUME NEW b \in Seq(Directory), Distinct(b), NEW i \in 1 .. Len(b)
    PROVE  Thinned(Before(b, i), b)
  <1>1. Len(b) \in Nat
    OBVIOUS
  <1>2. /\ Before(b, i) \in Seq(Directory) /\ Len(Before(b, i)) = i - 1
        /\ \A j \in 1 .. i - 1 : Before(b, i)[j] = b[j]
    BY BeforeAfter
  <1>3. \A j \in 1 .. i - 1 : j \in 1 .. Len(b)
    BY <1>1
  <1>4. From(Before(b, i), b)
    BY <1>2, <1>3 DEF From, Same
  <1>5. QED
    BY <1>1, <1>2, <1>4, BeforeDistinct DEF Thinned

\* What is left when the listing of dir has been deleted.
LEMMA OthersThinned ==
    ASSUME NEW b \in Seq(Directory), Distinct(b), NEW dir
    PROVE  LET o == Others(Swept(b, dir), dir)
           IN  Thinned(o, b) /\ \A p \in 1 .. Len(o) : o[p].name # dir
  <1> DEFINE s == Swept(b, dir)
             o == Others(s, dir)
  <1>1. s \in Seq(Directory) /\ Distinct(s) /\ Thinned(s, b)
    BY SweptThinned DEF Thinned
  <1>2. CASE FoundAt(s, dir) = {}
    <2>1. o = s
      BY <1>2 DEF Others
    <2>2. \A p \in 1 .. Len(s) : s[p].name # dir
      BY <1>2, SweptThinned
    <2>3. QED
      BY <1>1, <2>1, <2>2
  <1>3. CASE FoundAt(s, dir) # {}
    <2> HIDE DEF s
    <2> DEFINE i == Index(s, dir)
    <2>1. i \in 1 .. Len(s) /\ s[i].name = dir
      <3>1. i \in FoundAt(s, dir)
        BY <1>3 DEF Index
      <3> HIDE DEF i
      <3>2. QED
        BY <1>1, <3>1, FoundThere
    <2>2. o = Before(s, i) \o After(s, i)
      BY <1>3 DEF Others
    <2> HIDE DEF i, o
    <2>3. Before(s, i) \in Seq(Directory) /\ Distinct(Before(s, i))
      BY <1>1, <2>1, BeforeAfter, BeforeDistinct
    <2>4. Thinned(Before(s, i), Before(s, i))
      BY <2>3, ThinnedSame
    <2>5. s[i] \in Directory /\ Same(s[i], s[i])
      BY <1>1, <2>1 DEF Same
    <2>6. Thinned(o, s) /\ \A p \in 1 .. Len(o) : o[p].name # dir
      <3> DEFINE w == Before(s, i)
                 u == w \o After(s, i)
      <3>1. i \in 1 .. Len(s) /\ Thinned(w, Before(s, i)) /\ s \in Seq(Directory) /\ Distinct(s)
        BY <1>1, <2>1, <2>4
      <3> DEFINE d == s[i]
      <3>2. d \in Directory /\ Same(d, s[i])
        BY <2>5
      <3> HIDE DEF w, d
      <3>3. /\ Thinned(u, s) /\ \A p \in 1 .. Len(u) : u[p].name # s[i].name
            /\ Thinned(w \o <<d>> \o After(s, i), s)
        BY <3>1, <3>2, ThinnedAround
      <3>4. o = u
        BY <2>2 DEF w
      <3> HIDE DEF u
      <3>5. QED
        BY <2>1, <3>3, <3>4
    <2>7. Thinned(o, b)
      BY <1>1, <2>6, ThinnedTwice
    <2>8. QED
      BY <2>6, <2>7 DEF o, s
  <1>4. QED
    BY <1>2, <1>3

----------------------------------------------------------------------------
(***************************************************************************)
(* The cache.                                                              *)
(***************************************************************************)

\* A bucket that is as it should be: that of h.
BucketOK(b, h) ==
    /\ b \in Seq(Directory) /\ Distinct(b)
    /\ Len(b) <= MaxEntries \/ b = <<>>
    /\ \A i \in 1 .. Len(b) : hash[b[i].name] = h

CacheOK(C) ==
    /\ C \in Cache
    /\ \A h \in Buckets : BucketOK(C.buckets[h], h) /\ C.lengths[h] = Len(C.buckets[h])

\* Every listing of D was one of C.
CacheFrom(D, C) == \A h \in Buckets : From(D.buckets[h], C.buckets[h])

\* What lu_cache_create makes.
LEMMA EmptyCacheOK == CacheOK(EmptyCache)
  BY DEF CacheOK, EmptyCache, Cache, BucketOK, Distinct

\* What is made of a bucket by deleting and expiring listings is one.
LEMMA ThinnedBucket ==
    ASSUME NEW b, NEW h, BucketOK(b, h), NEW t, Thinned(t, b)
    PROVE  BucketOK(t, h)
  <1>1. Len(b) \in Nat /\ Len(t) \in Nat /\ Len(t) <= Len(b) /\ t \in Seq(Directory)
    BY LenProperties DEF BucketOK, Thinned
  <1>4. Len(t) <= MaxEntries \/ t = <<>>
    <2>1. CASE Len(b) <= MaxEntries
      BY <1>1, <2>1, CacheAssumption
    <2>2. CASE b = <<>>
      <3>1. Len(b) = 0
        BY <2>2
      <3>2. QED
        BY <1>1, <3>1, EmptySeq
    <2>3. QED
      BY <2>1, <2>2 DEF BucketOK
  <1>2. \A p \in 1 .. Len(t) : hash[t[p].name] = h
    BY DEF BucketOK, Thinned, From, Same
  <1>3. QED
    BY <1>1, <1>2, <1>4 DEF BucketOK, Thinned

\* A bucket takes the place of another.
LEMMA SetBucketOK ==
    ASSUME NEW C, CacheOK(C), NEW h \in Buckets, NEW t, BucketOK(t, h)
    PROVE  /\ CacheOK(SetBucket(C, h, t))
           /\ SetBucket(C, h, t).buckets[h] = t
           /\ \A g \in Buckets \ {h} : SetBucket(C, h, t).buckets[g] = C.buckets[g]
  <1> DEFINE D == SetBucket(C, h, t)
  <1>1. /\ C.buckets \in [Buckets -> Seq(Directory)] /\ C.lengths \in [Buckets -> Nat]
        /\ C.lengths[h] = Len(C.buckets[h])
    BY DEF CacheOK, Cache
  <1>2. /\ D.buckets = [C.buckets EXCEPT ![h] = t]
        /\ D.lengths = [C.lengths EXCEPT ![h] = C.lengths[h] + Len(t) - Len(C.buckets[h])]
        /\ D = [buckets |-> D.buckets, lengths |-> D.lengths]
    BY DEF SetBucket
  <1>3. t \in Seq(Directory) /\ Len(t) \in Nat
    BY DEF BucketOK
  <1>4. C.lengths[h] + Len(t) - Len(C.buckets[h]) = Len(t)
    BY <1>1, <1>3
  <1> HIDE DEF D
  <1>5. /\ D.buckets[h] = t /\ D.lengths[h] = Len(t)
        /\ \A g \in Buckets \ {h} : D.buckets[g] = C.buckets[g] /\ D.lengths[g] = C.lengths[g]
    BY <1>1, <1>2, <1>4
  <1>6. D \in Cache
    <2>1. D.buckets \in [Buckets -> Seq(Directory)] /\ D.lengths \in [Buckets -> Nat]
      BY <1>1, <1>2, <1>3, <1>4
    <2>2. QED
      BY <1>2, <2>1 DEF Cache
  <1>7. CacheOK(D)
    BY <1>5, <1>6 DEF CacheOK
  <1>8. QED
    BY <1>5, <1>7 DEF D

\* A bucket is thinned.
LEMMA ThinBucket ==
    ASSUME NEW C, CacheOK(C), NEW h \in Buckets, NEW t, Thinned(t, C.buckets[h])
    PROVE  /\ CacheOK(SetBucket(C, h, t))
           /\ CacheFrom(SetBucket(C, h, t), C)
           /\ SetBucket(C, h, t).buckets[h] = t
  <1>1. BucketOK(t, h)
    BY ThinnedBucket DEF CacheOK
  <1>2. /\ CacheOK(SetBucket(C, h, t))
        /\ SetBucket(C, h, t).buckets[h] = t
        /\ \A g \in Buckets \ {h} : SetBucket(C, h, t).buckets[g] = C.buckets[g]
    BY <1>1, SetBucketOK
  <1>3. CacheFrom(SetBucket(C, h, t), C)
    <2>1. From(t, C.buckets[h])
      BY DEF Thinned
    <2>2. \A g \in Buckets : From(C.buckets[g], C.buckets[g])
      BY DEF From, Same
    <2>3. \A g \in Buckets : From(SetBucket(C, h, t).buckets[g], C.buckets[g])
      BY <1>2, <2>1, <2>2
    <2>4. QED
      BY <2>3 DEF CacheFrom
  <1>4. QED
    BY <1>2, <1>3

\* search.
LEMMA SearchOK ==
    ASSUME NEW C, CacheOK(C), NEW dir \in Dirs
    PROVE  CacheOK(Search(C, dir)) /\ CacheFrom(Search(C, dir), C)
  <1>1. hash[dir] \in Buckets
    BY CacheAssumption
  <1>2. C.buckets[hash[dir]] \in Seq(Directory) /\ Distinct(C.buckets[hash[dir]])
    BY <1>1 DEF CacheOK, BucketOK
  <1>3. QED
    BY <1>1, <1>2, SweptThinned, ThinBucket DEF Search

\* lu_cache_invalidate: no valid listing of dir is left.
LEMMA InvalidateOK ==
    ASSUME NEW C, CacheOK(C), NEW dir \in Dirs
    PROVE  LET D == Invalidate(C, dir)
           IN  /\ CacheOK(D) /\ CacheFrom(D, C)
               /\ \A h \in Buckets : \A i \in 1 .. Len(D.buckets[h]) :
                      D.buckets[h][i].name = dir => ~Valid(D.buckets[h][i])
  <1> DEFINE h == hash[dir]
             s == Swept(C.buckets[h], dir)
             t == [i \in 1 .. Len(s) |->
                      IF i \in FoundAt(s, dir) THEN [s[i] EXCEPT !.age = Oldest] ELSE s[i]]
             D == Invalidate(C, dir)
  <1>1. h \in Buckets
    BY CacheAssumption
  <1>2. C.buckets[h] \in Seq(Directory) /\ Distinct(C.buckets[h])
    BY <1>1 DEF CacheOK, BucketOK
  <1>3. Thinned(s, C.buckets[h])
    BY <1>2, SweptThinned
  <1>4. D = SetBucket(C, h, t)
    BY DEF Invalidate
  <1> HIDE DEF s, h, D
  <1>5. s \in Seq(Directory) /\ Distinct(s) /\ Len(s) \in Nat
    BY <1>3 DEF Thinned
  <1>6. \A i \in 1 .. Len(s) :
            /\ t[i] \in Directory /\ Same(t[i], s[i])
            /\ s[i].name = dir => ~Valid(t[i])
    <2>1. TAKE i \in 1 .. Len(s)
    <2>2. s[i] \in Directory /\ Oldest \in Nat /\ Oldest >= Ttl
      BY <1>5, CacheAssumption DEF Oldest
    <2>3. /\ [s[i] EXCEPT !.age = Oldest] \in Directory
          /\ [s[i] EXCEPT !.age = Oldest].name = s[i].name
          /\ [s[i] EXCEPT !.age = Oldest].list = s[i].list
          /\ [s[i] EXCEPT !.age = Oldest].age = Oldest
      BY <2>2, Stamped
    <2>4. CASE i \in FoundAt(s, dir)
      <3>1. t[i] = [s[i] EXCEPT !.age = Oldest]
        BY <2>4
      <3>2. ~Valid(t[i])
        <4>1. ~Valid([s[i] EXCEPT !.age = Oldest])
          BY <2>2, <2>3 DEF Valid, Expired
        <4>2. QED
          BY <3>1, <4>1
      <3>3. QED
        BY <2>3, <3>1, <3>2 DEF Same
    <2>5. CASE i \notin FoundAt(s, dir)
      <3>1. t[i] = s[i]
        BY <2>5
      <3>2. s[i].name = dir => ~Valid(s[i])
        BY <1>5, <2>5, FoundThere
      <3>3. QED
        BY <2>2, <3>1, <3>2 DEF Same
    <2>6. QED
      BY <2>4, <2>5
  <1>7. t \in Seq(Directory) /\ Len(t) = Len(s)
    BY <1>5, <1>6
  <1> HIDE DEF t
  <1>8. Thinned(t, s)
    <2>1. From(t, s)
      BY <1>6, <1>7 DEF From
    <2>2. Distinct(t)
      BY <1>5, <1>6, <1>7 DEF Distinct, Same
    <2>3. QED
      BY <1>5, <1>7, <2>1, <2>2 DEF Thinned
  <1>9. Thinned(t, C.buckets[h])
    BY <1>2, <1>3, <1>8, ThinnedTwice
  <1>10. CacheOK(D) /\ CacheFrom(D, C) /\ D.buckets[h] = t
    BY <1>1, <1>4, <1>9, ThinBucket
  <1>11. ASSUME NEW g \in Buckets, NEW i \in 1 .. Len(D.buckets[g]), D.buckets[g][i].name = dir
         PROVE  ~Valid(D.buckets[g][i])
    <2>1. g = h
      BY <1>10, <1>11 DEF CacheOK, BucketOK, h
    <2>2. D.buckets[g] = t /\ i \in 1 .. Len(s)
      BY <1>7, <1>10, <2>1
    <2>3. s[i].name = dir
      BY <1>6, <1>11, <2>2 DEF Same
    <2>4. QED
      BY <1>6, <2>2, <2>3
  <1>12. QED
    BY <1>10, <1>11 DEF D

\* A second passes.
LEMMA AgedOK ==
    ASSUME NEW C, CacheOK(C)
    PROVE  CacheOK(Aged(C)) /\ CacheFrom(Aged(C), C)
  <1> DEFINE D == Aged(C)
             aged(b) == [i \in 1 .. Len(b) |-> [b[i] EXCEPT !.age = Older(@)]]
  <1>1. C.buckets \in [Buckets -> Seq(Directory)] /\ C.lengths \in [Buckets -> Nat]
        /\ C = [buckets |-> C.buckets, lengths |-> C.lengths]
    BY DEF CacheOK, Cache
  <1>2. /\ D.buckets = [h \in Buckets |-> aged(C.buckets[h])] /\ D.lengths = C.lengths
        /\ D = [buckets |-> D.buckets, lengths |-> D.lengths]
    <2> DEFINE B == [h \in Buckets |-> aged(C.buckets[h])]
    <2>1. D = [C EXCEPT !.buckets = B]
      BY DEF Aged
    <2> HIDE DEF B, D
    <2>2. D.buckets = B /\ D.lengths = C.lengths /\ D = [buckets |-> D.buckets, lengths |-> D.lengths]
      BY <1>1, <2>1
    <2>3. QED
      BY <2>2 DEF B
  <1>3. ASSUME NEW b \in Seq(Directory), Distinct(b)
        PROVE  Thinned(aged(b), b) /\ Len(aged(b)) = Len(b)
    <2>1. Len(b) \in Nat
      OBVIOUS
    <2>2. \A i \in 1 .. Len(b) : aged(b)[i] \in Directory /\ Same(aged(b)[i], b[i])
      <3>1. TAKE i \in 1 .. Len(b)
      <3>2. b[i] \in Directory
        OBVIOUS
      <3>3. b[i].age \in Nat
        BY <3>2 DEF Directory
      <3>4. Older(b[i].age) \in Nat /\ b[i].age <= Older(b[i].age)
        BY <3>3, CacheAssumption DEF Older
      <3> DEFINE n == Older(b[i].age)
      <3>5. aged(b)[i] = [b[i] EXCEPT !.age = n]
        OBVIOUS
      <3> HIDE DEF n
      <3>6. /\ aged(b)[i] \in Directory
            /\ aged(b)[i].name = b[i].name /\ aged(b)[i].list = b[i].list /\ aged(b)[i].age = n
        BY <3>2, <3>4, <3>5, Stamped DEF n
      <3>7. Valid(aged(b)[i]) => Valid(b[i])
        BY <3>3, <3>4, <3>6, CacheAssumption DEF Valid, Expired, n
      <3>8. QED
        BY <3>6, <3>7 DEF Same
    <2>3. aged(b) \in Seq(Directory) /\ Len(aged(b)) = Len(b)
      BY <2>1, <2>2
    <2> HIDE DEF aged
    <2>4. From(aged(b), b)
      BY <2>2, <2>3 DEF From
    <2>5. Distinct(aged(b))
      BY <1>3, <2>2, <2>3 DEF Distinct, Same
    <2>6. QED
      BY <2>1, <2>3, <2>4, <2>5 DEF Thinned
  <1> HIDE DEF aged, D
  <1>4. ASSUME NEW h \in Buckets
        PROVE  /\ Thinned(D.buckets[h], C.buckets[h]) /\ D.buckets[h] \in Seq(Directory)
               /\ BucketOK(D.buckets[h], h) /\ D.lengths[h] = Len(D.buckets[h])
    <2>1. /\ C.buckets[h] \in Seq(Directory) /\ Distinct(C.buckets[h]) /\ BucketOK(C.buckets[h], h)
          /\ C.lengths[h] = Len(C.buckets[h])
      BY DEF CacheOK, BucketOK
    <2>2. D.buckets[h] = aged(C.buckets[h])
      BY <1>2
    <2>3. Thinned(D.buckets[h], C.buckets[h]) /\ Len(D.buckets[h]) = Len(C.buckets[h])
      BY <1>3, <2>1, <2>2
    <2>4. QED
      BY <1>2, <2>1, <2>3, ThinnedBucket DEF Thinned
  <1>5. D \in Cache
    <2>1. D.buckets \in [Buckets -> Seq(Directory)]
      BY <1>2, <1>4
    <2>2. QED
      BY <1>1, <1>2, <2>1 DEF Cache
  <1>6. QED
    BY <1>4, <1>5 DEF CacheOK, CacheFrom, Thinned, D

\* lu_cache_add_dir: the listings are those there were, and the new one.
LEMMA AddDirOK ==
    ASSUME NEW C, CacheOK(C), NEW dir \in Dirs, NEW list \in Listings
    PROVE  LET D == AddDir(C, dir, list)
           IN  /\ CacheOK(D)
               /\ \A h \in Buckets : \A p \in 1 .. Len(D.buckets[h]) :
                      IF D.buckets[h][p].name = dir THEN D.buckets[h][p].list = list
                      ELSE \E i \in 1 .. Len(C.buckets[h]) : Same(D.buckets[h][p], C.buckets[h][i])
  <1> DEFINE h == hash[dir]
             o == Others(Swept(C.buckets[h], dir), dir)
             new == [name |-> dir, list |-> list, age |-> 0]
             t == <<new>> \o o
             D == AddDir(C, dir, list)
  <1>1. h \in Buckets
    BY CacheAssumption
  <1>2. BucketOK(C.buckets[h], h) /\ C.buckets[h] \in Seq(Directory) /\ Distinct(C.buckets[h])
    BY <1>1 DEF CacheOK, BucketOK
  <1>3. Thinned(o, C.buckets[h]) /\ \A p \in 1 .. Len(o) : o[p].name # dir
    BY <1>2, OthersThinned
  <1>4. D = SetBucket(C, h, Shrunk(t))
    BY DEF AddDir
  <1> HIDE DEF o, D
  <1>5. BucketOK(o, h) /\ o \in Seq(Directory) /\ Distinct(o)
    BY <1>2, <1>3, ThinnedBucket DEF Thinned
  <1>6. new \in Directory /\ new.name = dir /\ new.list = list
    BY CacheAssumption DEF Directory
  <1> HIDE DEF new
  <1> DEFINE one == <<new>>
  <1>7. one \in Seq(Directory) /\ Len(one) = 1 /\ one[1] = new
    BY <1>6
  <1>8. t = one \o o
    OBVIOUS
  <1> HIDE DEF one, t
  <1>9. /\ t \in Seq(Directory) /\ Len(t) = 1 + Len(o) /\ t[1] = new
        /\ \A p \in 1 .. Len(o) : t[1 + p] = o[p]
        /\ \A p \in 1 .. Len(t) : p = 1 \/ \E q \in 1 .. Len(o) : p = 1 + q
    <2>1. /\ one \o o \in Seq(Directory) /\ Len(one \o o) = Len(one) + Len(o)
          /\ \A p \in 1 .. Len(one) : (one \o o)[p] = one[p]
          /\ \A p \in 1 .. Len(o) : (one \o o)[Len(one) + p] = o[p]
          /\ \A p \in 1 .. Len(one \o o) :
                 p \in 1 .. Len(one) \/ \E q \in 1 .. Len(o) : p = Len(one) + q
      BY <1>5, <1>7, Joined
    <2>2. QED
      BY <1>7, <1>8, <2>1
  <1>10. Distinct(t)
    <2>1. SUFFICES ASSUME NEW p \in 1 .. Len(t), NEW q \in 1 .. Len(t), p # q,
                          t[p].name = t[q].name
                   PROVE  FALSE
      BY DEF Distinct
    <2>2. ASSUME p = 1, NEW k \in 1 .. Len(o), q = 1 + k PROVE FALSE
      BY <1>3, <1>6, <1>9, <2>1, <2>2
    <2>3. ASSUME q = 1, NEW k \in 1 .. Len(o), p = 1 + k PROVE FALSE
      BY <1>3, <1>6, <1>9, <2>1, <2>3
    <2>4. ASSUME NEW k \in 1 .. Len(o), p = 1 + k, NEW l \in 1 .. Len(o), q = 1 + l PROVE FALSE
      BY <1>5, <1>9, <2>1, <2>4 DEF Distinct
    <2>5. QED
      BY <1>9, <2>1, <2>2, <2>3, <2>4
  <1>11. \A p \in 1 .. Len(t) : hash[t[p].name] = h
    <2>1. ASSUME NEW k \in 1 .. Len(o) PROVE hash[t[1 + k].name] = h
      BY <1>5, <1>9 DEF BucketOK
    <2>2. hash[t[1].name] = h
      BY <1>6, <1>9
    <2>3. QED
      BY <1>9, <2>1, <2>2
  <1>12. \A p \in 1 .. Len(t) :
             IF t[p].name = dir THEN t[p].list = list
             ELSE \E i \in 1 .. Len(C.buckets[h]) : Same(t[p], C.buckets[h][i])
    <2>1. ASSUME NEW k \in 1 .. Len(o)
          PROVE  /\ t[1 + k].name # dir
                 /\ \E i \in 1 .. Len(C.buckets[h]) : Same(t[1 + k], C.buckets[h][i])
      BY <1>3, <1>9 DEF Thinned, From
    <2>2. t[1].name = dir /\ t[1].list = list
      BY <1>6, <1>9
    <2>3. QED
      BY <1>9, <2>1, <2>2
  <1>13. BucketOK(Shrunk(t), h) /\ From(Shrunk(t), t)
    <2>1. Len(t) \in Nat \ {0} /\ MaxEntries \in Int
      BY <1>5, <1>9, CacheAssumption
    <2>2. CASE Len(t) > MaxEntries
      <3> DEFINE m == IF MaxEntries > 0 THEN MaxEntries + 1 ELSE 1
      <3>1. /\ m \in 1 .. Len(t) /\ m - 1 = (IF MaxEntries > 0 THEN MaxEntries ELSE 0)
            /\ m - 1 <= MaxEntries \/ m - 1 = 0
        BY <2>1, <2>2
      <3>2. Shrunk(t) = Before(t, m)
        BY <2>1, <2>2, <3>1 DEF Shrunk, Before
      <3> HIDE DEF m
      <3>3. Thinned(Before(t, m), t) /\ Len(Before(t, m)) = m - 1
        BY <1>9, <1>10, <3>1, ThinnedBefore, BeforeAfter
      <3>4. /\ Shrunk(t) \in Seq(Directory) /\ Distinct(Shrunk(t)) /\ From(Shrunk(t), t)
            /\ Len(Shrunk(t)) <= MaxEntries \/ Len(Shrunk(t)) = 0
        BY <3>1, <3>2, <3>3 DEF Thinned
      <3>5. Len(Shrunk(t)) <= MaxEntries \/ Shrunk(t) = <<>>
        <4>1. Len(Shrunk(t)) = 0 => Shrunk(t) = <<>>
          BY <3>4, EmptySeq
        <4>2. QED
          BY <3>4, <4>1
      <3>6. QED
        BY <1>11, <3>4, <3>5 DEF BucketOK, From, Same
    <2>3. CASE ~(Len(t) > MaxEntries)
      <3>1. Shrunk(t) = t /\ Len(t) <= MaxEntries
        BY <2>1, <2>3 DEF Shrunk
      <3>2. QED
        BY <1>9, <1>10, <1>11, <3>1 DEF BucketOK, From, Same
    <2>4. QED
      BY <2>2, <2>3
  <1>14. /\ CacheOK(D) /\ D.buckets[h] = Shrunk(t)
         /\ \A g \in Buckets \ {h} : D.buckets[g] = C.buckets[g]
    BY <1>1, <1>4, <1>13, SetBucketOK
  <1>15. ASSUME NEW g \in Buckets, NEW p \in 1 .. Len(D.buckets[g])
         PROVE  IF D.buckets[g][p].name = dir THEN D.buckets[g][p].list = list
                ELSE \E i \in 1 .. Len(C.buckets[g]) : Same(D.buckets[g][p], C.buckets[g][i])
    <2>1. CASE g = h
      <3>1. PICK q \in 1 .. Len(t) : Same(D.buckets[g][p], t[q])
        BY <1>13, <1>14, <2>1 DEF From
      <3>2. QED
        BY <1>12, <2>1, <3>1 DEF Same
    <2>2. CASE g # h
      <3>1. D.buckets[g] = C.buckets[g] /\ BucketOK(C.buckets[g], g)
        BY <1>14, <2>2 DEF CacheOK
      <3>2. D.buckets[g][p].name # dir
        BY <2>2, <3>1 DEF BucketOK
      <3>3. QED
        BY <3>1, <3>2 DEF Same
    <2>3. QED
      BY <2>1, <2>2
  <1>16. QED
    BY <1>14, <1>15 DEF D

----------------------------------------------------------------------------
(***************************************************************************)
(* The channels.                                                           *)
(***************************************************************************)
ChannelState ==
    [pc : {"idle", "called", "fill", "add", "shrinking", "list", "ask", "inval"},
     op : Ops \cup {"none"}, at : Place, to : Place,
     list : Listings, todo : Seq(Dirs), reply : {"none", "OK", "ERROR"}]

\* The directories whose semaphores the kernel holds for a request, and those
\* it has still to invalidate.
HeldBy(r) == Holds(r.op, r.at, r.to)
Waits(r)  == {r.todo[i] : i \in 1 .. Len(r.todo)}

\* Whether F shows a directory, and a listing is that of the directory in F.
Shown(F, d)   == \A p \in Place : d \in DirAt[p] => F[p[1]][p[2]] # 0
RightIn(F, l) == Shown(F, l.name) /\ Entries(l.list) = Entries(F[l.name])

\* A channel between its steps: only one that has changed something has
\* something to invalidate, and what one has read is still so.
ChannelOK(r, F, U) ==
    /\ r.pc = "idle" <=> r.op = "none"
    /\ r.pc # "inval" => r.todo = <<>>
    /\ r.pc \in {"add", "list"} => r.op = "readdir" /\ Shown(F, r.at[1])
    /\ r.pc = "add" => Entries(r.list) = Entries(F[r.at[1]])
    /\ r.pc = "list" => r.at[1] \notin U

\* The semaphores keep the requests of a directory apart.
Apart == \A c, e \in Channels : HeldBy(chan[c]) \cap HeldBy(chan[e]) # {} => c = e

\* A valid listing is that of the directory, unless a channel that keeps the
\* others away from the directory has changed it and not yet said so, or
\* nobody will say so.
Pending(d) == \E c \in Channels : d \in HeldBy(chan[c]) \cap Waits(chan[c])

Current(l) == Valid(l) => RightIn(fs, l) \/ Pending(l.name) \/ l.name \in untold

CacheCurrent == \A h \in Buckets : \A i \in 1 .. Len(cache.buckets[h]) : Current(cache.buckets[h][i])

LufsdInv ==
    /\ fs \in [Dirs -> Listings] /\ chan \in [Channels -> ChannelState] /\ CacheOK(cache)
    /\ \A c \in Channels : ChannelOK(chan[c], fs, untold)
    /\ Apart
    /\ CacheCurrent

----------------------------------------------------------------------------
\* What a step may do to a directory and to its listings: leave it shown with
\* its names; leave none but right ones; add none.
SameDir(d) == Shown(fs', d) /\ Entries(fs'[d]) = Entries(fs[d])

ListedRight(d) ==
    \A h \in Buckets : \A p \in 1 .. Len(cache'.buckets[h]) :
        cache'.buckets[h][p].name = d /\ Valid(cache'.buckets[h][p])
            => RightIn(fs', cache'.buckets[h][p])

OldListings(d) ==
    \A h \in Buckets : \A p \in 1 .. Len(cache'.buckets[h]) :
        cache'.buckets[h][p].name = d =>
            \E i \in 1 .. Len(cache.buckets[h]) : Same(cache'.buckets[h][p], cache.buckets[h][i])

\* A step of channel c leaves the directories alone that it does not hold.
Undisturbed(c) ==
    \A d \in Dirs : Shown(fs, d) /\ d \notin HeldBy(chan[c])
                        => SameDir(d) /\ (d \in untold' => d \in untold)

\* After a step of channel c every directory is in W, which c holds and will
\* invalidate, or nobody will say that it has changed, or its listings are
\* right, or as right as they were.
Accounted(c, W) ==
    \A d \in Dirs : \/ d \in W
                    \/ d \in untold'
                    \/ ListedRight(d)
                    \/ /\ d \notin HeldBy(chan[c]) \cap Waits(chan[c])
                       /\ d \notin untold
                       /\ Shown(fs, d) => SameDir(d)
                       /\ OldListings(d)

\* What a step of channel c may do: become r, without taking more semaphores,
\* if the two hold.
LEMMA StepKeeps ==
    ASSUME LufsdInv, NEW c \in Channels, NEW r \in ChannelState,
           chan' = [chan EXCEPT ![c] = r], fs' \in [Dirs -> Listings], CacheOK(cache'),
           ChannelOK(r, fs', untold'), HeldBy(r) \subseteq HeldBy(chan[c]),
           Undisturbed(c), Accounted(c, HeldBy(r) \cap Waits(r))
    PROVE  LufsdInv'
  <1>1. /\ chan' \in [Channels -> ChannelState]
        /\ chan'[c] = r /\ \A e \in Channels \ {c} : chan'[e] = chan[e]
    BY DEF LufsdInv
  <1>2. Apart'
    <2>1. \A e \in Channels : HeldBy(chan'[e]) \subseteq HeldBy(chan[e])
      BY <1>1
    <2>2. QED
      BY <2>1 DEF LufsdInv, Apart
  <1>3. ASSUME NEW e \in Channels PROVE ChannelOK(chan'[e], fs', untold')
    <2>1. CASE e = c
      BY <1>1, <2>1
    <2>2. CASE e # c
      <3>1. chan'[e] = chan[e] /\ ChannelOK(chan[e], fs, untold) /\ chan[e] \in ChannelState
        BY <1>1, <2>2 DEF LufsdInv
      <3>2. CASE chan[e].pc \in {"add", "list"}
        <4>1. chan[e].op = "readdir" /\ Shown(fs, chan[e].at[1])
          BY <3>1, <3>2 DEF ChannelOK
        <4>2. chan[e].at[1] \in HeldBy(chan[e]) /\ chan[e].at[1] \in Dirs
          BY <3>1, <4>1 DEF HeldBy, Holds, ChannelState, Place
        <4>3. chan[e].at[1] \notin HeldBy(chan[c])
          BY <2>2, <4>2 DEF LufsdInv, Apart
        <4>4. SameDir(chan[e].at[1]) /\ (chan[e].at[1] \in untold' => chan[e].at[1] \in untold)
          BY <4>1, <4>2, <4>3 DEF Undisturbed
        <4>5. QED
          BY <3>1, <4>1, <4>4 DEF ChannelOK, SameDir
      <3>3. CASE chan[e].pc \notin {"add", "list"}
        BY <3>1, <3>3 DEF ChannelOK
      <3>4. QED
        BY <3>2, <3>3
    <2>3. QED
      BY <2>1, <2>2
  <1>4. ASSUME NEW h \in Buckets, NEW p \in 1 .. Len(cache'.buckets[h]),
               NEW l, l = cache'.buckets[h][p], Valid(l), NEW n, n = l.name
        PROVE  RightIn(fs', l) \/ Pending(n)' \/ n \in untold'
    <2>1. n \in Dirs
      <3>1. cache'.buckets[h] \in Seq(Directory)
        BY DEF CacheOK, Cache
      <3> DEFINE b == cache'.buckets[h]
      <3>2. b \in Seq(Directory) /\ p \in 1 .. Len(b) /\ l = b[p]
        BY <1>4, <3>1
      <3> HIDE DEF b
      <3>3. l \in Directory
        BY <3>2
      <3>4. QED
        BY <1>4, <3>3 DEF Directory
    <2>2. CASE n \in HeldBy(r) \cap Waits(r)
      BY <1>1, <2>2 DEF Pending
    <2>3. CASE ListedRight(n)
      BY <1>4, <2>3 DEF ListedRight
    <2>4. ASSUME n \notin HeldBy(chan[c]) \cap Waits(chan[c]), n \notin untold,
                 Shown(fs, n) => SameDir(n), OldListings(n)
          PROVE  RightIn(fs', l) \/ Pending(n)'
      <3>1. PICK i \in 1 .. Len(cache.buckets[h]) : Same(l, cache.buckets[h][i])
        BY <1>4, <2>4 DEF OldListings
      <3>2. RightIn(fs, cache.buckets[h][i]) \/ Pending(n)
        BY <1>4, <2>4, <3>1 DEF LufsdInv, CacheCurrent, Current, Same
      <3>3. CASE RightIn(fs, cache.buckets[h][i])
        BY <1>4, <2>4, <3>1, <3>3 DEF RightIn, SameDir, Same
      <3>4. CASE Pending(n)
        <4>1. PICK e \in Channels : n \in HeldBy(chan[e]) \cap Waits(chan[e])
          BY <3>4 DEF Pending
        <4>2. chan'[e] = chan[e]
          BY <1>1, <2>4, <4>1
        <4>3. QED
          BY <4>1, <4>2 DEF Pending
      <3>5. QED
        BY <3>2, <3>3, <3>4
    <2>5. QED
      BY <2>1, <2>2, <2>3, <2>4 DEF Accounted
  <1>5. CacheCurrent'
    BY <1>4 DEF CacheCurrent, Current
  <1>6. QED
    BY <1>1, <1>2, <1>3, <1>5 DEF LufsdInv

\* A place is an entry of a directory.
LEMMA PlaceParts ==
    ASSUME NEW p \in Place
    PROVE  p[1] \in Dirs /\ p[2] \in Names /\ p = <<p[1], p[2]>>
  BY DEF Place

\* The empty listing is one, with no names.
LEMMA NothingIsListing == Nothing \in Listings /\ Entries(Nothing) = {}
  BY ListingsAssumption DEF Nothing, Entries

\* A channel with nothing to invalidate waits for nothing.
LEMMA NoWaits ==
    ASSUME NEW r, r.todo = <<>>
    PROVE  Waits(r) = {}
  BY DEF Waits

\* Which directories are shown depends on the names alone.
LEMMA ShownByNames ==
    ASSUME NEW F, NEW G, \A d \in Dirs : Entries(F[d]) = Entries(G[d]), NEW d
    PROVE  Shown(F, d) <=> Shown(G, d)
  <1>1. ASSUME NEW p \in Place PROVE F[p[1]][p[2]] # 0 <=> G[p[1]][p[2]] # 0
    <2>1. p[1] \in Dirs /\ p[2] \in Names
      BY PlaceParts
    <2>2. Entries(F[p[1]]) = Entries(G[p[1]])
      BY <2>1
    <2>3. QED
      BY <2>1, <2>2 DEF Entries
  <1>2. QED
    BY <1>1 DEF Shown

\* Every listing being one there was is a case of what a step may do.
LEMMA FromIsKept ==
    ASSUME CacheFrom(cache', cache), NEW d
    PROVE  OldListings(d)
  BY DEF CacheFrom, From, OldListings

\* A step that changes no names, and no listings, does what a step may do.
LEMMA Quiet ==
    ASSUME NEW c \in Channels, chan[c].todo = <<>>, untold' = untold, CacheFrom(cache', cache),
           \A d \in Dirs : Entries(fs'[d]) = Entries(fs[d])
    PROVE  Undisturbed(c) /\ Accounted(c, {})
  <1>1. ASSUME NEW d \in Dirs, Shown(fs, d) PROVE SameDir(d)
    BY <1>1, ShownByNames DEF SameDir
  <1>2. Waits(chan[c]) = {}
    BY NoWaits
  <1>3. \A d \in Dirs : OldListings(d)
    BY FromIsKept
  <1>4. QED
    BY <1>1, <1>2, <1>3 DEF Undisturbed, Accounted

\* A channel goes on without changing a directory.
LEMMA GotoKeeps ==
    ASSUME LufsdInv, NEW c \in Channels, chan[c].todo = <<>>, chan[c].op # "none",
           NEW pc \in {"fill", "list", "ask", "shrinking"}, Goto(c, pc), fs' = fs, CacheOK(cache'),
           pc = "list" => /\ chan[c].op = "readdir"
                          /\ Shown(fs, chan[c].at[1]) /\ chan[c].at[1] \notin untold',
           Undisturbed(c), Accounted(c, {})
    PROVE  LufsdInv' /\ chan'[c].reply = chan[c].reply
  <1> DEFINE r == [chan[c] EXCEPT !.pc = pc]
  <1>1. chan[c] \in ChannelState /\ chan \in [Channels -> ChannelState] /\ fs \in [Dirs -> Listings]
    BY DEF LufsdInv
  <1>2. chan' = [chan EXCEPT ![c] = r]
    BY <1>1 DEF Goto
  <1>3. /\ r \in ChannelState /\ r.pc = pc /\ r.op = chan[c].op /\ r.at = chan[c].at
        /\ r.to = chan[c].to /\ r.todo = <<>> /\ r.reply = chan[c].reply
    BY <1>1 DEF ChannelState
  <1> HIDE DEF r
  <1>4. HeldBy(r) = HeldBy(chan[c]) /\ HeldBy(r) \cap Waits(r) = {}
    BY <1>3, NoWaits DEF HeldBy
  <1>5. ChannelOK(r, fs', untold')
    BY <1>3 DEF ChannelOK
  <1>6. chan'[c] = r
    BY <1>1, <1>2
  <1>7. LufsdInv'
    BY <1>1, <1>2, <1>3, <1>4, <1>5, StepKeeps
  <1>8. QED
    BY <1>3, <1>6, <1>7

\* A channel answers.
LEMMA AnswerKeeps ==
    ASSUME LufsdInv, NEW c \in Channels, chan[c].todo = <<>>,
           NEW reply \in {"OK", "ERROR"}, NEW list \in Listings, Answer(c, reply, list),
           fs' \in [Dirs -> Listings], CacheOK(cache'), Undisturbed(c), Accounted(c, {})
    PROVE  LufsdInv' /\ chan'[c].reply = reply /\ chan'[c].list = list
  <1> DEFINE r == [chan[c] EXCEPT !.pc = "idle", !.op = "none", !.to = chan[c].at,
                                  !.list = list, !.reply = reply]
  <1>1. chan[c] \in ChannelState /\ chan \in [Channels -> ChannelState]
    BY DEF LufsdInv
  <1>2. chan' = [chan EXCEPT ![c] = r]
    BY <1>1 DEF Answer
  <1>3. /\ r \in ChannelState /\ r.pc = "idle" /\ r.op = "none" /\ r.todo = <<>>
        /\ r.list = list /\ r.reply = reply
    BY <1>1 DEF ChannelState
  <1> HIDE DEF r
  <1>4. HeldBy(r) = {} /\ HeldBy(r) \cap Waits(r) = {}
    BY <1>3, NoWaits DEF HeldBy, Holds
  <1>5. ChannelOK(r, fs', untold')
    BY <1>3 DEF ChannelOK
  <1>6. chan'[c] = r
    BY <1>1, <1>2
  <1>7. LufsdInv'
    BY <1>2, <1>3, <1>4, <1>5, StepKeeps
  <1>8. QED
    BY <1>3, <1>6, <1>7

\* What lu_cache_readdir and lu_cache_lookup find.
LEMMA CachedFound ==
    ASSUME NEW C, CacheOK(C), NEW dir \in Dirs, Found(C, dir)
    PROVE  /\ Cached(C, dir) \in Directory
           /\ Cached(C, dir).name = dir /\ Valid(Cached(C, dir))
           /\ \E h \in Buckets : \E i \in 1 .. Len(C.buckets[h]) : Cached(C, dir) = C.buckets[h][i]
  <1> DEFINE b == C.buckets[hash[dir]]
             i == Index(b, dir)
  <1>1. hash[dir] \in Buckets
    BY CacheAssumption
  <1>2. b \in Seq(Directory) /\ Distinct(b)
    BY <1>1 DEF CacheOK, BucketOK
  <1>3. i \in FoundAt(b, dir)
    BY DEF Found, Index
  <1>4. Cached(C, dir) = b[i]
    BY DEF Cached
  <1> HIDE DEF i
  <1>5. i \in 1 .. Len(b) /\ b[i].name = dir /\ Valid(b[i])
    BY <1>2, <1>3, FoundThere
  <1>6. b[i] \in Directory
    BY <1>2, <1>5
  <1>7. QED
    BY <1>1, <1>4, <1>5, <1>6

\* And every valid listing can be found.
LEMMA ValidIsListed ==
    ASSUME NEW C, CacheOK(C), NEW h \in Buckets, NEW i \in 1 .. Len(C.buckets[h]),
           Valid(C.buckets[h][i])
    PROVE  C.buckets[h][i].name \in Listed(C)
  <1> DEFINE b == C.buckets[h]
             d == b[i].name
  <1>1. b \in Seq(Directory) /\ Distinct(b) /\ hash[d] = h
    BY DEF CacheOK, BucketOK
  <1>2. d \in Dirs
    <2>1. b[i] \in Directory
      BY <1>1
    <2>2. QED
      BY <2>1 DEF Directory
  <1>3. i \in FoundAt(b, d)
    BY <1>1 DEF FoundAt, Distinct
  <1>4. QED
    BY <1>1, <1>2, <1>3 DEF Listed, Found

\* The listing a channel that reads a directory finds is the directory's,
\* unless the cache has not been told.
LEMMA FoundIsCurrent ==
    ASSUME LufsdInv, NEW c \in Channels, chan[c].op = "readdir", chan[c].todo = <<>>,
           Found(cache, Dir(c))
    PROVE  Right(Dir(c), Cached(cache, Dir(c)).list) \/ Dir(c) \in untold
  <1> DEFINE d == Dir(c)
             l == Cached(cache, d)
  <1>1. chan[c] \in ChannelState /\ chan[c].at \in Place
    BY DEF LufsdInv, ChannelState
  <1>2. d \in Dirs
    BY <1>1, PlaceParts DEF Dir
  <1>3. l.name = d /\ Current(l)
    BY <1>2, CachedFound DEF LufsdInv, CacheCurrent
  <1>4. Valid(l)
    BY <1>2, CachedFound DEF LufsdInv
  <1>5. d \in HeldBy(chan[c]) /\ Waits(chan[c]) = {}
    BY NoWaits DEF HeldBy, Holds, Dir
  <1>6. ~Pending(d)
    BY <1>5 DEF LufsdInv, Apart, Pending
  <1>7. QED
    BY <1>3, <1>4, <1>6 DEF Current, RightIn, Right, Shown, There

\* What generic_readdir answers a channel with.
AnswersCurrent(c) ==
    chan[c].reply # "OK" /\ chan'[c].reply = "OK" =>
        \/ Right(Dir(c), chan'[c].list)
        \/ chan[c].pc = "called" /\ Dir(c) \in untold

\* generic_readdir.
LEMMA ReaddirKeeps ==
    ASSUME LufsdInv, NEW c \in Channels, generic_readdir(c)
    PROVE  LufsdInv' /\ AnswersCurrent(c)
  <1>1. /\ chan[c] \in ChannelState /\ ChannelOK(chan[c], fs, untold)
        /\ chan \in [Channels -> ChannelState]
        /\ fs \in [Dirs -> Listings] /\ CacheOK(cache)
    BY DEF LufsdInv
  <1>2. Dir(c) \in Dirs /\ Dir(c) = chan[c].at[1]
    BY <1>1, PlaceParts DEF ChannelState, Dir
  <1>3. chan[c].op = "readdir"
    BY DEF generic_readdir
  <1>4. chan[c].pc # "inval" => chan[c].todo = <<>>
    BY <1>1 DEF ChannelOK
  <1>5. ASSUME chan[c].pc = "called" \/ chan[c].pc = "list",
               cache' = Search(cache, Dir(c)), fs' = fs, untold' = untold,
               Found(cache, Dir(c)) => Answer(c, "OK", Cached(cache, Dir(c)).list),
               ~Found(cache, Dir(c)) => Goto(c, "fill") \/ Answer(c, "ERROR", Nothing)
        PROVE  LufsdInv' /\ AnswersCurrent(c)
    <2>1. chan[c].todo = <<>>
      BY <1>4, <1>5
    <2>2. CacheOK(cache') /\ CacheFrom(cache', cache)
      BY <1>1, <1>2, <1>5, SearchOK
    <2>3. Undisturbed(c) /\ Accounted(c, {})
      BY <1>5, <2>1, <2>2, Quiet
    <2>4. CASE Found(cache, Dir(c))
      <3> DEFINE list == Cached(cache, Dir(c)).list
      <3>1. list \in Listings /\ (Right(Dir(c), list) \/ Dir(c) \in untold)
        BY <1>1, <1>2, <1>3, <2>1, <2>4, CachedFound, FoundIsCurrent DEF Directory
      <3>2. Answer(c, "OK", list)
        BY <1>5, <2>4
      <3> HIDE DEF list
      <3>3. LufsdInv' /\ chan'[c].list = list
        BY <1>1, <1>5, <2>1, <2>2, <2>3, <3>1, <3>2, AnswerKeeps
      <3>4. chan[c].pc = "list" => Dir(c) \notin untold
        BY <1>1, <1>2 DEF ChannelOK
      <3>5. QED
        BY <1>5, <3>1, <3>3, <3>4 DEF AnswersCurrent
    <2>5. CASE Goto(c, "fill")
      <3>1. LufsdInv' /\ chan'[c].reply = chan[c].reply
        BY <1>3, <1>5, <2>1, <2>2, <2>3, <2>5, GotoKeeps
      <3>2. QED
        BY <3>1 DEF AnswersCurrent
    <2>6. CASE Answer(c, "ERROR", Nothing)
      <3>1. LufsdInv' /\ chan'[c].reply = "ERROR"
        BY <1>1, <1>5, <2>1, <2>2, <2>3, <2>6, AnswerKeeps, NothingIsListing
      <3>2. QED
        BY <3>1 DEF AnswersCurrent
    <2>7. QED
      BY <1>5, <2>4, <2>5, <2>6
  <1>6. CASE chan[c].pc = "called" /\ ReaddirCached(c, Goto(c, "fill"))
    BY <1>5, <1>6 DEF ReaddirCached
  <1>7. CASE chan[c].pc = "list" /\ ReaddirCached(c, Answer(c, "ERROR", Nothing))
    BY <1>5, <1>7 DEF ReaddirCached
  <1>8. CASE /\ chan[c].pc = "fill"
             /\ \/ /\ There(Dir(c))
                   /\ chan' = [chan EXCEPT ![c].pc = "add", ![c].list = fs[Dir(c)]]
                \/ Answer(c, "ERROR", Nothing)
             /\ UNCHANGED <<fs, cache, untold>>
    <2>1. chan[c].todo = <<>> /\ fs' = fs /\ cache' = cache /\ untold' = untold
      BY <1>4, <1>8
    <2>2. CacheFrom(cache', cache)
      BY <2>1 DEF CacheFrom, From, Same
    <2>3. Undisturbed(c) /\ Accounted(c, {})
      BY <2>1, <2>2, Quiet
    <2>4. CASE There(Dir(c)) /\ chan' = [chan EXCEPT ![c].pc = "add", ![c].list = fs[Dir(c)]]
      <3> DEFINE r == [chan[c] EXCEPT !.pc = "add", !.list = fs[Dir(c)]]
      <3>1. chan' = [chan EXCEPT ![c] = r]
        BY <1>1, <2>4
      <3>2. /\ r \in ChannelState /\ r.pc = "add" /\ r.op = "readdir" /\ r.at = chan[c].at
            /\ r.to = chan[c].to /\ r.todo = <<>> /\ r.list = fs[Dir(c)] /\ r.reply = chan[c].reply
        BY <1>1, <1>2, <1>3, <2>1 DEF ChannelState
      <3> HIDE DEF r
      <3>3. HeldBy(r) = HeldBy(chan[c]) /\ HeldBy(r) \cap Waits(r) = {}
        BY <1>3, <3>2, NoWaits DEF HeldBy
      <3>4. Shown(fs', Dir(c))
        BY <2>1, <2>4 DEF There, Shown
      <3>5. ChannelOK(r, fs', untold')
        BY <1>2, <2>1, <3>2, <3>4 DEF ChannelOK
      <3>6. LufsdInv'
        BY <1>1, <2>1, <2>3, <3>1, <3>2, <3>3, <3>5, StepKeeps
      <3>7. chan'[c].reply = chan[c].reply
        BY <1>1, <3>1, <3>2
      <3>8. QED
        BY <3>6, <3>7 DEF AnswersCurrent
    <2>5. CASE Answer(c, "ERROR", Nothing)
      <3>1. LufsdInv' /\ chan'[c].reply = "ERROR"
        BY <1>1, <2>1, <2>3, <2>5, AnswerKeeps, NothingIsListing
      <3>2. QED
        BY <3>1 DEF AnswersCurrent
    <2>6. QED
      BY <1>8, <2>4, <2>5
  <1>9. CASE /\ chan[c].pc = "add"
             /\ cache' = AddDir(cache, Dir(c), chan[c].list)
             /\ untold' = untold \ {Dir(c)}
             /\ Goto(c, IF ShrinkEnds THEN "list" ELSE "shrinking") /\ UNCHANGED fs
    <2>1. /\ chan[c].todo = <<>> /\ chan[c].list \in Listings /\ fs' = fs
          /\ Shown(fs, Dir(c)) /\ Entries(chan[c].list) = Entries(fs[Dir(c)])
      BY <1>1, <1>2, <1>9 DEF ChannelOK, ChannelState
    <2>2. /\ CacheOK(cache')
          /\ \A h \in Buckets : \A p \in 1 .. Len(cache'.buckets[h]) :
                 IF cache'.buckets[h][p].name = Dir(c) THEN cache'.buckets[h][p].list = chan[c].list
                 ELSE \E i \in 1 .. Len(cache.buckets[h]) : Same(cache'.buckets[h][p], cache.buckets[h][i])
      BY <1>1, <1>2, <1>9, <2>1, AddDirOK
    <2>3. Undisturbed(c)
      BY <1>9, <2>1 DEF Undisturbed, SameDir
    <2>4. ListedRight(Dir(c))
      BY <2>1, <2>2 DEF ListedRight, RightIn
    <2>5. \A d \in Dirs : d # Dir(c) => OldListings(d)
      BY <2>2 DEF OldListings
    <2>6. Accounted(c, {})
      <3>1. Waits(chan[c]) = {}
        BY <2>1, NoWaits
      <3>2. QED
        BY <1>9, <2>1, <2>4, <2>5, <3>1 DEF Accounted, SameDir
    <2>7. Dir(c) \notin untold'
      BY <1>9
    <2>8. CASE Goto(c, "list")
      <3>1. LufsdInv' /\ chan'[c].reply = chan[c].reply
        BY <1>2, <1>3, <2>1, <2>2, <2>3, <2>6, <2>7, <2>8, GotoKeeps
      <3>2. QED
        BY <3>1 DEF AnswersCurrent
    <2>9. CASE Goto(c, "shrinking")
      <3>1. LufsdInv' /\ chan'[c].reply = chan[c].reply
        BY <1>3, <2>1, <2>2, <2>3, <2>6, <2>9, GotoKeeps
      <3>2. QED
        BY <3>1 DEF AnswersCurrent
    <2>10. QED
      BY <1>9, <2>8, <2>9
  <1>10. QED
    BY <1>6, <1>7, <1>8, <1>9 DEF generic_readdir

\* generic_stat, and generic_readlink.
LEMMA StatKeeps ==
    ASSUME LufsdInv, NEW c \in Channels, generic_stat(c)
    PROVE  LufsdInv'
  <1>1. /\ chan[c] \in ChannelState /\ ChannelOK(chan[c], fs, untold)
        /\ fs \in [Dirs -> Listings] /\ CacheOK(cache) /\ fs' = fs /\ untold' = untold
        /\ chan[c].op \in {"stat", "readlink"}
    BY DEF LufsdInv, generic_stat
  <1>2. Dir(c) \in Dirs /\ Name(c) \in Names
    BY <1>1, PlaceParts DEF ChannelState, Dir, Name
  <1>3. \A v \in 0 .. Versions : OneName(c, v) \in Listings
    BY ListingsAssumption DEF OneName
  <1>4. CASE chan[c].pc = "called" /\ cache' = Search(cache, Dir(c))
    <2>1. chan[c].todo = <<>>
      BY <1>1, <1>4 DEF ChannelOK
    <2>2. CacheOK(cache') /\ CacheFrom(cache', cache)
      BY <1>1, <1>2, <1>4, SearchOK
    <2>3. Undisturbed(c) /\ Accounted(c, {})
      BY <1>1, <2>1, <2>2, Quiet
    <2>4. CASE Found(cache, Dir(c)) /\ Answer(c, "OK", OneName(c, Cached(cache, Dir(c)).list[Name(c)]))
      <3>1. Cached(cache, Dir(c)).list \in Listings
        BY <1>1, <1>2, <2>4, CachedFound DEF Directory
      <3>2. Cached(cache, Dir(c)).list[Name(c)] \in 0 .. Versions
        BY <1>2, <3>1, ListingsAssumption
      <3>3. OneName(c, Cached(cache, Dir(c)).list[Name(c)]) \in Listings
        BY <1>3, <3>2
      <3>4. QED
        BY <1>1, <2>1, <2>2, <2>3, <2>4, <3>3, AnswerKeeps
    <2>5. CASE Goto(c, "ask")
      BY <1>1, <2>1, <2>2, <2>3, <2>5, GotoKeeps
    <2>6. QED
      BY <1>1, <1>4, <2>4, <2>5 DEF generic_stat
  <1>5. CASE chan[c].pc = "ask" /\ cache' = cache
    <2>1. chan[c].todo = <<>> /\ CacheFrom(cache', cache) /\ CacheOK(cache')
      BY <1>1, <1>5 DEF ChannelOK, CacheFrom, From, Same
    <2>2. Undisturbed(c) /\ Accounted(c, {})
      BY <1>1, <2>1, Quiet
    <2> DEFINE v == fs[Dir(c)][Name(c)]
               reply == IF v = 0 THEN "ERROR" ELSE "OK"
    <2>3. v \in 0 .. Versions
      BY <1>1, <1>2, ListingsAssumption
    <2>4. Answer(c, reply, OneName(c, v))
      BY <1>1, <1>5 DEF generic_stat
    <2>5. reply \in {"OK", "ERROR"} /\ OneName(c, v) \in Listings
      BY <1>3, <2>3
    <2> HIDE DEF v, reply
    <2>6. QED
      BY <1>1, <2>1, <2>2, <2>4, <2>5, AnswerKeeps
  <1>6. QED
    BY <1>1, <1>4, <1>5 DEF generic_stat

\* The attributes of an entry, or whether it is there.
LEMMA SetEntry ==
    ASSUME fs \in [Dirs -> Listings], NEW p \in Place, NEW v \in 0 .. Versions
    PROVE  /\ Set(p, v) \in [Dirs -> Listings]
           /\ \A d \in Dirs : d # p[1] => Set(p, v)[d] = fs[d]
           /\ fs[p[1]][p[2]] # 0 /\ v # 0 => \A d \in Dirs : Entries(Set(p, v)[d]) = Entries(fs[d])
  <1>1. p[1] \in Dirs /\ p[2] \in Names
    BY PlaceParts
  <1>2. fs[p[1]] \in [Names -> 0 .. Versions]
    BY <1>1, ListingsAssumption
  <1> DEFINE list == [fs[p[1]] EXCEPT ![p[2]] = v]
  <1>3. Set(p, v) = [fs EXCEPT ![p[1]] = list]
    BY DEF Set
  <1>4. /\ list \in [Names -> 0 .. Versions] /\ list[p[2]] = v
        /\ \A n \in Names : n # p[2] => list[n] = fs[p[1]][n]
    BY <1>1, <1>2
  <1> HIDE DEF list
  <1>5. /\ Set(p, v) \in [Dirs -> Listings] /\ Set(p, v)[p[1]] = list
        /\ \A d \in Dirs : d # p[1] => Set(p, v)[d] = fs[d]
    BY <1>1, <1>3, <1>4, ListingsAssumption
  <1>6. fs[p[1]][p[2]] # 0 /\ v # 0 => Entries(list) = Entries(fs[p[1]])
    BY <1>4 DEF Entries
  <1>7. QED
    BY <1>5, <1>6

\* A change of attributes.
LEMMA TouchEntry ==
    ASSUME fs \in [Dirs -> Listings], NEW p \in Place, fs[p[1]][p[2]] # 0
    PROVE  Touch(p) \in [Dirs -> Listings] /\ \A d \in Dirs : Entries(Touch(p)[d]) = Entries(fs[d])
  <1> DEFINE v == (fs[p[1]][p[2]] % Versions) + 1
  <1>1. p[1] \in Dirs /\ p[2] \in Names
    BY PlaceParts
  <1>2. fs[p[1]][p[2]] \in 0 .. Versions /\ Versions \in Nat \ {0}
    BY <1>1, ListingsAssumption
  <1>3. v \in 0 .. Versions /\ v # 0
    BY <1>2
  <1>4. Touch(p) = Set(p, v)
    BY DEF Touch
  <1> HIDE DEF v
  <1>5. QED
    BY <1>3, <1>4, SetEntry

\* What a request that fails, or opens or writes a file, makes of the names.
LEMMA TouchedNames ==
    ASSUME LufsdInv, NEW c \in Channels, fs' \in Touched(c)
    PROVE  fs' \in [Dirs -> Listings] /\ \A d \in Dirs : Entries(fs'[d]) = Entries(fs[d])
  <1>1. fs \in [Dirs -> Listings] /\ chan[c].at \in Place
    BY DEF LufsdInv, ChannelState
  <1>2. CASE fs' = fs
    BY <1>1, <1>2
  <1>3. CASE fs[chan[c].at[1]][chan[c].at[2]] # 0 /\ fs' = Touch(chan[c].at)
    BY <1>1, <1>3, TouchEntry
  <1>4. QED
    BY <1>2, <1>3 DEF Touched, Dir, Name

\* An answer that leaves the names and the cache alone.
LEMMA QuietAnswer ==
    ASSUME LufsdInv, NEW c \in Channels, chan[c].todo = <<>>, fs' \in Touched(c),
           UNCHANGED <<cache, untold>>, NEW reply \in {"OK", "ERROR"}, Answer(c, reply, Nothing)
    PROVE  LufsdInv'
  <1>1. fs' \in [Dirs -> Listings] /\ \A d \in Dirs : Entries(fs'[d]) = Entries(fs[d])
    BY TouchedNames
  <1>2. CacheOK(cache') /\ CacheFrom(cache', cache) /\ untold' = untold
    BY DEF LufsdInv, CacheFrom, From, Same
  <1>3. Undisturbed(c) /\ Accounted(c, {})
    BY <1>1, <1>2, Quiet
  <1>4. QED
    BY <1>1, <1>2, <1>3, AnswerKeeps, NothingIsListing

\* generic_write and generic_open.
LEMMA WriteKeeps ==
    ASSUME LufsdInv, NEW c \in Channels, generic_write(c)
    PROVE  LufsdInv'
  <1>1. chan[c].todo = <<>>
    BY DEF LufsdInv, generic_write, ChannelOK
  <1>2. QED
    BY <1>1, QuietAnswer DEF generic_write

\* The directories of names that are set to something stay shown.
LEMMA SetShows ==
    ASSUME fs \in [Dirs -> Listings], NEW p \in Place, NEW v \in 0 .. Versions,
           NEW d \in Dirs, Shown(fs, d), v # 0 \/ d \notin DirAt[p]
    PROVE  Shown(Set(p, v), d)
  <1>1. SUFFICES ASSUME NEW q \in Place, d \in DirAt[q]
                 PROVE  Set(p, v)[q[1]][q[2]] # 0
    BY DEF Shown
  <1>2. /\ p[1] \in Dirs /\ p[2] \in Names /\ p = <<p[1], p[2]>>
        /\ q[1] \in Dirs /\ q[2] \in Names /\ q = <<q[1], q[2]>>
    BY PlaceParts
  <1>3. fs[p[1]] \in [Names -> 0 .. Versions]
    BY <1>2, ListingsAssumption
  <1>4. fs[q[1]][q[2]] # 0
    BY <1>1 DEF Shown
  <1>5. CASE q[1] # p[1]
    <2>1. Set(p, v)[q[1]] = fs[q[1]]
      BY <1>2, <1>5, SetEntry
    <2>2. QED
      BY <1>4, <2>1
  <1>6. CASE q[1] = p[1]
    <2>1. Set(p, v)[p[1]] = [fs[p[1]] EXCEPT ![p[2]] = v]
      BY <1>2 DEF Set
    <2>2. CASE q[2] = p[2]
      <3>1. q = p
        BY <1>2, <1>6, <2>2
      <3>2. v # 0
        BY <1>1, <3>1
      <3>3. QED
        BY <1>2, <1>3, <1>6, <2>1, <2>2, <3>2
    <2>3. CASE q[2] # p[2]
      BY <1>2, <1>3, <1>4, <1>6, <2>1, <2>3
    <2>4. QED
      BY <2>2, <2>3
  <1>7. QED
    BY <1>5, <1>6

\* F shows d with the names it had.
Keeps(F, d) == Shown(fs, d) => Shown(F, d) /\ Entries(F[d]) = Entries(fs[d])

\* A request that changes the file system changes directories the kernel keeps
\* to it: it will invalidate them, or has made or removed them.
LEMMA ChangedHeld ==
    ASSUME fs \in [Dirs -> Listings], NEW c \in Channels, chan[c] \in ChannelState, CanChange(c),
           chan[c].op \in {"setattr", "create", "unlink", "rename", "link"},
           NEW F \in Changed(c)
    PROVE  /\ F \in [Dirs -> Listings]
           /\ \A d \in Dirs : \/ Keeps(F, d)
                              \/ /\ d \in HeldBy(chan[c])
                                 /\ \E i \in 1 .. Len(Outdated(c)) : Outdated(c)[i] = d
                              \/ d \in Itself(c)
           /\ \A d \in Itself(c) : d \in HeldBy(chan[c]) \/ ~Shown(fs, d)
           /\ Outdated(c) \in Seq(Dirs)
  <1> DEFINE at == chan[c].at
             to == chan[c].to
             v  == fs[at[1]][at[2]]
  <1>1. at \in Place /\ to \in Place
    BY DEF ChannelState
  <1>2. at[1] \in Dirs /\ at[2] \in Names /\ to[1] \in Dirs /\ to[2] \in Names
    BY <1>1, PlaceParts
  <1>3. v \in 0 .. Versions /\ 0 \in 0 .. Versions /\ 1 \in 0 .. Versions /\ 1 # 0
    BY <1>2, ListingsAssumption
  <1>4. Outdated(c) \in Seq(Dirs)
    BY <1>2 DEF Outdated, Dir
  <1>5. v = 0 <=> chan[c].op = "create"
    BY DEF CanChange, Dir, Name
  <1>6. \A d \in Itself(c) : d \in HeldBy(chan[c]) \/ ~Shown(fs, d)
    BY <1>1, <1>5 DEF Itself, HeldBy, Holds, Shown
  <1>7. 1 \in 1 .. Len(Outdated(c)) /\ Outdated(c)[1] = at[1]
    BY <1>2 DEF Outdated, Dir
  <1>8. CASE chan[c].op = "setattr"
    <2>1. F = Touch(at) /\ v # 0
      BY <1>5, <1>8 DEF Changed
    <2>2. F \in [Dirs -> Listings] /\ \A d \in Dirs : Entries(F[d]) = Entries(fs[d])
      BY <1>1, <2>1, TouchEntry
    <2>3. \A d \in Dirs : Keeps(F, d)
      BY <2>2, ShownByNames DEF Keeps
    <2>4. QED
      BY <1>4, <1>6, <2>2, <2>3
  <1>9. CASE chan[c].op = "unlink"
    <2>1. F = Set(at, 0)
      BY <1>9 DEF Changed
    <2>2. F \in [Dirs -> Listings] /\ \A d \in Dirs : d # at[1] => F[d] = fs[d]
      BY <1>1, <1>3, <2>1, SetEntry
    <2>3. at[1] \in HeldBy(chan[c]) /\ Itself(c) = DirAt[at]
      BY <1>9 DEF HeldBy, Holds, Itself
    <2>4. ASSUME NEW d \in Dirs, d \notin Itself(c), d # at[1] PROVE Keeps(F, d)
      BY <1>1, <1>3, <2>1, <2>2, <2>3, <2>4, SetShows DEF Keeps
    <2>5. QED
      BY <1>4, <1>6, <1>7, <2>2, <2>3, <2>4
  <1>10. CASE chan[c].op = "create"
    <2>1. at[1] \in HeldBy(chan[c]) /\ Itself(c) = DirAt[at]
      BY <1>10 DEF HeldBy, Holds, Itself
    <2> DEFINE G == Set(at, 1)
    <2>2. /\ G \in [Dirs -> Listings] /\ \A d \in Dirs : d # at[1] => G[d] = fs[d]
          /\ \A d \in Dirs : Shown(fs, d) => Shown(G, d)
      BY <1>1, <1>3, SetEntry, SetShows
    <2> HIDE DEF G
    <2>3. CASE DirAt[at] = {}
      <3>1. F = G
        BY <1>10, <2>3 DEF Changed, G
      <3>2. QED
        BY <1>4, <1>6, <1>7, <2>1, <2>2, <3>1 DEF Keeps
    <2>4. CASE DirAt[at] # {}
      <3>1. PICK e \in DirAt[at], l \in Listings :
                /\ F = [G EXCEPT ![e] = l]
                /\ \A d \in DirAt[at] : SameDirs(F, d)
        BY <1>10, <2>4 DEF Changed, Remade, G
      <3>2. e \in Dirs /\ e # at[1]
        BY <1>1, TreeAssumption
      <3>3. F \in [Dirs -> Listings] /\ \A d \in Dirs : d # e => F[d] = G[d]
        BY <2>2, <3>1, <3>2
      <3>4. ASSUME NEW d \in Dirs, Shown(fs, d) PROVE Shown(F, d)
        <4>1. SUFFICES ASSUME NEW q \in Place, d \in DirAt[q] PROVE F[q[1]][q[2]] # 0
          BY DEF Shown
        <4>2. q[1] \in Dirs /\ q[2] \in Names /\ q = <<q[1], q[2]>>
          BY PlaceParts
        <4>3. G[q[1]][q[2]] # 0 /\ fs[q[1]][q[2]] # 0
          BY <2>2, <3>4, <4>1 DEF Shown
        <4>4. CASE q[1] = e
          <5>1. DirAt[<<e, q[2]>>] # {}
            BY <4>1, <4>2, <4>4
          <5>2. F[e][q[2]] = fs[e][q[2]]
            BY <3>1, <4>2, <5>1 DEF SameDirs
          <5>3. QED
            BY <4>3, <4>4, <5>2
        <4>5. CASE q[1] # e
          BY <3>3, <4>2, <4>3, <4>5
        <4>6. QED
          BY <4>4, <4>5
      <3>5. ASSUME NEW d \in Dirs, d \notin Itself(c), d # at[1] PROVE Keeps(F, d)
        BY <2>1, <2>2, <3>3, <3>4, <3>5 DEF Keeps
      <3>6. QED
        BY <1>4, <1>6, <1>7, <2>1, <3>3, <3>5
    <2>5. QED
      BY <2>3, <2>4
  <1>11. CASE chan[c].op \in {"rename", "link"}
    <2>1. Outdated(c) = <<at[1], to[1]>> /\ DirAt[at] = {} /\ DirAt[to] = {} /\ Itself(c) = {}
      BY <1>11 DEF Outdated, Dir, CanChange, Itself
    <2>2. 2 \in 1 .. Len(Outdated(c)) /\ Outdated(c)[2] = to[1]
      BY <2>1
    <2> DEFINE G == Set(to, v)
    <2>3. /\ G \in [Dirs -> Listings] /\ \A d \in Dirs : d # to[1] => G[d] = fs[d]
          /\ \A d \in Dirs : Shown(fs, d) => Shown(G, d)
      BY <1>1, <1>3, <2>1, SetEntry, SetShows
    <2>4. to[1] \in HeldBy(chan[c])
      BY <1>11 DEF HeldBy, Holds
    <2>5. CASE chan[c].op = "link"
      <3>1. F = G
        BY <2>5 DEF Changed
      <3> HIDE DEF G
      <3>2. QED
        BY <1>4, <1>6, <2>2, <2>3, <2>4, <3>1 DEF Keeps
    <2>6. CASE chan[c].op = "rename"
      <3>1. F = [G EXCEPT ![at[1]][at[2]] = 0]
        BY <2>6 DEF Changed
      <3> HIDE DEF G
      <3>2. G[at[1]] \in [Names -> 0 .. Versions]
        BY <1>2, <2>3, ListingsAssumption
      <3> DEFINE list == [G[at[1]] EXCEPT ![at[2]] = 0]
      <3>3. /\ list \in Listings
            /\ \A n \in Names : n # at[2] => list[n] = G[at[1]][n]
        BY <1>3, <3>2, ListingsAssumption
      <3>4. F = [G EXCEPT ![at[1]] = list]
        BY <3>1
      <3> HIDE DEF list
      <3>5. /\ F \in [Dirs -> Listings] /\ F[at[1]] = list
            /\ \A d \in Dirs : d # at[1] => F[d] = G[d]
        BY <1>2, <2>3, <3>3, <3>4
      <3>6. at[1] \in HeldBy(chan[c])
        BY <2>6 DEF HeldBy, Holds
      <3>7. ASSUME NEW d \in Dirs, Shown(fs, d) PROVE Shown(F, d)
        <4>1. SUFFICES ASSUME NEW q \in Place, d \in DirAt[q] PROVE F[q[1]][q[2]] # 0
          BY DEF Shown
        <4>2. q[1] \in Dirs /\ q[2] \in Names /\ q = <<q[1], q[2]>> /\ at = <<at[1], at[2]>>
          BY <1>1, PlaceParts
        <4>3. G[q[1]][q[2]] # 0
          BY <2>3, <3>7, <4>1 DEF Shown
        <4>4. q # at
          BY <2>1, <4>1
        <4>5. q[1] # at[1] \/ q[2] # at[2]
          BY <4>2, <4>4
        <4> HIDE DEF at
        <4>6. CASE q[1] # at[1]
          BY <3>5, <4>2, <4>3, <4>6
        <4>7. CASE q[1] = at[1]
          BY <3>3, <3>5, <4>2, <4>3, <4>5, <4>7
        <4>8. QED
          BY <4>6, <4>7
      <3>8. ASSUME NEW d \in Dirs, d # at[1], d # to[1] PROVE Keeps(F, d)
        BY <2>3, <3>5, <3>7, <3>8 DEF Keeps
      <3>9. QED
        BY <1>4, <1>6, <1>7, <2>2, <2>4, <3>5, <3>6, <3>8
    <2>7. QED
      BY <1>11, <2>5, <2>6
  <1>12. QED
    BY <1>8, <1>9, <1>10, <1>11

\* The handlers of requests that change the file system.
LEMMA ChangeKeeps ==
    ASSUME LufsdInv, NEW c \in Channels, generic_change(c)
    PROVE  LufsdInv'
  <1>1. /\ chan[c] \in ChannelState /\ ChannelOK(chan[c], fs, untold)
        /\ chan \in [Channels -> ChannelState]
        /\ fs \in [Dirs -> Listings] /\ CacheOK(cache)
        /\ chan[c].op \in {"setattr", "create", "unlink", "rename", "link"}
    BY DEF LufsdInv, generic_change
  <1>2. \A d \in Dirs : cache' = cache => OldListings(d)
    BY DEF OldListings, Same
  <1>3. \A d \in Dirs : cache' = cache /\ d \notin Listed(cache) => ListedRight(d)
    BY <1>1, ValidIsListed DEF ListedRight
  <1>4. CASE /\ chan[c].pc = "called" /\ CanChange(c) /\ fs' \in Changed(c) /\ cache' = cache
             /\ chan' = [chan EXCEPT ![c].pc = "inval", ![c].todo = Outdated(c)]
             /\ untold' = untold \cup (Itself(c) \cap Listed(cache))
    <2> DEFINE r == [chan[c] EXCEPT !.pc = "inval", !.todo = Outdated(c)]
    <2>1. /\ fs' \in [Dirs -> Listings] /\ Outdated(c) \in Seq(Dirs)
          /\ \A d \in Dirs : \/ Keeps(fs', d)
                             \/ /\ d \in HeldBy(chan[c])
                                /\ \E i \in 1 .. Len(Outdated(c)) : Outdated(c)[i] = d
                             \/ d \in Itself(c)
          /\ \A d \in Itself(c) : d \in HeldBy(chan[c]) \/ ~Shown(fs, d)
      BY <1>1, <1>4, ChangedHeld
    <2>2. chan' = [chan EXCEPT ![c] = r]
      BY <1>1, <1>4
    <2>3. /\ r \in ChannelState /\ r.pc = "inval" /\ r.op = chan[c].op /\ r.at = chan[c].at
          /\ r.to = chan[c].to /\ r.todo = Outdated(c)
      BY <1>1, <2>1 DEF ChannelState
    <2> HIDE DEF r
    <2>4. HeldBy(r) = HeldBy(chan[c])
      BY <2>3 DEF HeldBy
    <2>5. Waits(chan[c]) = {}
      BY <1>1, <1>4, NoWaits DEF ChannelOK
    <2>6. ChannelOK(r, fs', untold')
      BY <1>1, <2>3 DEF ChannelOK, Ops
    <2>7. Undisturbed(c)
      <3>1. ASSUME NEW d \in Dirs, Shown(fs, d), d \notin HeldBy(chan[c])
            PROVE  SameDir(d) /\ (d \in untold' => d \in untold)
        BY <1>4, <2>1, <3>1 DEF Keeps, SameDir
      <3>2. QED
        BY <3>1 DEF Undisturbed
    <2>8. Accounted(c, HeldBy(r) \cap Waits(r))
      <3>1. ASSUME NEW d \in Dirs, d \notin HeldBy(r) \cap Waits(r), d \notin untold', ~ListedRight(d)
            PROVE  d \notin untold /\ (Shown(fs, d) => SameDir(d)) /\ OldListings(d)
        <4>1. d \notin Itself(c) /\ d \notin untold /\ OldListings(d)
          BY <1>2, <1>3, <1>4, <3>1
        <4>2. Keeps(fs', d)
          BY <2>1, <2>3, <2>4, <3>1, <4>1 DEF Waits
        <4>3. QED
          BY <4>1, <4>2 DEF Keeps, SameDir
      <3>2. QED
        BY <2>5, <3>1 DEF Accounted
    <2>9. CacheOK(cache')
      BY <1>1, <1>4
    <2>10. QED
      BY <2>1, <2>2, <2>3, <2>4, <2>6, <2>7, <2>8, <2>9, StepKeeps
  <1>5. CASE chan[c].pc = "called" /\ Answer(c, "ERROR", Nothing) /\ fs' \in Touched(c)
             /\ UNCHANGED <<cache, untold>>
    BY <1>1, <1>5, QuietAnswer DEF ChannelOK
  <1>6. CASE /\ chan[c].pc = "called" /\ HidesAll(c) /\ Answer(c, "ERROR", Nothing)
             /\ fs' = Set(chan[c].at, 0) /\ cache' = cache
             /\ untold' = untold \cup (({Dir(c)} \cup Itself(c)) \cap Listed(cache))
    <2>1. chan[c].op = "unlink" /\ CanChange(c) /\ chan[c].todo = <<>>
      BY <1>1, <1>6 DEF HidesAll, ChannelOK
    <2>2. fs' \in Changed(c)
      BY <1>6, <2>1 DEF Changed
    <2>3. /\ fs' \in [Dirs -> Listings]
          /\ \A d \in Dirs : \/ Keeps(fs', d)
                             \/ /\ d \in HeldBy(chan[c])
                                /\ \E i \in 1 .. Len(Outdated(c)) : Outdated(c)[i] = d
                             \/ d \in Itself(c)
          /\ \A d \in Itself(c) : d \in HeldBy(chan[c]) \/ ~Shown(fs, d)
      BY <1>1, <2>1, <2>2, ChangedHeld
    <2>4. Dir(c) \in HeldBy(chan[c]) /\ \A i \in 1 .. Len(Outdated(c)) : Outdated(c)[i] = Dir(c)
      BY <1>1, <2>1, PlaceParts DEF HeldBy, Holds, Dir, Outdated, ChannelState
    <2>5. Undisturbed(c)
      <3>1. ASSUME NEW d \in Dirs, Shown(fs, d), d \notin HeldBy(chan[c])
            PROVE  SameDir(d) /\ (d \in untold' => d \in untold)
        BY <1>6, <2>3, <2>4, <3>1 DEF Keeps, SameDir
      <3>2. QED
        BY <3>1 DEF Undisturbed
    <2>6. Accounted(c, {})
      <3>1. ASSUME NEW d \in Dirs, d \notin untold', ~ListedRight(d)
            PROVE  d \notin untold /\ (Shown(fs, d) => SameDir(d)) /\ OldListings(d)
        <4>1. d \notin Itself(c) /\ d # Dir(c) /\ d \notin untold /\ OldListings(d)
          BY <1>2, <1>3, <1>6, <3>1
        <4>2. Keeps(fs', d)
          BY <2>3, <2>4, <4>1
        <4>3. QED
          BY <4>1, <4>2 DEF Keeps, SameDir
      <3>2. Waits(chan[c]) = {}
        BY <2>1, NoWaits
      <3>3. QED
        BY <3>1, <3>2 DEF Accounted
    <2>7. CacheOK(cache')
      BY <1>1, <1>6
    <2>8. QED
      BY <1>6, <2>1, <2>3, <2>5, <2>6, <2>7, AnswerKeeps, NothingIsListing
  <1>7. CASE /\ chan[c].pc = "inval" /\ chan[c].todo = <<>> /\ Answer(c, "OK", Nothing)
             /\ UNCHANGED <<fs, cache, untold>>
    <2>1. fs' \in Touched(c)
      BY <1>7 DEF Touched
    <2>2. QED
      BY <1>7, <2>1, QuietAnswer
  <1>8. CASE /\ chan[c].pc = "inval" /\ chan[c].todo # <<>> /\ fs' = fs
             /\ cache' = Invalidate(cache, Head(chan[c].todo))
             /\ chan' = [chan EXCEPT ![c].todo = Tail(@)]
             /\ untold' = untold \ {Head(chan[c].todo)}
    <2> DEFINE todo == chan[c].todo
               dir  == Head(todo)
               r    == [chan[c] EXCEPT !.todo = Tail(todo)]
    <2>1. /\ todo \in Seq(Dirs) /\ dir \in Dirs /\ dir = todo[1] /\ Tail(todo) \in Seq(Dirs)
          /\ Len(Tail(todo)) = Len(todo) - 1
          /\ \A i \in 1 .. Len(Tail(todo)) : Tail(todo)[i] = todo[i + 1]
      <3>1. todo \in Seq(Dirs)
        BY <1>1 DEF ChannelState
      <3>2. QED
        BY <1>8, <3>1, HeadTailProperties
    <2>2. chan' = [chan EXCEPT ![c] = r]
      BY <1>1, <1>8
    <2>3. /\ r \in ChannelState /\ r.pc = "inval" /\ r.op = chan[c].op /\ r.at = chan[c].at
          /\ r.to = chan[c].to /\ r.todo = Tail(todo)
      BY <1>1, <1>8, <2>1 DEF ChannelState
    <2> HIDE DEF r
    <2>4. HeldBy(r) = HeldBy(chan[c])
      BY <2>3 DEF HeldBy
    <2>5. ChannelOK(r, fs', untold')
      BY <1>1, <1>8, <2>3 DEF ChannelOK
    <2>6. /\ CacheOK(cache') /\ CacheFrom(cache', cache)
          /\ \A h \in Buckets : \A p \in 1 .. Len(cache'.buckets[h]) :
                 cache'.buckets[h][p].name = dir => ~Valid(cache'.buckets[h][p])
      BY <1>1, <1>8, <2>1, InvalidateOK
    <2>7. ASSUME NEW d \in Waits(chan[c]), d # dir PROVE d \in Waits(r)
      <3>1. PICK i \in 1 .. Len(todo) : todo[i] = d
        BY DEF Waits
      <3>2. i # 1 /\ Len(todo) \in Nat
        BY <2>1, <2>7, <3>1
      <3>3. i - 1 \in 1 .. Len(Tail(todo)) /\ (i - 1) + 1 = i
        BY <2>1, <3>2
      <3>4. r.todo[i - 1] = d
        BY <2>1, <2>3, <3>1, <3>3
      <3>5. QED
        BY <2>3, <3>3, <3>4 DEF Waits
    <2>8. Undisturbed(c)
      BY <1>8 DEF Undisturbed, SameDir
    <2>9. ListedRight(dir) /\ untold' = untold \ {dir}
      BY <1>8, <2>6 DEF ListedRight
    <2>10. \A d \in Dirs : OldListings(d)
      BY <2>6, FromIsKept
    <2> HIDE DEF dir, todo
    <2>11. Accounted(c, HeldBy(r) \cap Waits(r))
      BY <1>8, <2>4, <2>7, <2>9, <2>10 DEF Accounted, SameDir
    <2>12. fs' \in [Dirs -> Listings]
      BY <1>1, <1>8
    <2>13. QED
      BY <2>2, <2>3, <2>4, <2>5, <2>6, <2>8, <2>11, <2>12, StepKeeps
  <1>9. QED
    BY <1>4, <1>5, <1>6, <1>7, <1>8 DEF generic_change

\* The kernel sends a request when nobody else holds what it must hold for it.
LEMMA RequestKeeps ==
    ASSUME LufsdInv, NEW c \in Channels, Request(c)
    PROVE  LufsdInv' /\ chan'[c].reply = "none"
  <1>1. /\ chan \in [Channels -> ChannelState] /\ fs' = fs /\ cache' = cache /\ untold' = untold
        /\ chan[c].pc = "idle" /\ ChannelOK(chan[c], fs, untold)
    BY DEF LufsdInv, Request
  <1>2. PICK op \in Ops, at \in Place, to \in Place :
            /\ \A d \in Holds(op, at, to) : Held(d) = {}
            /\ chan' = [chan EXCEPT ![c] = [pc |-> "called", op |-> op, at |-> at, to |-> to,
                                            list |-> Nothing, todo |-> <<>>, reply |-> "none"]]
    BY DEF Request
  <1> DEFINE r == [pc |-> "called", op |-> op, at |-> at, to |-> to,
                   list |-> Nothing, todo |-> <<>>, reply |-> "none"]
  <1>3. /\ r \in ChannelState /\ r.pc = "called" /\ r.op = op /\ r.todo = <<>> /\ r.reply = "none"
        /\ HeldBy(r) = Holds(op, at, to)
    BY NothingIsListing DEF ChannelState, HeldBy
  <1>4. chan' = [chan EXCEPT ![c] = r]
    BY <1>2
  <1> HIDE DEF r
  <1>5. /\ chan' \in [Channels -> ChannelState]
        /\ chan'[c] = r /\ \A e \in Channels \ {c} : chan'[e] = chan[e]
    BY <1>1, <1>3, <1>4
  <1>6. HeldBy(chan[c]) = {} /\ Waits(chan[c]) = {}
    BY <1>1, NoWaits DEF ChannelOK, HeldBy, Holds
  <1>7. ASSUME NEW e \in Channels PROVE HeldBy(chan[e]) \cap HeldBy(r) = {}
    <2>1. SUFFICES ASSUME NEW d \in HeldBy(r), d \in HeldBy(chan[e]) PROVE FALSE
      OBVIOUS
    <2>2. e \notin Held(d)
      BY <1>2, <1>3
    <2>3. chan[e].pc = "idle"
      BY <2>1, <2>2 DEF Held, HeldBy
    <2>4. chan[e].op = "none"
      BY <2>3 DEF LufsdInv, ChannelOK
    <2>5. QED
      BY <2>1, <2>4 DEF HeldBy, Holds
  <1>8. Apart'
    BY <1>5, <1>7 DEF LufsdInv, Apart
  <1>9. \A e \in Channels : ChannelOK(chan'[e], fs', untold')
    <2>1. ChannelOK(r, fs', untold')
      BY <1>3 DEF ChannelOK, Ops
    <2>2. QED
      BY <1>1, <1>5, <2>1 DEF LufsdInv
  <1>10. \A d : Pending(d) => Pending(d)'
    BY <1>5, <1>6 DEF Pending
  <1>11. CacheCurrent'
    BY <1>1, <1>10 DEF LufsdInv, CacheCurrent, Current
  <1>12. QED
    BY <1>1, <1>3, <1>5, <1>8, <1>9, <1>11 DEF LufsdInv

\* A second passes.
LEMMA TickKeeps ==
    ASSUME LufsdInv, Tick
    PROVE  LufsdInv'
  <1>1. /\ CacheOK(cache') /\ CacheFrom(cache', cache) /\ fs' = fs /\ chan' = chan
        /\ untold' = untold \cap Listed(cache')
    BY AgedOK DEF LufsdInv, Tick
  <1>2. \A d : Pending(d)' <=> Pending(d)
    BY <1>1 DEF Pending
  <1>3. ASSUME NEW h \in Buckets, NEW p \in 1 .. Len(cache'.buckets[h]), Valid(cache'.buckets[h][p]),
               NEW n, n = cache'.buckets[h][p].name
        PROVE  RightIn(fs', cache'.buckets[h][p]) \/ Pending(n)' \/ n \in untold'
    <2>1. PICK i \in 1 .. Len(cache.buckets[h]) : Same(cache'.buckets[h][p], cache.buckets[h][i])
      BY <1>1 DEF CacheFrom, From
    <2>2. cache'.buckets[h][p].name \in Listed(cache')
      BY <1>1, <1>3, ValidIsListed
    <2>3. Current(cache.buckets[h][i])
      BY DEF LufsdInv, CacheCurrent
    <2>4. QED
      BY <1>1, <1>2, <1>3, <2>1, <2>2, <2>3 DEF Current, RightIn, Same
  <1>4. CacheCurrent'
    BY <1>3 DEF CacheCurrent, Current, Pending
  <1>5. \A c \in Channels : ChannelOK(chan'[c], fs', untold')
    BY <1>1 DEF LufsdInv, ChannelOK
  <1>6. QED
    BY <1>1, <1>4, <1>5 DEF LufsdInv, Apart

\* The kernel makes new connections.
LEMMA ReconnectKeeps ==
    ASSUME LufsdInv, Reconnect
    PROVE  LufsdInv'
  <1>1. /\ fs' \in [Dirs -> Listings] /\ cache' = cache /\ chan' = chan
        /\ untold' = Listed(cache) /\ \A c \in Channels : chan[c].pc = "idle"
    BY DEF Reconnect
  <1>2. CacheCurrent'
    <2>1. \A h \in Buckets : \A i \in 1 .. Len(cache.buckets[h]) :
              Valid(cache.buckets[h][i]) => cache.buckets[h][i].name \in untold'
      BY <1>1, ValidIsListed DEF LufsdInv
    <2>2. QED
      BY <1>1, <2>1 DEF CacheCurrent, Current
  <1>3. \A c \in Channels : ChannelOK(chan'[c], fs', untold')
    BY <1>1 DEF LufsdInv, ChannelOK
  <1>4. QED
    BY <1>1, <1>2, <1>3 DEF LufsdInv, Apart

\* Nothing happens.
LEMMA NoStepKeeps ==
    ASSUME LufsdInv, UNCHANGED vars
    PROVE  LufsdInv'
  <1>1. fs' = fs /\ cache' = cache /\ chan' = chan /\ untold' = untold
    BY DEF vars
  <1>2. QED
    BY <1>1 DEF LufsdInv, Apart, CacheCurrent, Current, Pending

\* What lu_fsctl_run starts from.
LEMMA InitLufsd == Init => LufsdInv
  <1> SUFFICES ASSUME Init PROVE LufsdInv
    OBVIOUS
  <1>1. fs \in [Dirs -> Listings]
    <2>1. \A d \in Dirs : fs[d] \in [Names -> 0 .. Versions]
      BY ListingsAssumption DEF Init
    <2>2. QED
      BY <2>1, ListingsAssumption DEF Init
  <1>2. PICK p \in Place : chan = [c \in Channels |->
               [pc |-> "idle", op |-> "none", at |-> p, to |-> p,
                list |-> Nothing, todo |-> <<>>, reply |-> "none"]]
    BY DEF Init
  <1>3. \A c \in Channels : /\ chan[c] \in ChannelState /\ chan[c].pc = "idle"
                            /\ chan[c].op = "none" /\ chan[c].todo = <<>>
    BY <1>2, NothingIsListing DEF ChannelState
  <1>4. chan \in [Channels -> ChannelState]
    BY <1>2, <1>3
  <1>5. \A c \in Channels : ChannelOK(chan[c], fs, untold) /\ HeldBy(chan[c]) = {}
    BY <1>3 DEF ChannelOK, HeldBy, Holds
  <1>6. CacheOK(cache) /\ \A h \in Buckets : Len(cache.buckets[h]) = 0
    BY EmptyCacheOK DEF Init, EmptyCache
  <1>7. CacheCurrent
    BY <1>6 DEF CacheCurrent
  <1>8. QED
    BY <1>1, <1>4, <1>5, <1>6, <1>7 DEF LufsdInv, Apart

\* Every step of lufsd keeps the invariant, and answers with what is there.
LEMMA NextLufsd ==
    ASSUME LufsdInv, [Next]_vars
    PROVE  /\ LufsdInv'
           /\ \A c \in Channels : chan[c].op = "readdir" => AnswersCurrent(c)
  <1>1. /\ \A c \in Channels : ChannelOK(chan[c], fs, untold) /\ chan[c] \in ChannelState
        /\ chan \in [Channels -> ChannelState]
    BY DEF LufsdInv
  <1>2. ASSUME NEW c \in Channels, Request(c) PROVE LufsdInv' /\ AnswersCurrent(c)
    <2>1. LufsdInv' /\ chan'[c].reply = "none"
      BY <1>2, RequestKeeps
    <2>2. QED
      BY <2>1 DEF AnswersCurrent
  <1>3. ASSUME NEW c \in Channels, NEW e \in Channels \ {c},
               \/ Request(c) \/ generic_readdir(c) \/ generic_stat(c)
               \/ generic_write(c) \/ generic_change(c)
        PROVE  chan'[e] = chan[e]
    BY <1>1, <1>3 DEF Request, generic_readdir, ReaddirCached, generic_stat, generic_write,
                      generic_change, Goto, Answer
  <1>4. ASSUME NEW c \in Channels,
               \/ Request(c) \/ generic_readdir(c) \/ generic_stat(c)
               \/ generic_write(c) \/ generic_change(c)
        PROVE  /\ LufsdInv'
               /\ \A e \in Channels : chan[e].op = "readdir" => AnswersCurrent(e)
    <2>1. LufsdInv' /\ (chan[c].op = "readdir" => AnswersCurrent(c))
      <3>1. CASE Request(c)
        BY <1>2, <3>1
      <3>2. CASE generic_readdir(c)
        BY <3>2, ReaddirKeeps
      <3>3. CASE generic_stat(c)
        BY <3>3, StatKeeps DEF generic_stat
      <3>4. CASE generic_write(c)
        BY <3>4, WriteKeeps DEF generic_write
      <3>5. CASE generic_change(c)
        BY <3>5, ChangeKeeps DEF generic_change
      <3>6. QED
        BY <1>4, <3>1, <3>2, <3>3, <3>4, <3>5
    <2>2. \A e \in Channels \ {c} : AnswersCurrent(e)
      BY <1>3, <1>4 DEF AnswersCurrent
    <2>3. QED
      BY <2>1, <2>2
  <1>5. CASE Tick
    BY <1>5, TickKeeps DEF Tick, AnswersCurrent
  <1>6. CASE Reconnect
    BY <1>6, ReconnectKeeps DEF Reconnect, AnswersCurrent
  <1>7. CASE UNCHANGED vars
    BY <1>7, NoStepKeeps DEF vars, AnswersCurrent
  <1>8. QED
    BY <1>4, <1>5, <1>6, <1>7 DEF Next

----------------------------------------------------------------------------
\* The buckets of the cache stay well formed, whatever the channels do and
\* whatever number of entries and of seconds the options give: their lengths
\* are right, they hold no more than they may and no directory twice.
THEOREM CacheStaysWellFormed == Spec => []CacheWellFormed
  <1>1. LufsdInv => CacheWellFormed
    BY DEF LufsdInv, CacheOK, BucketOK, Distinct, CacheWellFormed
  <1>2. LufsdInv /\ [Next]_vars => LufsdInv'
    BY NextLufsd
  <1>3. QED
    BY InitLufsd, <1>1, <1>2, PTL DEF Spec

\* A valid listing names what its directory holds, however many channels read,
\* change and invalidate at once -- from the semaphores of the kernel, and the
\* invalidation of every directory a handler has changed and told of.  It names
\* anything else only where the code invalidates nothing: after a rmdir that
\* failed and hid, of the directory that was itself removed or made, and once
\* LiveCDFS has been made anew.
THEOREM NamesStayCurrent == Spec => []NamesCurrent
  <1>1. LufsdInv => NamesCurrent
    <2>1. \A d : Pending(d) => Changing(d)
      BY DEF Pending, Waits, Changing
    <2>2. \A d, list : Shown(fs, d) /\ Entries(list) = Entries(fs[d]) <=> Right(d, list)
      BY DEF Shown, There, Right
    <2>3. QED
      BY <2>1, <2>2 DEF LufsdInv, CacheCurrent, Current, RightIn, NamesCurrent
  <1>2. LufsdInv /\ [Next]_vars => LufsdInv'
    BY NextLufsd
  <1>3. QED
    BY InitLufsd, <1>1, <1>2, PTL DEF Spec

\* A listing that the kernel gets is the one of that moment, if it had to be
\* read, or the cache has been told of what became of the directory.
THEOREM ListingsAreCurrent == Spec => ListingsCurrent
  <1> DEFINE A == \A c \in Channels :
                    (chan[c].op = "readdir" /\ chan[c].reply # "OK" /\ chan'[c].reply = "OK")
                        => \/ Right(Dir(c), chan'[c].list)
                           \/ chan[c].pc = "called" /\ Dir(c) \in untold
  <1>1. LufsdInv /\ [Next]_vars => LufsdInv' /\ [A]_vars
    BY NextLufsd DEF AnswersCurrent
  <1>2. QED
    BY InitLufsd, <1>1, PTL DEF Spec, ListingsCurrent
=============================================================================
