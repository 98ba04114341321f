------------------------- MODULE WhiteoutFileProofs -------------------------
(***************************************************************************)
(* Proofs about WhiteoutFile for any names and any CD, whenever the daemon *)
(* is stopped: what is stored when, and that hidden names are never made   *)
(* up.                                                                     *)
(***************************************************************************)
EXTENDS WhiteoutFile, WhiteoutProofs

\* A daemon that serves has stored its list up to out.  One that loads has
\* read nothing, or one line: that line is then the whole list, and the lines
\* of the file and of out are that line again, so that no second is read.
Unwritten ==
    /\ pc = "serve" => file \o out = entries /\ Distinct(entries)
    /\ pc = "load" => \/ /\ pos = 0 /\ entries = <<>> /\ out = <<>> /\ todo = <<>>
                         /\ file = found
                      \/ /\ pos = 1 /\ Len(entries) = 1 /\ todo = <<>>
                         /\ file \o out = entries
                         /\ found # <<>> /\ entries = <<found[1]>>
    /\ pc = "down" => entries = <<>> /\ out = <<>> /\ todo = <<>>

Types ==
    /\ rw \subseteq Names /\ about \subseteq Names
    /\ entries \in Seq(Names) /\ file \in Seq(Names) /\ out \in Seq(Names)
    /\ todo \in Seq([name : Names, visible : BOOLEAN])
    /\ pos \in Nat /\ found \in Seq(Names)
    /\ pc \in {"down", "load", "serve"}

IInv == Types /\ Unwritten

----------------------------------------------------------------------------
(***************************************************************************)
(* Lemmas about lists.                                                     *)
(***************************************************************************)

\* The head and the tail of a list.
LEMMA HeadAndTail ==
    ASSUME NEW S, NEW s \in Seq(S), s # <<>>
    PROVE  Head(s) \in S /\ Tail(s) \in Seq(S)
  OBVIOUS

\* Lists of no, one and two elements.
LEMMA ShortLists ==
    ASSUME NEW S, NEW a \in S, NEW b \in S
    PROVE  <<>> \in Seq(S) /\ <<a>> \in Seq(S) /\ <<a, b>> \in Seq(S)
  OBVIOUS

\* Moving the head of the second list to the end of the first.
LEMMA MoveHead ==
    ASSUME NEW S, NEW s \in Seq(S), NEW t \in Seq(S), t # <<>>
    PROVE  /\ Append(s, Head(t)) \in Seq(S) /\ Tail(t) \in Seq(S)
           /\ Append(s, Head(t)) \o Tail(t) = s \o t
  OBVIOUS

\* The elements of a list are those at its positions.
LEMMA RangeOfList ==
    ASSUME NEW S, NEW s \in Seq(S)
    PROVE  Range(s) = {s[i] : i \in 1 .. Len(s)} /\ Range(s) \subseteq S
  <1>1. DOMAIN s = 1 .. Len(s) /\ \A i \in 1 .. Len(s) : s[i] \in S
    OBVIOUS
  <1>2. QED
    BY <1>1 DEF Range

\* The first part of a list has no element the list has not.
LEMMA RangeOfPart ==
    ASSUME NEW S, NEW s \in Seq(S), NEW t \in Seq(S)
    PROVE  Range(s) \subseteq Range(s \o t)
  <1>1. /\ s \o t \in Seq(S)
        /\ \A i \in 1 .. Len(s) : i \in 1 .. Len(s \o t) /\ (s \o t)[i] = s[i]
    OBVIOUS
  <1>2. /\ Range(s) = {s[i] : i \in 1 .. Len(s)}
        /\ Range(s \o t) = {(s \o t)[i] : i \in 1 .. Len(s \o t)}
    BY <1>1, RangeOfList
  <1>3. QED
    BY <1>1, <1>2

\* Appending to a list adds the element.
LEMMA RangeOfAppend ==
    ASSUME NEW S, NEW s \in Seq(S), NEW p \in S
    PROVE  Range(Append(s, p)) = Range(s) \cup {p}
  <1>1. /\ Append(s, p) \in Seq(S) /\ Len(Append(s, p)) = Len(s) + 1
        /\ \A i \in 1 .. Len(s) : Append(s, p)[i] = s[i]
        /\ Append(s, p)[Len(s) + 1] = p
        /\ Len(s) \in Nat
    OBVIOUS
  <1>2. 1 .. (Len(s) + 1) = 1 .. Len(s) \cup {Len(s) + 1}
    BY <1>1
  <1>3. Range(s) = {s[i] : i \in 1 .. Len(s)}
    BY RangeOfList
  <1>4. Range(Append(s, p)) = {Append(s, p)[i] : i \in 1 .. (Len(s) + 1)}
    BY <1>1, RangeOfList
  <1>5. QED
    BY <1>1, <1>2, <1>3, <1>4

\* Erasing the one entry of a name removes the name.
LEMMA RangeOfWithout ==
    ASSUME NEW S, NEW s \in Seq(S), Distinct(s), NEW i \in 1 .. Len(s)
    PROVE  Range(Without(s, i)) = Range(s) \ {s[i]}
  <1> DEFINE t == Without(s, i)
  <1>0. Len(s) \in Nat /\ i \in Nat
    OBVIOUS
  <1> HIDE DEF t
  <1>1. /\ t \in Seq(S) /\ Len(t) = Len(s) - 1 /\ Len(s) \in Nat
        /\ \A k \in 1 .. (Len(s) - 1) : t[k] = IF k < i THEN s[k] ELSE s[k + 1]
    BY <1>0, WithoutProperties DEF t
  <1>2. Range(t) = {t[k] : k \in 1 .. (Len(s) - 1)} /\ Range(s) = {s[k] : k \in 1 .. Len(s)}
    BY <1>1, RangeOfList
  <1>3. ASSUME NEW k \in 1 .. (Len(s) - 1)
        PROVE  t[k] \in Range(s) \ {s[i]}
    <2>1. PICK j \in 1 .. Len(s) : t[k] = s[j] /\ j # i
      <3>1. CASE k < i
        BY <1>1, <3>1
      <3>2. CASE ~(k < i)
        BY <1>1, <3>2
      <3>3. QED
        BY <3>1, <3>2
    <2>2. s[j] # s[i]
      BY <2>1 DEF Distinct
    <2>3. QED
      BY <1>2, <2>1, <2>2
  <1>4. ASSUME NEW j \in 1 .. Len(s), s[j] # s[i]
        PROVE  s[j] \in Range(t)
    <2>1. CASE j < i
      <3>1. j \in 1 .. (Len(s) - 1) /\ t[j] = s[j]
        BY <1>1, <2>1
      <3>2. QED
        BY <1>2, <3>1
    <2>2. CASE j > i
      <3>1. j - 1 \in 1 .. (Len(s) - 1) /\ t[j - 1] = s[j]
        BY <1>1, <2>2
      <3>2. QED
        BY <1>2, <3>1
    <2>3. QED
      BY <1>1, <1>4, <2>1, <2>2
  <1>5. QED
    BY <1>2, <1>3, <1>4 DEF t

\* setVisible leaves a list of distinct names.
LEMMA SetVisibleList ==
    ASSUME NEW S, NEW s \in Seq(S), Distinct(s), NEW p \in S, NEW v \in BOOLEAN
    PROVE  /\ SetVisible(Store(s), p, v).entries \in Seq(S)
           /\ Distinct(SetVisible(Store(s), p, v).entries)
  <1>1. Store(s) \in Whiteouts(S) /\ Stored(Store(s))
    BY DEF Store, Whiteouts, Stored
  <1>2. QED
    BY <1>1, SetVisibleType DEF Whiteouts, Stored

\* setVisible(p, true) shows the one name it is called for.
LEMMA ShowsOne ==
    ASSUME NEW S, NEW s \in Seq(S), Distinct(s), NEW p \in S, NEW v, v = TRUE
    PROVE  Range(SetVisible(Store(s), p, v).entries) = Range(s) \ {p}
  <1> DEFINE w == Store(s)
  <1>1. w \in Whiteouts(S) /\ w.entries = s
    BY DEF Store, Whiteouts
  <1>2. Hidden(w, p) <=> p \in Range(s)
    BY <1>1, RangeOfList DEF Hidden
  <1>3. CASE Hidden(w, p)
    <2>1. Find(w, p) \in 1 .. Len(s) /\ s[Find(w, p)] = p
      BY <1>1, <1>3, FindPosition
    <2>2. SetVisible(w, p, v).entries = Without(s, Find(w, p))
      BY <1>1, <1>3 DEF SetVisible, Erase, Store
    <2>3. Range(Without(s, Find(w, p))) = Range(s) \ {p}
      BY <2>1, RangeOfWithout
    <2>4. QED
      BY <2>2, <2>3
  <1>4. CASE ~Hidden(w, p)
    <2>1. SetVisible(w, p, v).entries = s
      BY <1>1, <1>4 DEF SetVisible
    <2>2. Range(s) = Range(s) \ {p}
      BY <1>2, <1>4
    <2>3. QED
      BY <2>1, <2>2
  <1>5. QED
    BY <1>3, <1>4

\* setVisible(p, false) hides the one name it is called for.
LEMMA HidesOne ==
    ASSUME NEW S, NEW s \in Seq(S), Distinct(s), NEW p \in S, NEW v, v = FALSE
    PROVE  Range(SetVisible(Store(s), p, v).entries) = Range(s) \cup {p}
  <1> DEFINE w == Store(s)
  <1>1. w \in Whiteouts(S) /\ w.entries = s
    BY DEF Store, Whiteouts
  <1>2. Hidden(w, p) <=> p \in Range(s)
    BY <1>1, RangeOfList DEF Hidden
  <1>3. CASE Hidden(w, p)
    <2>1. SetVisible(w, p, v).entries = s
      BY <1>1, <1>3 DEF SetVisible
    <2>2. Range(s) = Range(s) \cup {p}
      BY <1>2, <1>3
    <2>3. QED
      BY <2>1, <2>2
  <1>4. CASE ~Hidden(w, p)
    <2>1. SetVisible(w, p, v).entries = Append(s, p)
      BY <1>1, <1>4 DEF SetVisible, Add, Store
    <2>2. Range(Append(s, p)) = Range(s) \cup {p}
      BY RangeOfAppend
    <2>3. QED
      BY <2>1, <2>2
  <1>5. QED
    BY <1>3, <1>4

\* setVisible changes the list by at most the one name.
LEMMA OneName ==
    ASSUME NEW S, NEW s \in Seq(S), Distinct(s), NEW p \in S, NEW v \in BOOLEAN
    PROVE  \/ Range(SetVisible(Store(s), p, v).entries) = Range(s) \ {p}
           \/ Range(SetVisible(Store(s), p, v).entries) = Range(s) \cup {p}
  <1>1. CASE v = TRUE
    BY <1>1, ShowsOne, Zenon
  <1>2. CASE v = FALSE
    BY <1>2, HidesOne, Zenon
  <1>3. QED
    BY <1>1, <1>2

----------------------------------------------------------------------------
(***************************************************************************)
(* The invariant.                                                          *)
(***************************************************************************)

\* The empty list is stored in the empty file.
LEMMA InitInv == Init => IInv
  BY DEF Init, IInv, Types, Unwritten, Distinct

\* A request changes nothing of the list and the file.
LEMMA RequestInv == IInv /\ Request => IInv'
  <1> DEFINE Calls == Seq([name : Names, visible : BOOLEAN])
  <1> SUFFICES ASSUME IInv, NEW p \in Names, NEW q \in Names,
                      Make(p) \/ Remove(p) \/ Rename(p, q)
               PROVE  IInv'
    BY DEF Request
  <1>1. /\ Call(p, TRUE) \in [name : Names, visible : BOOLEAN]
        /\ Call(q, TRUE) \in [name : Names, visible : BOOLEAN]
        /\ Call(p, FALSE) \in [name : Names, visible : BOOLEAN]
    BY DEF Call
  <1>2. /\ <<>> \in Calls /\ <<Call(p, TRUE)>> \in Calls /\ <<Call(p, FALSE)>> \in Calls
        /\ <<Call(p, FALSE), Call(q, TRUE)>> \in Calls
    BY <1>1, ShortLists, Zenon
  <1> HIDE DEF Calls
  <1>3. rw \subseteq Names
    BY DEF IInv, Types
  <1>4. /\ rw' \subseteq Names /\ about' \subseteq Names /\ todo' \in Calls /\ Idle
        /\ UNCHANGED <<entries, file, out, pos, found, pc>>
    <2>1. CASE Make(p)
      BY <1>2, <1>3, <2>1 DEF Make, Begin
    <2>2. CASE Remove(p)
      BY <1>2, <1>3, <2>2 DEF Remove, Begin
    <2>3. CASE Rename(p, q)
      BY <1>2, <1>3, <2>3 DEF Rename, Begin
    <2>4. QED
      BY <2>1, <2>2, <2>3
  <1>5. Types'
    BY <1>4 DEF IInv, Types, Calls
  <1>6. Unwritten'
    BY <1>4 DEF Idle, IInv, Unwritten
  <1>7. QED
    BY <1>5, <1>6 DEF IInv

\* setVisible starts to write a list that holds no name twice.
LEMMA SetVisibleInv == IInv /\ SetVisibleStep => IInv'
  <1> SUFFICES ASSUME IInv, SetVisibleStep
               PROVE  IInv'
    OBVIOUS
  <1> DEFINE t == ListAfter(Head(todo))
  <1>1. /\ entries \in Seq(Names) /\ Distinct(entries)
        /\ Head(todo).name \in Names /\ Head(todo).visible \in BOOLEAN
        /\ Tail(todo) \in Seq([name : Names, visible : BOOLEAN])
    <2>1. todo \in Seq([name : Names, visible : BOOLEAN]) /\ todo # <<>>
      BY DEF IInv, Types, SetVisibleStep
    <2>2. /\ Head(todo) \in [name : Names, visible : BOOLEAN]
          /\ Tail(todo) \in Seq([name : Names, visible : BOOLEAN])
      BY <2>1, HeadAndTail, Zenon
    <2>3. Head(todo).name \in Names /\ Head(todo).visible \in BOOLEAN
      BY <2>2
    <2>4. QED
      BY <2>2, <2>3 DEF IInv, Types, Unwritten, SetVisibleStep
  <1>2. t \in Seq(Names) /\ Distinct(t)
    BY <1>1, SetVisibleList DEF ListAfter
  <1> HIDE DEF t
  <1>3. CASE t = entries
    BY <1>1, <1>3 DEF t, SetVisibleStep, IInv, Types, Unwritten
  <1>4. CASE t # entries
    <2>1. entries' = t /\ file' = <<>> /\ out' = t
      BY <1>4 DEF t, SetVisibleStep, StoreList, Truncated
    <2>2. <<>> \o t = t
      BY <1>2
    <2>3. QED
      BY <1>1, <1>2, <2>1, <2>2 DEF SetVisibleStep, IInv, Types, Unwritten
  <1>5. QED
    BY <1>3, <1>4

\* A line moves from what store has still to write to the file.
LEMMA WriteLineInv == IInv /\ WriteLine => IInv'
  <1> SUFFICES ASSUME IInv, WriteLine
               PROVE  IInv'
    OBVIOUS
  <1>1. file' \in Seq(Names) /\ out' \in Seq(Names) /\ file' \o out' = file \o out
    BY MoveHead DEF IInv, Types, WriteLine
  <1>2. Types'
    BY <1>1 DEF IInv, Types, WriteLine
  <1>3. Unwritten'
    BY <1>1 DEF IInv, Unwritten, WriteLine
  <1>4. QED
    BY <1>2, <1>3 DEF IInv

\* Only the first line is ever read: adding it leaves nothing after it.
LEMMA LoadLineFirst ==
    ASSUME IInv, LoadLine
    PROVE  /\ pos = 0 /\ entries = <<>> /\ file # <<>> /\ file = found
           /\ entries' = <<file[1]>> /\ file[1] \in Names
  <1>1. /\ pc = "load" /\ out = <<>> /\ file \in Seq(Names) /\ pos \in Nat
        /\ pos < Len(file) /\ Len(file) \in Nat
    BY DEF IInv, Types, LoadLine, AtEnd
  <1>2. pos = 0 /\ entries = <<>> /\ file = found
    <2>1. CASE pos = 1 /\ Len(entries) = 1 /\ file \o out = entries
      <3>1. file \o out = file
        BY <1>1
      <3>2. Len(file) = 1
        BY <2>1, <3>1
      <3>3. QED
        BY <1>1, <2>1, <3>2
    <2>2. QED
      BY <1>1, <2>1 DEF IInv, Unwritten
  <1>3. entries' = <<file[1]>> /\ file # <<>> /\ file[1] \in Names
    BY <1>1, <1>2 DEF LoadLine, StoreList
  <1>4. QED
    BY <1>2, <1>3

\* The first line becomes the list, and is written again.
LEMMA LoadLineInv == IInv /\ LoadLine => IInv'
  <1> SUFFICES ASSUME IInv, LoadLine
               PROVE  IInv'
    OBVIOUS
  <1>1. PICK p \in Names : entries' = <<p>> /\ pos = 0 /\ found # <<>> /\ p = found[1]
    BY LoadLineFirst
  <1>2. out' = <<p>> /\ file' = <<>> /\ pos' = 1 /\ pc = "load" /\ pc' = "load"
    BY <1>1 DEF LoadLine, StoreList, Truncated
  <1>3. <<p>> \in Seq(Names) /\ <<>> \o <<p>> = <<p>> /\ Len(<<p>>) = 1
    OBVIOUS
  <1>4. Types'
    BY <1>1, <1>2, <1>3 DEF IInv, Types, LoadLine
  <1>5. Unwritten'
    <2>1. todo' = <<>> /\ found' = found
      BY <1>2 DEF IInv, Unwritten, LoadLine
    <2>2. QED
      BY <1>1, <1>2, <1>3, <2>1 DEF Unwritten
  <1>6. QED
    BY <1>4, <1>5 DEF IInv

\* When load ends the list is empty or the one line, which is stored.
LEMMA LoadEndInv == IInv /\ LoadEnd => IInv'
  <1> SUFFICES ASSUME IInv, LoadEnd
               PROVE  IInv'
    OBVIOUS
  <1>1. Types'
    BY DEF IInv, Types, LoadEnd
  <1>2. file \o out = entries /\ Distinct(entries)
    <2>1. CASE pos = 0 /\ entries = <<>>
      <3>1. file = <<>>
        BY <2>1 DEF IInv, Types, LoadEnd, LoadDone, AtEnd
      <3>2. QED
        BY <2>1, <3>1 DEF LoadEnd, LoadDone, Distinct
    <2>2. CASE Len(entries) = 1 /\ file \o out = entries
      BY <2>2 DEF Distinct
    <2>3. QED
      BY <2>1, <2>2 DEF IInv, Unwritten, LoadEnd
  <1>3. Unwritten'
    BY <1>2 DEF Unwritten, LoadEnd
  <1>4. QED
    BY <1>1, <1>3 DEF IInv

\* A daemon starts to read with an empty list.
LEMMA CreateInv == IInv /\ Create => IInv'
  BY DEF IInv, Types, Unwritten, Create

\* A stop leaves no list, only the file.
LEMMA StopInv == IInv /\ Stop => IInv'
  BY DEF IInv, Types, Unwritten, Stop

\* Every step preserves the invariant.
LEMMA NextInv == IInv /\ [Next]_vars => IInv'
  <1> SUFFICES ASSUME IInv, [Next]_vars
               PROVE  IInv'
    OBVIOUS
  <1>1. CASE UNCHANGED vars
    BY <1>1 DEF vars, IInv, Types, Unwritten
  <1>2. CASE Request
    BY <1>2, RequestInv
  <1>3. CASE Daemon
    BY <1>3, SetVisibleInv, WriteLineInv, LoadLineInv, LoadEndInv DEF Daemon
  <1>4. CASE Create
    BY <1>4, CreateInv
  <1>5. CASE Stop
    BY <1>5, StopInv
  <1>6. QED
    BY <1>1, <1>2, <1>3, <1>4, <1>5 DEF Next

\* Whatever the moment of a stop: what a daemon that serves has stored and
\* what it has still to write make up its list of distinct names.
THEOREM StoredAlways == Spec => []StoredInOrder
  <1>1. IInv => StoredInOrder
    BY DEF IInv, Unwritten, StoredInOrder, Distinct
  <1>2. QED
    BY InitInv, NextInv, <1>1, PTL DEF Spec

\* load, whose add() truncates the file it reads, ends as the single step
\* Whiteout!Load does, however the file came to be: this is what lets LiveCDFS
\* take it as one.
THEOREM LoadIsOneStep == Spec => LoadKeepsFirst
  <1> DEFINE Ends == pc = "load" /\ pc' = "serve" =>
                       [entries |-> entries', file |-> file']
                         = Load([entries |-> <<>>, file |-> found])
  <1>1. IInv /\ [Next]_vars => [Ends]_vars
    <2> SUFFICES ASSUME IInv, Next, pc = "load", pc' = "serve"
                 PROVE  [entries |-> entries', file |-> file']
                          = Load([entries |-> <<>>, file |-> found])
      OBVIOUS
    <2>1. LoadEnd
      BY DEF Next, Request, Make, Remove, Rename, Begin, Idle, Daemon, SetVisibleStep,
             WriteLine, LoadLine, Create, Stop
    <2>2. /\ entries' = entries /\ file' = file /\ out = <<>> /\ pos >= Len(file)
          /\ file \in Seq(Names) /\ found \in Seq(Names)
      BY <2>1 DEF LoadEnd, LoadDone, AtEnd, IInv, Types
    <2>3. CASE pos = 0 /\ entries = <<>> /\ file = found
      <3>1. found = <<>>
        BY <2>2, <2>3
      <3>2. QED
        BY <2>2, <2>3, <3>1 DEF Load
    <2>4. CASE file \o out = entries /\ found # <<>> /\ entries = <<found[1]>>
      <3>1. file = entries /\ Append(<<>>, Head(found)) = <<found[1]>>
        BY <2>2, <2>4
      <3>2. QED
        BY <2>2, <2>4, <3>1 DEF Load, Add, Store
    <2>5. QED
      BY <2>3, <2>4 DEF IInv, Unwritten
  <1>2. QED
    BY InitInv, NextInv, <1>1, PTL DEF Spec, LoadKeepsFirst

----------------------------------------------------------------------------
(***************************************************************************)
(* The refinement of HiddenNames.                                          *)
(***************************************************************************)

\* At the start nothing is hidden.
LEMMA InitAbstract == Init => Abstract!Init
  BY DEF Init, Abstract!Init, HiddenNow, Range

\* One setVisible is one Hide or one Show.
LEMMA OneCallHides ==
    ASSUME IInv, SetVisibleStep
    PROVE  \E p \in Names : Abstract!Hide(p) \/ Abstract!Show(p)
  <1>1. todo \in Seq([name : Names, visible : BOOLEAN]) /\ todo # <<>>
    BY DEF IInv, Types, SetVisibleStep
  <1>2. PICK c \in [name : Names, visible : BOOLEAN] : c = Head(todo)
    BY <1>1, HeadAndTail, Zenon
  <1>3. c.name \in Names /\ c.visible \in BOOLEAN
    BY <1>2
  <1>4. /\ entries \in Seq(Names) /\ Distinct(entries)
        /\ entries' = ListAfter(c) /\ pc = "serve" /\ pc' = "serve"
    BY <1>2 DEF IInv, Types, Unwritten, SetVisibleStep, StoreList
  <1>5. \/ Range(ListAfter(c)) = Range(entries) \ {c.name}
        \/ Range(ListAfter(c)) = Range(entries) \cup {c.name}
    BY <1>3, <1>4, OneName DEF ListAfter
  <1>6. HiddenNow = Range(entries) /\ HiddenNow' = Range(ListAfter(c))
    BY <1>4 DEF HiddenNow
  <1>7. QED
    BY <1>3, <1>4, <1>5, <1>6 DEF Abstract!Hide, Abstract!Show

\* A stop keeps the lines that are in the file.
LEMMA StopLoses == IInv /\ Stop => Abstract!Restart
  <1> SUFFICES ASSUME IInv, Stop
               PROVE  Abstract!Restart
    OBVIOUS
  <1>1. HiddenNow' = Range(file)
    BY DEF Stop, HiddenNow, Range
  <1>2. Range(file) \subseteq HiddenNow
    <2>1. CASE pc = "serve"
      <3>1. entries = file \o out /\ file \in Seq(Names) /\ out \in Seq(Names)
        BY <2>1 DEF IInv, Types, Unwritten
      <3>2. QED
        BY <2>1, <3>1, RangeOfPart DEF HiddenNow
    <2>2. CASE pc # "serve"
      BY <2>2 DEF HiddenNow
    <2>3. QED
      BY <2>1, <2>2
  <1>3. QED
    BY <1>1, <1>2 DEF Stop, Abstract!Restart

\* A daemon that starts over the file hides what the file holds.
LEMMA CreateLoses == IInv /\ Create => Abstract!Restart
  <1> SUFFICES ASSUME IInv, Create
               PROVE  Abstract!Restart
    OBVIOUS
  <1>1. HiddenNow' = Range(file)
    BY DEF Create, HiddenNow, Range
  <1>2. HiddenNow = Range(file)
    <2>1. CASE pc = "down"
      BY <2>1 DEF IInv, Unwritten, HiddenNow, Range
    <2>2. CASE Idle
      <3>1. file \o <<>> = entries /\ file \in Seq(Names)
        BY <2>2 DEF IInv, Types, Unwritten, Idle
      <3>2. file = entries
        BY <3>1
      <3>3. QED
        BY <2>2, <3>2 DEF Idle, HiddenNow
    <2>3. QED
      BY <2>1, <2>2 DEF Create
  <1>3. QED
    BY <1>1, <1>2 DEF Create, Abstract!Restart

\* Reading the first line forgets the others.
LEMMA LoadLineLoses == IInv /\ LoadLine => Abstract!Restart
  <1> SUFFICES ASSUME IInv, LoadLine
               PROVE  Abstract!Restart
    OBVIOUS
  <1>1. /\ pc = "load" /\ pc' = "load" /\ file' = <<>>
        /\ entries' = <<file[1]>> /\ file # <<>> /\ file \in Seq(Names)
    BY LoadLineFirst DEF IInv, Types, LoadLine, StoreList, Truncated
  <1>2. HiddenNow' = {file[1]}
    BY <1>1 DEF HiddenNow, Range
  <1>3. file[1] \in Range(file)
    BY <1>1 DEF Range
  <1>4. QED
    BY <1>1, <1>2, <1>3 DEF HiddenNow, Abstract!Restart

\* At the end of load the file and the list are the same.
LEMMA LoadEndKeeps == IInv /\ LoadEnd => Abstract!Restart
  <1> SUFFICES ASSUME IInv, LoadEnd
               PROVE  Abstract!Restart
    OBVIOUS
  <1>1. pc = "load" /\ pc' = "serve" /\ entries' = entries /\ file' = file
    BY DEF LoadEnd
  <1>2. HiddenNow' \subseteq HiddenNow
    BY <1>1 DEF HiddenNow
  <1>3. QED
    BY <1>1, <1>2 DEF Abstract!Restart

\* Writing a line, while the daemon serves or loads, changes nothing of what
\* is hidden: the line is in the list.
LEMMA WriteLineKeeps == IInv /\ WriteLine => UNCHANGED <<HiddenNow, pc = "serve">>
  <1> SUFFICES ASSUME IInv, WriteLine
               PROVE  UNCHANGED <<HiddenNow, pc = "serve">>
    OBVIOUS
  <1>1. pc' = pc /\ entries' = entries /\ pc \in {"serve", "load"}
    BY DEF WriteLine, IInv, Types
  <1>2. CASE pc = "serve"
    BY <1>1, <1>2 DEF HiddenNow
  <1>3. CASE pc = "load"
    <2>1. /\ file \in Seq(Names) /\ out \in Seq(Names) /\ out # <<>>
          /\ file \o out = entries
      BY <1>3 DEF IInv, Types, Unwritten, WriteLine
    <2>2. /\ file' \in Seq(Names) /\ out' \in Seq(Names)
          /\ file' \o out' = entries
      BY <2>1, MoveHead DEF WriteLine
    <2>3. Range(file) \subseteq Range(entries) /\ Range(file') \subseteq Range(entries)
      BY <2>1, <2>2, RangeOfPart
    <2>4. HiddenNow = Range(entries) /\ HiddenNow' = Range(entries)
      BY <1>1, <1>3, <2>3 DEF HiddenNow
    <2>5. QED
      BY <1>1, <2>4
  <1>4. QED
    BY <1>1, <1>2, <1>3

\* The system call on rw_tmp hides and shows nothing: setVisible follows.
LEMMA RequestKeeps == Request => UNCHANGED <<HiddenNow, pc = "serve">>
  BY DEF Request, Make, Remove, Rename, Begin, HiddenNow

\* Every step is a step of HiddenNames or changes nothing of it.
LEMMA NextAbstract ==
    IInv /\ [Next]_vars => [Abstract!Next]_<<HiddenNow, pc = "serve">>
  <1> SUFFICES ASSUME IInv, [Next]_vars
               PROVE  [Abstract!Next]_<<HiddenNow, pc = "serve">>
    OBVIOUS
  <1>1. CASE UNCHANGED vars
    BY <1>1 DEF vars, HiddenNow
  <1>2. CASE Request
    BY <1>2, RequestKeeps
  <1>3. CASE SetVisibleStep
    BY <1>3, OneCallHides DEF Abstract!Next
  <1>4. CASE WriteLine
    BY <1>4, WriteLineKeeps
  <1>5. CASE LoadLine
    BY <1>5, LoadLineLoses DEF Abstract!Next
  <1>6. CASE LoadEnd
    BY <1>6, LoadEndKeeps DEF Abstract!Next
  <1>7. CASE Create
    BY <1>7, CreateLoses DEF Abstract!Next
  <1>8. CASE Stop
    BY <1>8, StopLoses DEF Abstract!Next
  <1>9. QED
    BY <1>1, <1>2, <1>3, <1>4, <1>5, <1>6, <1>7, <1>8 DEF Next, Daemon

\* .whiteout, with a daemon that stops between any two system calls and reads
\* its own truncated file, implements a set of names that only setVisible
\* adds to.
THEOREM Implements == Spec => HidesOnlyOnRequest
  BY InitInv, NextInv, InitAbstract, NextAbstract, PTL
     DEF Spec, HidesOnlyOnRequest, Abstract!Spec

----------------------------------------------------------------------------
(***************************************************************************)
(* What a request that is cut short can make vanish.                       *)
(***************************************************************************)

\* The calls a request has still to make are for the names it is about.
CallsAbout == \A i \in 1 .. Len(todo) : todo[i].name \in about

\* What follows the first call of a list.
LEMMA AfterFirst ==
    ASSUME NEW S, NEW s \in Seq(S), s # <<>>
    PROVE  /\ Head(s) = s[1] /\ 1 \in 1 .. Len(s)
           /\ \A i \in 1 .. Len(Tail(s)) : i + 1 \in 1 .. Len(s) /\ Tail(s)[i] = s[i + 1]
  OBVIOUS

\* A request calls setVisible for its own names.
LEMMA RequestAbout == Request => CallsAbout'
  <1> SUFFICES ASSUME NEW p \in Names, NEW q \in Names, Make(p) \/ Remove(p) \/ Rename(p, q)
               PROVE  CallsAbout'
    BY DEF Request
  <1>1. CASE Make(p)
    BY <1>1 DEF Make, Begin, Call, CallsAbout
  <1>2. CASE Remove(p)
    BY <1>2 DEF Remove, Begin, Call, CallsAbout
  <1>3. CASE Rename(p, q)
    BY <1>3 DEF Rename, Begin, Call, CallsAbout
  <1>4. QED
    BY <1>1, <1>2, <1>3

\* Every step leaves only calls for the names of the request.
LEMMA NextAbout == IInv /\ CallsAbout /\ [Next]_vars => CallsAbout'
  <1> SUFFICES ASSUME IInv, CallsAbout, [Next]_vars
               PROVE  CallsAbout'
    OBVIOUS
  <1>1. CASE Request
    BY <1>1, RequestAbout
  <1>2. CASE SetVisibleStep
    <2>1. todo \in Seq([name : Names, visible : BOOLEAN]) /\ todo # <<>>
      BY <1>2 DEF IInv, Types, SetVisibleStep
    <2>2. todo' = Tail(todo) /\ about' = about
      BY <1>2 DEF SetVisibleStep
    <2>3. QED
      BY <2>1, <2>2, AfterFirst DEF CallsAbout
  <1>3. CASE Create \/ Stop
    BY <1>3 DEF Create, Stop, CallsAbout
  <1>4. CASE WriteLine \/ LoadLine \/ LoadEnd \/ UNCHANGED vars
    BY <1>4 DEF WriteLine, LoadLine, LoadEnd, vars, CallsAbout
  <1>5. QED
    BY <1>1, <1>2, <1>3, <1>4 DEF Next, Daemon

\* A request takes from rw_tmp no name but its own, and hides none yet.
LEMMA RequestTakes ==
    Request => rw \ rw' \subseteq about' /\ HiddenNow' \subseteq HiddenNow
  <1> SUFFICES ASSUME Request
               PROVE  rw \ rw' \subseteq about' /\ HiddenNow' \subseteq HiddenNow
    OBVIOUS
  <1>1. rw \ rw' \subseteq about'
    BY DEF Request, Make, Remove, Rename, Begin
  <1>2. QED
    BY <1>1, RequestKeeps

\* One call of setVisible hides no name but one of the request.
LEMMA CallHides ==
    IInv /\ CallsAbout /\ SetVisibleStep => HiddenNow' \subseteq HiddenNow \cup about
  <1> SUFFICES ASSUME IInv, CallsAbout, SetVisibleStep
               PROVE  HiddenNow' \subseteq HiddenNow \cup about
    OBVIOUS
  <1>1. todo \in Seq([name : Names, visible : BOOLEAN]) /\ todo # <<>>
    BY DEF IInv, Types, SetVisibleStep
  <1>2. PICK c \in [name : Names, visible : BOOLEAN] : c = Head(todo)
    BY <1>1, HeadAndTail, Zenon
  <1>3. c.name \in about /\ c.name \in Names /\ c.visible \in BOOLEAN
    BY <1>1, <1>2, AfterFirst DEF CallsAbout
  <1>4. /\ entries \in Seq(Names) /\ Distinct(entries)
        /\ entries' = ListAfter(c) /\ pc = "serve" /\ pc' = "serve"
    BY <1>2 DEF IInv, Types, Unwritten, SetVisibleStep, StoreList
  <1>5. \/ Range(ListAfter(c)) = Range(entries) \ {c.name}
        \/ Range(ListAfter(c)) = Range(entries) \cup {c.name}
    BY <1>3, <1>4, OneName DEF ListAfter
  <1>6. HiddenNow = Range(entries) /\ HiddenNow' = Range(ListAfter(c))
    BY <1>4 DEF HiddenNow
  <1>7. QED
    BY <1>3, <1>5, <1>6

\* No other step touches rw_tmp or hides a name.
LEMMA OthersHideNothing ==
    ASSUME IInv,
           WriteLine \/ LoadLine \/ LoadEnd \/ Create \/ Stop \/ UNCHANGED vars
    PROVE  rw' = rw /\ HiddenNow' \subseteq HiddenNow
  <1>1. rw' = rw
    BY DEF WriteLine, LoadLine, LoadEnd, Create, Stop, vars
  <1>2. HiddenNow' \subseteq HiddenNow
    <2>1. CASE WriteLine
      BY <2>1, WriteLineKeeps
    <2>2. CASE LoadLine \/ LoadEnd \/ Create \/ Stop
      BY <2>2, LoadLineLoses, LoadEndKeeps, CreateLoses, StopLoses DEF Abstract!Restart
    <2>3. CASE UNCHANGED vars
      BY <2>3 DEF vars, HiddenNow
    <2>4. QED
      BY <2>1, <2>2, <2>3
  <1>3. QED
    BY <1>1, <1>2

\* A file that was shown vanishes only by a request for its name: no stop
\* between two system calls of Whiteout::store, and no list that
\* Whiteout::load reads back, hides another.
THEOREM VanishOnRequest == Spec => OnlyRequestVanishes
  <1>1. Init => CallsAbout
    BY DEF Init, CallsAbout
  <1>2. IInv /\ CallsAbout /\ [Next]_vars => [Shown \ Shown' \subseteq about \cup about']_vars
    <2> SUFFICES ASSUME IInv, CallsAbout, [Next]_vars
                 PROVE  Shown \ Shown' \subseteq about \cup about'
      OBVIOUS
    <2>1. /\ rw \ rw' \subseteq about'
          /\ HiddenNow' \subseteq HiddenNow \cup about
      <3>1. CASE Request
        BY <3>1, RequestTakes
      <3>2. CASE SetVisibleStep
        BY <3>2, CallHides DEF SetVisibleStep
      <3>3. CASE WriteLine \/ LoadLine \/ LoadEnd \/ Create \/ Stop \/ UNCHANGED vars
        BY <3>3, OthersHideNothing
      <3>4. QED
        BY <3>1, <3>2, <3>3 DEF Next, Daemon
    <2>2. QED
      BY <2>1 DEF Shown
  <1>3. QED
    BY InitInv, NextInv, <1>1, NextAbout, <1>2, PTL DEF Spec, OnlyRequestVanishes
=============================================================================
