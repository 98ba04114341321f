--------------------------- MODULE ChannelProofs ---------------------------
(***************************************************************************)
(* Proofs about one connection, for any requests, buffer and replies: the  *)
(* kernel gets the reply to its request and no other, and handlers run on  *)
(* whole requests, however the stream is cut, up to the one that the       *)
(* kernel closed on.                                                       *)
(***************************************************************************)
EXTENDS Channel, SequenceTheorems, TLAPS

----------------------------------------------------------------------------
(***************************************************************************)
(* The invariant.                                                          *)
(***************************************************************************)
TypeInv ==
    /\ log \in Seq(Requests) /\ kernel \in {"idle", "sending", "waiting", "closed"}
    /\ written \in Nat /\ offset \in Nat
    /\ toDaemon \in Seq([of : Nat, no : Nat]) /\ toKernel \in Seq([of : Nat, len : Nat])
    /\ pc \in {"header", "data", "handle", "send", "leave", "gone"}
    /\ hdr \in [type : Types, len : Nat, typeOf : Nat, lenOf : Nat]
    /\ buffer \in [1 .. MaxData -> Nat]
    /\ ran \in Seq([type : Nat, len : Nat, data : Seq(Nat)])

\* The units of the last request, and how many the thread has taken.
Total == Len(Fields) + log[Current].len
Taken == written - Len(toDaemon)

\* The socket holds what the kernel has written and the thread has not taken.
StreamInv ==
    /\ Taken >= 0
    /\ \A k \in 1 .. Len(toDaemon) : toDaemon[k] = [of |-> Current, no |-> Taken + k]
    /\ Current = 0 => kernel \in {"idle", "closed"} /\ written = 0
    /\ Current > 0 => written <= Total
    /\ kernel = "sending" => written < Total
    /\ kernel = "waiting" => written = Total
    /\ kernel # "waiting" => toKernel = <<>>

\* All handlers so far ran on whole requests, in order.
AllWhole ==
    \A i \in 1 .. Len(ran) :
        /\ ran[i].type \in 1 .. Current /\ WholeRequest(ran[i], ran[i].type)
        /\ \A j \in 1 .. (i - 1) : ran[j].type < ran[i].type

\* The last request has not been handled.
Fresh == Current > 0 /\ AllWhole /\ \A i \in 1 .. Len(ran) : ran[i].type < Current

\* The header, as far as it has been read: no reply's header runs a handler.
HdrSoFar ==
    /\ offset < FieldNo("type") => hdr.type = "illegal"
    /\ offset >= FieldNo("type") => hdr.type = log[Current].type /\ hdr.typeOf = Current
    /\ offset >= FieldNo("datalen") => hdr.len = log[Current].len /\ hdr.lenOf = Current

HdrWhole ==
    /\ hdr = [type |-> log[Current].type, len |-> log[Current].len,
              typeOf |-> Current, lenOf |-> Current]
    /\ hdr.len <= MaxData

\* Nothing more comes.
AtEnd == kernel = "closed" /\ toDaemon = <<>>

\* Where the thread is: in the header of a request or between two of them, in
\* its data or at the end of a header that was not whole, before the handler
\* with all of the request or with what there was of it, or in the reply.
InHeader ==
    /\ pc = "header" /\ kernel # "idle" /\ toKernel = <<>>
    /\ offset = Taken /\ offset < Len(Fields) /\ Fresh /\ HdrSoFar
Resting ==
    /\ pc = "header" /\ offset = 0 /\ toDaemon = <<>> /\ hdr.type = "illegal"
    /\ kernel # "sending"
    /\ kernel # "closed" => AllWhole
    /\ kernel = "waiting" => ReplyWhole /\ \A k \in 1 .. Len(toKernel) : toKernel[k].of = Current
InData ==
    /\ pc = "data" /\ kernel # "idle" /\ toKernel = <<>>
    /\ Taken = Len(Fields) + offset /\ offset < hdr.len /\ Fresh /\ HdrWhole
    /\ \A k \in 1 .. offset : buffer[k] = Current
NoData == pc = "data" /\ offset = 0 /\ AtEnd
HasAll ==
    /\ pc = "handle" /\ kernel # "idle" /\ toKernel = <<>> /\ toDaemon = <<>> /\ written = Total
    /\ Fresh /\ HdrWhole /\ \A k \in 1 .. hdr.len : buffer[k] = Current
HasPart ==
    /\ pc = "handle" /\ AtEnd /\ Fresh /\ hdr.len <= MaxData
    /\ hdr.type = "real" => hdr.typeOf = Current
Replying ==
    /\ pc = "send" /\ toDaemon = <<>> /\ hdr.type = "illegal"
    /\ kernel \in {"waiting", "closed"} /\ (kernel = "waiting" => AllWhole)
    /\ kernel = "waiting" =>
           /\ hdr.typeOf = Current /\ Len(toKernel) = offset /\ offset < Len(Fields) + hdr.len
           /\ \A k \in 1 .. Len(toKernel) : toKernel[k] = [of |-> Current, len |-> hdr.len]
Over == pc \in {"leave", "gone"} /\ kernel # "idle" /\ toKernel = <<>> /\ (kernel = "closed" \/ AllWhole)

Phase == InHeader \/ Resting \/ InData \/ NoData \/ HasAll \/ HasPart \/ Replying \/ Over

ChannelInv == TypeInv /\ StreamInv /\ WholeOrLast /\ Phase

----------------------------------------------------------------------------
(***************************************************************************)
(* The facts that the steps need: the fields of a header, the types in the *)
(* invariant, and that calls on whole requests stay so as the log grows.   *)
(***************************************************************************)

\* The header is four units; the type is the second, the length the third.
LEMMA FieldFacts ==
    Len(Fields) = 4 /\ FieldNo("type") = 2 /\ FieldNo("datalen") = 3
<1>1. /\ Len(Fields) = 4 /\ Fields[1] = "version" /\ Fields[2] = "type"
      /\ Fields[3] = "datalen" /\ Fields[4] = "pid"
  BY DEF Fields
<1>2. 1 .. Len(Fields) = {1, 2, 3, 4}
  BY <1>1, SMT
<1>3. \A i \in 1 .. Len(Fields) : (Fields[i] = "type") <=> (i = 2)
  BY <1>1, <1>2
<1>4. \A i \in 1 .. Len(Fields) : (Fields[i] = "datalen") <=> (i = 3)
  BY <1>1, <1>2
<1>5. FieldNo("type") = 2
  BY <1>2, <1>3 DEF FieldNo
<1>6. FieldNo("datalen") = 3
  BY <1>2, <1>4 DEF FieldNo
<1> QED
  BY <1>1, <1>5, <1>6

\* A request of the log has a type and a length.
LEMMA LogFacts ==
    ASSUME TypeInv, Current > 0
    PROVE  Current \in Nat /\ log[Current].type \in Types /\ log[Current].len \in Nat
<1>1. Current \in Nat
  BY LenProperties DEF TypeInv, Current
<1>2. log[Current] \in Requests
  BY <1>1, ElementOfSeq DEF TypeInv, Current
<1> QED
  BY <1>1, <1>2, ChannelAssumption

\* Handlers that ran on whole requests did so in order.
LEMMA WholeIsWhole == AllWhole => WholeOrLast
  BY DEF AllWhole, WholeOrLast

\* The empty streams of a new connection.
LEMMA InitInv == Init => ChannelInv
<1> SUFFICES ASSUME Init PROVE ChannelInv
  OBVIOUS
<1>1. /\ log \in Seq(Requests) /\ toDaemon \in Seq([of : Nat, no : Nat])
      /\ toKernel \in Seq([of : Nat, len : Nat])
      /\ ran \in Seq([type : Nat, len : Nat, data : Seq(Nat)])
      /\ Len(log) = 0 /\ Len(toDaemon) = 0 /\ Len(ran) = 0
  BY EmptySeq DEF Init
<1>2. TypeInv
  BY <1>1 DEF Init, TypeInv, Types
<1>3. StreamInv
  BY <1>1, SMT DEF Init, StreamInv, Current, Taken
<1>4. AllWhole
  BY <1>1, SMT DEF AllWhole
<1>5. Resting
  BY <1>4 DEF Init, Resting
<1> QED
  BY <1>2, <1>3, <1>4, <1>5, WholeIsWhole DEF ChannelInv, Phase

----------------------------------------------------------------------------
(***************************************************************************)
(* The kernel's steps.                                                     *)
(***************************************************************************)

\* Calls on whole requests remain so when the kernel adds a request, which
\* none of them is of.
LEMMA AllWholeGrows ==
    ASSUME TypeInv, AllWhole, ran' = ran, NEW r \in Requests, log' = Append(log, r)
    PROVE  AllWhole' /\ Fresh'
<1>1. /\ log' \in Seq(Requests) /\ Len(log') = Len(log) + 1 /\ Len(log) \in Nat
      /\ \A i \in 1 .. Len(log) : log'[i] = log[i]
  BY AppendProperties, LenProperties DEF TypeInv
<1>2. ASSUME NEW i \in 1 .. Len(ran)
      PROVE  /\ ran[i].type \in 1 .. Len(log') /\ ran[i].type < Len(log')
             /\ WholeRequest(ran[i], ran[i].type)'
             /\ \A j \in 1 .. (i - 1) : ran[j].type < ran[i].type
  <2>1. ran[i].type \in 1 .. Len(log) /\ WholeRequest(ran[i], ran[i].type)
    BY <1>2 DEF AllWhole, Current
  <2>2. log'[ran[i].type] = log[ran[i].type]
    BY <1>1, <2>1
  <2>3. WholeRequest(ran[i], ran[i].type)'
    BY <2>1, <2>2 DEF WholeRequest
  <2>4. \A j \in 1 .. (i - 1) : ran[j].type < ran[i].type
    BY <1>2 DEF AllWhole
  <2> QED
    BY <1>1, <2>1, <2>3, <2>4, SMT
<1>3. AllWhole'
  BY <1>2 DEF AllWhole, Current, WholeRequest
<1> QED
  BY <1>1, <1>2, <1>3, SMT DEF Fresh, Current

\* The kernel asks only when the last reply has been read, so that the thread
\* rests between two requests.
LEMMA AskInv == ChannelInv /\ Ask => ChannelInv'
<1> SUFFICES ASSUME ChannelInv, Ask PROVE ChannelInv'
  OBVIOUS
<1>1. Resting
  BY DEF ChannelInv, Phase, Ask, InHeader, InData, NoData, AtEnd, HasAll, HasPart, Replying, Over
<1>2. TypeInv /\ AllWhole /\ toKernel = <<>>
  BY <1>1 DEF ChannelInv, Ask, Resting, StreamInv
<1>3. PICK r \in Requests : log' = Append(log, r)
  BY DEF Ask
<1>4. AllWhole' /\ Fresh'
  BY <1>2, <1>3, AllWholeGrows DEF Ask, threadVars
<1>5. /\ log' \in Seq(Requests) /\ Len(log) \in Nat /\ Len(log') = Len(log) + 1
      /\ log'[Len(log')] = r
  BY <1>2, <1>3, AppendProperties, LenProperties DEF TypeInv
<1>6. TypeInv'
  BY <1>2, <1>5 DEF TypeInv, Ask, threadVars
<1>7. toDaemon' = <<>> /\ Len(toDaemon') = 0 /\ written' = 0 /\ toKernel' = <<>> /\ offset' = 0
  BY <1>1, <1>2 DEF Ask, threadVars, Resting
<1>8. r.len \in Nat
  BY ChannelAssumption
<1>9. StreamInv'
  BY <1>5, <1>7, <1>8, FieldFacts DEF Ask, StreamInv, Current, Taken, Total
<1>10. InHeader'
  <2>1. HdrSoFar'
    BY <1>1, <1>7, FieldFacts DEF Ask, threadVars, Resting, HdrSoFar
  <2>2. offset' = Taken' /\ offset' < Len(Fields)
    <3>1. Taken' = 0 - 0
      BY <1>7 DEF Taken
    <3> QED
      BY <1>7, <3>1, FieldFacts, SMT
  <2> QED
    BY <1>1, <1>4, <1>7, <2>1, <2>2 DEF Ask, threadVars, Resting, InHeader
<1>11. WholeOrLast'
  BY <1>4 DEF AllWhole, WholeOrLast
<1> QED
  BY <1>6, <1>9, <1>10, <1>11 DEF ChannelInv, Phase

\* While nothing is asked and no handler runs, what is known of the calls
\* stays true: the kernel may close its end, and does not open it again.
LEMMA CallsKept ==
    ASSUME UNCHANGED <<log, ran>>
    PROVE  /\ Current' = Current
           /\ AllWhole => AllWhole'
           /\ Fresh => Fresh'
           /\ WholeOrLast /\ (kernel = "closed" => kernel' = "closed") => WholeOrLast'
  BY DEF Current, AllWhole, Fresh, WholeOrLast, WholeRequest

\* The kernel writes while the thread is in the header or the data of the
\* request, or has left.
LEMMA WriteRequestInv == ChannelInv /\ WriteRequest => ChannelInv'
<1> SUFFICES ASSUME ChannelInv, WriteRequest PROVE ChannelInv'
  OBVIOUS
<1>1. /\ TypeInv /\ StreamInv /\ WholeOrLast /\ kernel = "sending" /\ toKernel = <<>>
      /\ Current > 0
  <2>1. TypeInv /\ StreamInv /\ WholeOrLast /\ kernel = "sending"
    BY DEF ChannelInv, WriteRequest
  <2>2. Current \in Nat /\ Current # 0
    BY <2>1, LenProperties DEF StreamInv, TypeInv, Current
  <2>3. toKernel = <<>>
    BY <2>1 DEF StreamInv
  <2> QED
    BY <2>1, <2>2, <2>3, SMT
<1>2. /\ Current \in Nat /\ log[Current].len \in Nat /\ Total \in Nat /\ written \in Nat
      /\ Current' = Current /\ Total' = Total
  <2>1. Current \in Nat /\ log[Current].len \in Nat
    BY <1>1, LogFacts
  <2>2. Total = 4 + log[Current].len
    BY FieldFacts DEF Total
  <2>3. written \in Nat
    BY <1>1 DEF TypeInv
  <2>4. Current' = Current /\ Total' = Total
    BY DEF WriteRequest, Current, Total
  <2> QED
    BY <2>1, <2>2, <2>3, <2>4
<1>3. /\ written' = written + 1 /\ written < Total
      /\ kernel' = IF written + 1 = Total THEN "waiting" ELSE kernel
  BY <1>1, <1>2 DEF WriteRequest, StreamInv, Total
<1>4. /\ toDaemon' \in Seq([of : Nat, no : Nat]) /\ Len(toDaemon') = Len(toDaemon) + 1
      /\ \A k \in 1 .. Len(toDaemon) : toDaemon'[k] = toDaemon[k]
      /\ toDaemon'[Len(toDaemon) + 1] = [of |-> Current, no |-> written + 1]
      /\ Len(toDaemon) \in Nat
  <2>1. toDaemon \in Seq([of : Nat, no : Nat]) /\ [of |-> Current, no |-> written + 1] \in [of : Nat, no : Nat]
    BY <1>1, <1>2 DEF TypeInv
  <2> QED
    BY <2>1, AppendProperties, LenProperties DEF WriteRequest
<1>5. TypeInv'
  BY <1>1, <1>2, <1>3, <1>4 DEF TypeInv, WriteRequest, threadVars
<1>6. Taken' = Taken /\ Taken \in Int
  BY <1>2, <1>3, <1>4, SMT DEF Taken
<1>7. StreamInv'
  <2>1. ASSUME NEW k \in 1 .. Len(toDaemon')
        PROVE  toDaemon'[k] = [of |-> Current, no |-> Taken + k]
    <3>1. CASE k \in 1 .. Len(toDaemon)
      BY <1>1, <1>4, <3>1 DEF StreamInv
    <3>2. CASE k = Len(toDaemon) + 1
      <4>1. Taken + k = written + 1
        BY <1>2, <1>4, <3>2 DEF Taken
      <4> QED
        BY <1>4, <3>2, <4>1
    <3> QED
      BY <1>4, <2>1, <3>1, <3>2, SMT
  <2>2. /\ Current' > 0 => written' <= Total'
        /\ kernel' = "sending" => written' < Total'
        /\ kernel' = "waiting" => written' = Total'
    BY <1>1, <1>2, <1>3, SMT
  <2>3. toKernel' = <<>> /\ Current' # 0 /\ Taken' >= 0
    BY <1>1, <1>2, <1>6, SMT DEF WriteRequest, StreamInv
  <2> QED
    BY <1>2, <1>6, <2>1, <2>2, <2>3 DEF StreamInv
<1>8. /\ pc' = pc /\ offset' = offset /\ hdr' = hdr /\ buffer' = buffer /\ ran' = ran /\ log' = log
      /\ toKernel' = toKernel /\ kernel' # "idle" /\ kernel' # "closed"
  BY <1>1, <1>3 DEF WriteRequest, threadVars
<1>9. WholeOrLast'
  BY <1>1, <1>8, CallsKept
<1>10. CASE InHeader
  <2>1. Fresh'
    BY <1>8, <1>10, CallsKept DEF InHeader
  <2>2. InHeader'
    BY <1>2, <1>6, <1>8, <1>10, <2>1 DEF InHeader, HdrSoFar
  <2> QED
    BY <1>5, <1>7, <1>9, <2>2 DEF ChannelInv, Phase
<1>11. CASE InData
  <2>1. Fresh'
    BY <1>8, <1>11, CallsKept DEF InData
  <2>2. InData'
    BY <1>2, <1>6, <1>8, <1>11, <2>1 DEF InData, HdrWhole
  <2> QED
    BY <1>5, <1>7, <1>9, <2>2 DEF ChannelInv, Phase
<1>12. CASE Over
  <2>1. Over'
    BY <1>1, <1>8, <1>12, CallsKept DEF Over
  <2> QED
    BY <1>5, <1>7, <1>9, <2>1 DEF ChannelInv, Phase
<1>13. InHeader \/ InData \/ Over
  <2>1. ~HasAll
    BY <1>2, <1>3 DEF HasAll
  <2> QED
    BY <1>1, <2>1 DEF ChannelInv, Phase, Resting, NoData, AtEnd, HasPart, Replying
<1> QED
  BY <1>10, <1>11, <1>12, <1>13

\* The kernel reads a whole reply, after which the thread rests.
LEMMA ReadReplyInv == ChannelInv /\ ReadReply => ChannelInv'
<1> SUFFICES ASSUME ChannelInv, ReadReply PROVE ChannelInv'
  OBVIOUS
<1>1. /\ TypeInv /\ StreamInv /\ WholeOrLast /\ Phase /\ kernel = "waiting" /\ ReplyWhole
      /\ kernel' = "idle" /\ toKernel' = <<>> /\ Len(toKernel) \in Nat /\ toKernel # <<>>
      /\ UNCHANGED <<log, written, toDaemon, pc, offset, hdr, buffer, ran>>
  BY LenProperties DEF ChannelInv, ReadReply, threadVars, TypeInv, ReplyWhole
<1>2. Resting
  <2>1. ~Replying
    <3> SUFFICES ASSUME Replying PROVE FALSE
      OBVIOUS
    <3>1. Len(toKernel) # 0
      BY <1>1, EmptySeq DEF TypeInv
    <3>2. 1 \in 1 .. Len(toKernel)
      BY <1>1, <3>1
    <3>3. toKernel[1] = [of |-> Current, len |-> hdr.len]
      BY <1>1, <3>2 DEF Replying
    <3>4. Head(toKernel).len = hdr.len
      BY <3>3
    <3> QED
      BY <1>1, <3>4, FieldFacts DEF Replying, ReplyWhole, TypeInv
  <2> QED
    BY <1>1, <2>1 DEF Phase, InHeader, InData, NoData, AtEnd, HasAll, HasPart, Over
<1>3. TypeInv'
  <2>1. <<>> \in Seq([of : Nat, len : Nat])
    BY EmptySeq
  <2> QED
    BY <1>1, <2>1 DEF TypeInv
<1>4. StreamInv'
  BY <1>1 DEF StreamInv, Current, Taken, Total
<1>5. Resting' /\ WholeOrLast'
  BY <1>1, <1>2, CallsKept DEF Resting
<1> QED
  BY <1>3, <1>4, <1>5 DEF ChannelInv, Phase

\* The kernel closes its end, wherever the thread is.
LEMMA CloseInv == ChannelInv /\ Close => ChannelInv'
<1> SUFFICES ASSUME ChannelInv, Close PROVE ChannelInv'
  OBVIOUS
<1>1. /\ TypeInv /\ StreamInv /\ WholeOrLast /\ Phase /\ kernel # "closed"
      /\ kernel' = "closed" /\ toKernel' = <<>>
      /\ UNCHANGED <<log, written, toDaemon, pc, offset, hdr, buffer, ran>>
  BY DEF ChannelInv, Close, threadVars
<1>2. TypeInv'
  <2>1. <<>> \in Seq([of : Nat, len : Nat])
    BY EmptySeq
  <2> QED
    BY <1>1, <2>1 DEF TypeInv
<1>3. StreamInv'
  BY <1>1 DEF StreamInv, Current, Taken, Total
<1>4. WholeOrLast' /\ (Fresh => Fresh') /\ Current' = Current /\ Taken' = Taken /\ Total' = Total
  BY <1>1, CallsKept DEF Taken, Total
<1>5. InHeader => InHeader'
  BY <1>1, <1>4 DEF InHeader, HdrSoFar
<1>6. Resting => Resting'
  BY <1>1 DEF Resting
<1>7. InData => InData'
  BY <1>1, <1>4 DEF InData, HdrWhole
<1>8. HasAll => HasAll'
  BY <1>1, <1>4 DEF HasAll, HdrWhole
<1>9. Replying => Replying'
  BY <1>1 DEF Replying
<1>10. Over => Over'
  BY <1>1 DEF Over
<1>11. ~NoData /\ ~HasPart
  BY <1>1 DEF NoData, HasPart, AtEnd
<1>12. Phase'
  BY <1>1, <1>5, <1>6, <1>7, <1>8, <1>9, <1>10, <1>11 DEF Phase
<1> QED
  BY <1>2, <1>3, <1>4, <1>12 DEF ChannelInv

----------------------------------------------------------------------------
(***************************************************************************)
(* The thread's steps.                                                     *)
(***************************************************************************)

\* The next unit in the socket is the one after those that were taken.
LEMMA NextUnit ==
    ASSUME TypeInv, StreamInv, toDaemon # <<>>, toDaemon' = Tail(toDaemon), UNCHANGED <<log, written>>
    PROVE  /\ Head(toDaemon) = [of |-> Current, no |-> Taken + 1]
           /\ toDaemon' \in Seq([of : Nat, no : Nat]) /\ Len(toDaemon') \in Nat
           /\ Taken \in Nat /\ Taken' = Taken + 1
           /\ \A k \in 1 .. Len(toDaemon') : toDaemon'[k] = [of |-> Current, no |-> Taken' + k]
           /\ Current > 0
<1>1. /\ Len(toDaemon) \in Nat /\ Len(toDaemon) > 0 /\ Len(toDaemon') = Len(toDaemon) - 1
      /\ toDaemon' \in Seq([of : Nat, no : Nat])
      /\ \A k \in 1 .. Len(toDaemon') : toDaemon'[k] = toDaemon[k + 1]
  <2>1. toDaemon \in Seq([of : Nat, no : Nat])
    BY DEF TypeInv
  <2>2. Len(toDaemon) \in Nat \ {0}
    BY <2>1, EmptySeq
  <2> QED
    BY <2>1, <2>2, HeadTailProperties, SMT
<1>0. Len(toDaemon') \in Nat
  BY <1>1
<1>2. written \in Nat /\ Taken \in Nat /\ Taken' = Taken + 1
  <2>1. written \in Nat /\ written' = written /\ Taken >= 0
    BY DEF TypeInv, StreamInv
  <2>2. Taken = written - Len(toDaemon) /\ Taken' = written - Len(toDaemon')
    BY <2>1 DEF Taken
  <2> QED
    BY <1>1, <2>1, <2>2, SMT
<1>3. Head(toDaemon) = [of |-> Current, no |-> Taken + 1]
  <2>1. 1 \in 1 .. Len(toDaemon)
    BY <1>1
  <2>2. toDaemon[1] = [of |-> Current, no |-> Taken + 1]
    BY <2>1 DEF StreamInv
  <2> QED
    BY <2>2
<1>4. ASSUME NEW k \in 1 .. Len(toDaemon')
      PROVE  toDaemon'[k] = [of |-> Current, no |-> Taken' + k]
  <2>1. k + 1 \in 1 .. Len(toDaemon) /\ Taken + (k + 1) = Taken' + k
    BY <1>1, <1>2, <1>4, SMT
  <2>2. toDaemon[k + 1] = [of |-> Current, no |-> Taken + (k + 1)]
    BY <2>1 DEF StreamInv
  <2> QED
    BY <1>1, <2>1, <2>2
<1>5. Current > 0
  <2>1. Current \in Nat
    BY LenProperties DEF TypeInv, Current
  <2>2. written > 0
    BY <1>1, <1>2, SMT DEF Taken
  <2>3. Current # 0
    BY <2>2 DEF StreamInv
  <2> QED
    BY <2>1, <2>3, SMT
<1> QED
  BY <1>0, <1>1, <1>2, <1>3, <1>4, <1>5, Zenon

\* Taking a unit keeps the stream: what is left follows what was taken.
LEMMA ReadStream ==
    ASSUME TypeInv, StreamInv, toDaemon # <<>>, toDaemon' = Tail(toDaemon),
           UNCHANGED <<log, kernel, written, toKernel>>
    PROVE  StreamInv'
<1>1. /\ Taken' >= 0
      /\ \A k \in 1 .. Len(toDaemon') : toDaemon'[k] = [of |-> Current, no |-> Taken' + k]
  BY NextUnit, SMT
<1>2. Current' = Current /\ Total' = Total
  BY DEF Current, Total
<1> QED
  BY <1>1, <1>2 DEF StreamInv

\* In the header a unit sets a field; the last one tells where to go.
LEMMA ReadHeaderInv == ChannelInv /\ Read /\ pc = "header" => ChannelInv'
<1> SUFFICES ASSUME ChannelInv, Read, pc = "header" PROVE ChannelInv'
  OBVIOUS
<1>1. /\ TypeInv /\ StreamInv /\ WholeOrLast /\ Phase /\ toDaemon # <<>>
      /\ toDaemon' = Tail(toDaemon) /\ hdr' = HdrWith(Head(toDaemon)) /\ buffer' = buffer
      /\ UNCHANGED <<log, kernel, written, toKernel, ran>>
  BY DEF ChannelInv, Read, kernelVars
<1>2. InHeader
  BY <1>1 DEF Phase, Resting, InData, NoData, HasAll, HasPart, Replying, Over, AtEnd
<1>3. /\ Head(toDaemon) = [of |-> Current, no |-> offset + 1] /\ Current > 0
      /\ Taken' = offset + 1 /\ offset \in 0 .. 3 /\ Len(toDaemon') \in Nat
      /\ toDaemon' \in Seq([of : Nat, no : Nat])
  BY <1>1, <1>2, NextUnit, FieldFacts DEF InHeader
<1>4. /\ Current \in Nat /\ log[Current].type \in Types /\ log[Current].len \in Nat
      /\ Current' = Current /\ Total' = Total /\ Total = 4 + log[Current].len
  <2>1. Current \in Nat /\ log[Current].type \in Types /\ log[Current].len \in Nat
    BY <1>1, <1>3, LogFacts
  <2> QED
    BY <1>1, <2>1, FieldFacts DEF Current, Total
<1>5. hdr \in [type : Types, len : Nat, typeOf : Nat, lenOf : Nat]
  BY <1>1 DEF TypeInv
<1>6. /\ offset = 1 => hdr' = [hdr EXCEPT !.type = log[Current].type, !.typeOf = Current]
      /\ offset = 2 => hdr' = [hdr EXCEPT !.len = log[Current].len, !.lenOf = Current]
      /\ offset \in {0, 3} => hdr' = hdr
  <2> DEFINE unit == Head(toDaemon)
  <2>1. unit.no = offset + 1 /\ unit.of = Current
    BY <1>3
  <2>2. hdr' = HdrWith(unit)
    BY <1>1
  <2> HIDE DEF unit
  <2>3. CASE offset = 1
    <3>1. unit.no = 2
      BY <2>1, <2>3
    <3> QED
      BY <2>1, <2>2, <2>3, <3>1, FieldFacts DEF HdrWith
  <2>4. CASE offset = 2
    <3>1. unit.no = 3
      BY <2>1, <2>4
    <3> QED
      BY <2>1, <2>2, <2>4, <3>1, FieldFacts DEF HdrWith
  <2>5. CASE offset \in {0, 3}
    <3>1. unit.no # 2 /\ unit.no # 3
      BY <2>1, <2>5
    <3> QED
      BY <2>2, <2>5, <3>1, FieldFacts DEF HdrWith
  <2> QED
    BY <2>3, <2>4, <2>5
<1>7. /\ hdr' \in [type : Types, len : Nat, typeOf : Nat, lenOf : Nat]
      /\ offset + 1 < 2 => hdr'.type = "illegal"
      /\ offset + 1 >= 2 => hdr'.type = log[Current].type /\ hdr'.typeOf = Current
      /\ offset + 1 >= 3 => hdr'.len = log[Current].len /\ hdr'.lenOf = Current
  <2>1. /\ offset < 2 => hdr.type = "illegal"
        /\ offset >= 2 => hdr.type = log[Current].type /\ hdr.typeOf = Current
        /\ offset >= 3 => hdr.len = log[Current].len /\ hdr.lenOf = Current
    BY <1>2, FieldFacts DEF InHeader, HdrSoFar
  <2>2. CASE offset = 0
    BY <1>5, <1>6, <2>1, <2>2
  <2>3. CASE offset = 1
    <3>1. hdr' = [type |-> log[Current].type, len |-> hdr.len, typeOf |-> Current, lenOf |-> hdr.lenOf]
      BY <1>5, <1>6, <2>3
    <3>2. hdr.len \in Nat /\ hdr.lenOf \in Nat
      BY <1>5
    <3>3. hdr' \in [type : Types, len : Nat, typeOf : Nat, lenOf : Nat]
      BY <1>4, <3>1, <3>2
    <3>4. hdr'.type = log[Current].type /\ hdr'.typeOf = Current
      BY <3>1
    <3> QED
      BY <2>3, <3>3, <3>4, SMT
  <2>4. CASE offset = 2
    <3>1. hdr' = [type |-> hdr.type, len |-> log[Current].len, typeOf |-> hdr.typeOf, lenOf |-> Current]
      BY <1>5, <1>6, <2>4
    <3>2. hdr.type = log[Current].type /\ hdr.typeOf = Current
      BY <2>1, <2>4
    <3>3. hdr' \in [type : Types, len : Nat, typeOf : Nat, lenOf : Nat]
      BY <1>4, <3>1, <3>2
    <3>4. /\ hdr'.type = log[Current].type /\ hdr'.typeOf = Current
          /\ hdr'.len = log[Current].len /\ hdr'.lenOf = Current
      BY <3>1, <3>2
    <3> QED
      BY <2>4, <3>3, <3>4, SMT
  <2>5. CASE offset = 3
    BY <1>5, <1>6, <2>1, <2>5
  <2> QED
    BY <1>3, <2>2, <2>3, <2>4, <2>5
<1>8. StreamInv' /\ WholeOrLast' /\ Fresh' /\ kernel' # "idle" /\ toKernel' = <<>>
  BY <1>1, <1>2, ReadStream, CallsKept DEF InHeader
<1>9. ASSUME pc' \in {"header", "data", "handle", "leave"}, offset' \in Nat PROVE TypeInv'
  BY <1>1, <1>3, <1>7, <1>9 DEF TypeInv
<1>10. CASE ~ReadAll(offset + 1)
  <2>1. pc' = "header" /\ offset' = offset + 1
    BY <1>10 DEF Read
  <2>2. offset + 1 < 4
    BY <1>3, <1>10, FieldFacts, SMT DEF ReadAll, Wanted
  <2>3. HdrSoFar'
    <3>1. log'[Current'] = log[Current]
      BY <1>1, <1>4
    <3> QED
      BY <1>4, <1>7, <2>1, <3>1, FieldFacts DEF HdrSoFar
  <2>4. InHeader'
    BY <1>3, <1>8, <2>1, <2>2, <2>3, FieldFacts DEF InHeader
  <2> QED
    BY <1>3, <1>8, <1>9, <2>1, <2>4 DEF ChannelInv, Phase
<1>11. CASE ReadAll(offset + 1)
  <2>1. offset = 3 /\ pc' = AfterRead(hdr') /\ offset' = 0
    <3>1. offset + 1 >= 4
      BY <1>11, FieldFacts DEF ReadAll, Wanted
    <3> QED
      BY <1>3, <1>11, <3>1, SMT DEF Read, Goto
  <2>2. /\ hdr'.type = log[Current].type /\ hdr'.typeOf = Current
        /\ hdr'.len = log[Current].len /\ hdr'.lenOf = Current
    BY <1>7, <2>1
  <2>3. hdr' = [type |-> log'[Current'].type, len |-> log'[Current'].len,
                typeOf |-> Current', lenOf |-> Current']
    BY <1>1, <1>4, <1>7, <2>2
  <2>4. Taken' = 4
    BY <1>3, <2>1
  <2>5. CASE hdr'.len = 0
    <3>1. pc' = "handle"
      BY <2>1, <2>5 DEF AfterRead
    <3>2. toDaemon' = <<>> /\ written' = Total'
      <4>1. written' <= 4 /\ Total' = 4 /\ written' \in Nat
        BY <1>1, <1>3, <1>4, <1>8, <2>2, <2>5 DEF StreamInv, TypeInv
      <4>2. Len(toDaemon') = 0 /\ written' = 4
        BY <1>3, <2>4, <4>1, SMT DEF Taken
      <4> QED
        BY <1>3, <4>1, <4>2, EmptySeq
    <3>3. HdrWhole' /\ \A k \in 1 .. hdr'.len : buffer'[k] = Current'
      BY <2>3, <2>5, ChannelAssumption DEF HdrWhole
    <3>4. HasAll'
      BY <1>8, <3>1, <3>2, <3>3 DEF HasAll
    <3> QED
      BY <1>8, <1>9, <2>1, <3>1, <3>4 DEF ChannelInv, Phase
  <2>6. CASE hdr'.len # 0 /\ hdr'.len > MaxData
    <3>1. pc' = "leave"
      BY <1>1, <2>1, <2>6 DEF AfterRead
    <3>2. Over'
      BY <1>8, <3>1 DEF Over, Fresh
    <3> QED
      BY <1>8, <1>9, <2>1, <3>1, <3>2 DEF ChannelInv, Phase
  <2>7. CASE hdr'.len # 0 /\ ~(hdr'.len > MaxData)
    <3>1. pc' = "data"
      BY <2>1, <2>7 DEF AfterRead
    <3>2. hdr'.len \in Nat /\ 0 < hdr'.len /\ hdr'.len <= MaxData
      BY <1>7, <2>7, ChannelAssumption, SMT
    <3>3. Taken' = Len(Fields) + offset' /\ offset' < hdr'.len
      BY <2>1, <2>4, <3>2, FieldFacts
    <3>4. HdrWhole'
      BY <2>3, <3>2 DEF HdrWhole
    <3>5. \A k \in 1 .. offset' : buffer'[k] = Current'
      BY <2>1
    <3>6. InData'
      BY <1>8, <3>1, <3>3, <3>4, <3>5 DEF InData
    <3> QED
      BY <1>8, <1>9, <2>1, <3>1, <3>6 DEF ChannelInv, Phase
  <2> QED
    BY <2>5, <2>6, <2>7
<1> QED
  BY <1>10, <1>11

\* In the data a unit lands in the buffer; the last one leads to the handler.
LEMMA ReadDataInv == ChannelInv /\ Read /\ pc = "data" => ChannelInv'
<1> SUFFICES ASSUME ChannelInv, Read, pc = "data" PROVE ChannelInv'
  OBVIOUS
<1>1. /\ TypeInv /\ StreamInv /\ WholeOrLast /\ Phase /\ toDaemon # <<>>
      /\ toDaemon' = Tail(toDaemon) /\ hdr' = hdr
      /\ buffer' = [buffer EXCEPT ![offset + 1] = Head(toDaemon).of]
      /\ UNCHANGED <<log, kernel, written, toKernel, ran>>
  BY DEF ChannelInv, Read, kernelVars
<1>2. InData
  BY <1>1 DEF Phase, InHeader, Resting, NoData, HasAll, HasPart, Replying, Over, AtEnd
<1>3. /\ Head(toDaemon) = [of |-> Current, no |-> Taken + 1] /\ Current > 0
      /\ Taken' = Len(Fields) + (offset + 1) /\ offset \in Nat /\ Len(toDaemon') \in Nat
      /\ toDaemon' \in Seq([of : Nat, no : Nat])
  <2>1. Taken = Len(Fields) + offset /\ offset \in Nat
    BY <1>1, <1>2 DEF InData, TypeInv
  <2>2. Taken' = Taken + 1 /\ Taken \in Nat
    BY <1>1, NextUnit
  <2>3. Taken' = Len(Fields) + (offset + 1)
    BY <2>1, <2>2, FieldFacts, SMT
  <2> QED
    BY <1>1, <2>1, <2>3, NextUnit
<1>4. Current \in Nat /\ Current' = Current /\ Total' = Total /\ log'[Current'] = log[Current]
  BY <1>1, <1>3, LogFacts DEF Current, Total
<1>5. /\ hdr.len = log[Current].len /\ hdr.len \in Nat /\ hdr.len <= MaxData /\ MaxData \in Nat
      /\ offset < hdr.len
  BY <1>1, <1>2, ChannelAssumption DEF InData, HdrWhole, TypeInv
<1>6. /\ buffer' \in [1 .. MaxData -> Nat]
      /\ \A k \in 1 .. (offset + 1) : buffer'[k] = Current
  <2>1. buffer' = [buffer EXCEPT ![offset + 1] = Current]
    <3>1. Head(toDaemon).of = Current
      BY <1>3
    <3> QED
      BY <1>1, <3>1, Zenon
  <2>2. buffer \in [1 .. MaxData -> Nat]
    BY <1>1 DEF TypeInv
  <2>3. ASSUME NEW k \in 1 .. (offset + 1) PROVE buffer'[k] = Current
    <3>1. k \in 1 .. MaxData
      BY <1>3, <1>5, <2>3, SMT
    <3>2. CASE k = offset + 1
      BY <2>1, <2>2, <3>1, <3>2
    <3>3. CASE k \in 1 .. offset
      <4>1. k # offset + 1 /\ buffer[k] = Current
        BY <1>2, <1>3, <3>3 DEF InData
      <4> QED
        BY <2>1, <2>2, <3>1, <4>1
    <3> QED
      BY <1>3, <2>3, <3>2, <3>3, SMT
  <2> QED
    BY <1>4, <2>1, <2>2, <2>3
<1>7. StreamInv' /\ WholeOrLast' /\ Fresh' /\ HdrWhole' /\ kernel' # "idle" /\ toKernel' = <<>>
  BY <1>1, <1>2, <1>4, ReadStream, CallsKept DEF InData, HdrWhole
<1>8. ASSUME pc' \in {"data", "handle"}, offset' \in Nat PROVE TypeInv'
  BY <1>1, <1>3, <1>6, <1>8 DEF TypeInv
<1>9. CASE ~ReadAll(offset + 1)
  <2>1. pc' = "data" /\ offset' = offset + 1
    BY <1>9 DEF Read
  <2>2. offset' < hdr'.len
    BY <1>1, <1>3, <1>5, <1>9, <2>1 DEF ReadAll, Wanted
  <2>3. Taken' = Len(Fields) + offset' /\ \A k \in 1 .. offset' : buffer'[k] = Current'
    BY <1>3, <1>4, <1>6, <2>1
  <2>4. InData'
    BY <1>7, <2>1, <2>2, <2>3 DEF InData
  <2> QED
    BY <1>3, <1>7, <1>8, <2>1, <2>4 DEF ChannelInv, Phase
<1>10. CASE ReadAll(offset + 1)
  <2>1. pc' = "handle" /\ offset' = 0
    BY <1>10 DEF Read, Goto, AfterRead
  <2>2. offset + 1 = hdr.len
    <3>1. offset + 1 >= hdr.len
      BY <1>10 DEF ReadAll, Wanted
    <3> QED
      BY <1>3, <1>5, <3>1, SMT
  <2>3. toDaemon' = <<>> /\ written' = Total'
    <3>1. Taken' = Total'
      BY <1>3, <1>4, <1>5, <2>2 DEF Total
    <3>2. written' <= Total' /\ written' \in Nat /\ Total' \in Nat
      <4>1. Total' = 4 + hdr.len
        BY <1>4, <1>5, FieldFacts DEF Total
      <4>2. written' \in Nat /\ Current' > 0
        BY <1>1, <1>3, <1>4 DEF TypeInv
      <4>3. written' <= Total'
        BY <1>7, <4>2 DEF StreamInv
      <4> QED
        BY <1>5, <4>1, <4>2, <4>3
    <3>3. Len(toDaemon') = 0 /\ written' = Total'
      BY <1>3, <3>1, <3>2, SMT DEF Taken
    <3> QED
      BY <1>3, <3>3, EmptySeq
  <2>4. \A k \in 1 .. hdr'.len : buffer'[k] = Current'
    BY <1>1, <1>4, <1>6, <2>2
  <2>5. HasAll'
    BY <1>7, <2>1, <2>3, <2>4 DEF HasAll
  <2> QED
    BY <1>7, <1>8, <2>1, <2>5 DEF ChannelInv, Phase
<1> QED
  BY <1>9, <1>10

\* The end of the stream: a header or data that began is taken for whole, a
\* message that did not begin ends the thread.
LEMMA ReadEndInv == ChannelInv /\ ReadEnd => ChannelInv'
<1> SUFFICES ASSUME ChannelInv, ReadEnd PROVE ChannelInv'
  OBVIOUS
<1>1. /\ TypeInv /\ StreamInv /\ WholeOrLast /\ Phase /\ AtEnd /\ pc \in {"header", "data"}
      /\ UNCHANGED <<log, kernel, written, toDaemon, toKernel, hdr, buffer, ran>>
      /\ offset' = 0 /\ pc' \in {"leave", AfterRead(hdr)} /\ (offset = 0 => pc' = "leave")
  <2>1. offset \in Nat
    BY DEF ChannelInv, TypeInv
  <2>2. offset' = 0 /\ pc' \in {"leave", AfterRead(hdr)}
    BY DEF ReadEnd, Goto
  <2>3. offset = 0 => pc' = "leave"
    BY DEF ReadEnd, Goto, ReadResult
  <2> QED
    BY <2>2, <2>3 DEF ChannelInv, ReadEnd, kernelVars, AtEnd
<1>2. /\ pc' \in {"leave", "handle", "data"} /\ StreamInv' /\ WholeOrLast' /\ TypeInv' /\ AtEnd'
      /\ Current' = Current /\ toKernel' = <<>>
  <2>1. pc' \in {"leave", "handle", "data"}
    BY <1>1 DEF AfterRead
  <2>2. TypeInv'
    BY <1>1, <2>1 DEF TypeInv
  <2>3. StreamInv' /\ AtEnd' /\ toKernel' = <<>>
    BY <1>1 DEF StreamInv, Current, Taken, Total, AtEnd
  <2> QED
    BY <1>1, <2>1, <2>2, <2>3, CallsKept
<1>3. CASE pc' = "leave"
  <2>1. Over'
    BY <1>2, <1>3 DEF Over, AtEnd
  <2> QED
    BY <1>2, <2>1 DEF ChannelInv, Phase
<1>4. CASE pc' = "data"
  <2>1. NoData'
    BY <1>1, <1>2, <1>4 DEF NoData
  <2> QED
    BY <1>2, <2>1 DEF ChannelInv, Phase
<1>5. CASE pc' = "handle"
  <2>1. offset # 0 /\ (InHeader \/ InData)
    BY <1>1, <1>5 DEF Phase, Resting, NoData, HasAll, HasPart, Replying, Over
  <2>2. Fresh'
    BY <1>1, <2>1, CallsKept DEF InHeader, InData
  <2>3. hdr'.len <= MaxData /\ (hdr'.type = "real" => hdr'.typeOf = Current')
    <3>1. CASE InHeader
      <4>1. hdr.len = 0
        BY <1>1, <1>5, <3>1 DEF AfterRead, InHeader
      <4>2. hdr.type = "real" => hdr.typeOf = Current
        <5>1. offset \in Nat
          BY <1>1 DEF TypeInv
        <5> QED
          BY <3>1, <5>1, FieldFacts DEF InHeader, HdrSoFar
      <4> QED
        BY <1>1, <1>2, <4>1, <4>2, ChannelAssumption
    <3>2. CASE InData
      BY <1>1, <1>2, <3>2 DEF InData, HdrWhole
    <3> QED
      BY <2>1, <3>1, <3>2
  <2>4. HasPart'
    BY <1>2, <1>5, <2>2, <2>3 DEF HasPart
  <2> QED
    BY <1>2, <2>4 DEF ChannelInv, Phase
<1> QED
  BY <1>2, <1>3, <1>4, <1>5

\* The call that a handler gets: what hdr and buffer hold, added to the others.
LEMMA CallFacts ==
    ASSUME TypeInv, hdr.len <= MaxData,
           NEW call, call = [type |-> hdr.typeOf, len |-> hdr.lenOf, data |-> SubSeq(buffer, 1, hdr.len)],
           ran' = Append(ran, call)
    PROVE  /\ ran' \in Seq([type : Nat, len : Nat, data : Seq(Nat)])
           /\ Len(ran') = Len(ran) + 1 /\ Len(ran) \in Nat
           /\ \A i \in 1 .. Len(ran) : ran'[i] = ran[i]
           /\ ran'[Len(ran) + 1] = call
           /\ Len(call.data) = hdr.len
           /\ \A k \in 1 .. hdr.len : call.data[k] = buffer[k]
<1>1. /\ hdr.len \in Nat /\ hdr.typeOf \in Nat /\ hdr.lenOf \in Nat /\ MaxData \in Nat
      /\ buffer \in [1 .. MaxData -> Nat] /\ ran \in Seq([type : Nat, len : Nat, data : Seq(Nat)])
  BY ChannelAssumption DEF TypeInv
<1>2. \A k \in 1 .. hdr.len : buffer[k] \in Nat
  BY <1>1
<1>3. /\ SubSeq(buffer, 1, hdr.len) \in Seq(Nat)
      /\ Len(SubSeq(buffer, 1, hdr.len)) = hdr.len
      /\ \A k \in 1 .. hdr.len : SubSeq(buffer, 1, hdr.len)[k] = buffer[k]
  <2>1. /\ SubSeq(buffer, 1, hdr.len) \in Seq(Nat)
        /\ Len(SubSeq(buffer, 1, hdr.len)) = IF 1 <= hdr.len THEN hdr.len - 1 + 1 ELSE 0
        /\ \A k \in 1 .. hdr.len - 1 + 1 : SubSeq(buffer, 1, hdr.len)[k] = buffer[k + 1 - 1]
    BY <1>1, <1>2, SubSeqProperties, SMT
  <2> QED
    BY <1>1, <2>1, SMT
<1>4. call \in [type : Nat, len : Nat, data : Seq(Nat)] /\ call.data = SubSeq(buffer, 1, hdr.len)
  BY <1>1, <1>3
<1> QED
  BY <1>1, <1>3, <1>4, AppendProperties, LenProperties

\* A call on the whole of the last request comes after calls on whole requests.
LEMMA WholeCall ==
    ASSUME TypeInv, Fresh, HdrWhole, \A k \in 1 .. hdr.len : buffer[k] = Current, log' = log,
           ran' = Append(ran, [type |-> hdr.typeOf, len |-> hdr.lenOf,
                               data |-> SubSeq(buffer, 1, hdr.len)])
    PROVE  AllWhole'
<1> DEFINE call == [type |-> hdr.typeOf, len |-> hdr.lenOf, data |-> SubSeq(buffer, 1, hdr.len)]
<1>1. /\ hdr.len = log[Current].len /\ hdr.typeOf = Current /\ hdr.lenOf = Current
      /\ hdr.len <= MaxData
  BY DEF HdrWhole
<1>2. call.type = Current /\ call.len = Current
  BY <1>1
<1>3. ran' = Append(ran, call)
  OBVIOUS
<1>4. call = [type |-> hdr.typeOf, len |-> hdr.lenOf, data |-> SubSeq(buffer, 1, hdr.len)]
  OBVIOUS
<1> HIDE DEF call
<1>5. /\ Len(ran') = Len(ran) + 1 /\ Len(ran) \in Nat
      /\ \A i \in 1 .. Len(ran) : ran'[i] = ran[i]
      /\ ran'[Len(ran) + 1] = call
      /\ Len(call.data) = hdr.len
      /\ \A k \in 1 .. hdr.len : call.data[k] = buffer[k]
  BY <1>1, <1>3, <1>4, CallFacts
<1>6. WholeRequest(call, Current)
  BY <1>1, <1>2, <1>5 DEF WholeRequest
<1>7. Current \in Nat /\ Current > 0 /\ Current' = Current
  BY LogFacts DEF Fresh, Current
<1>8. ASSUME NEW i \in 1 .. Len(ran')
      PROVE  /\ ran'[i].type \in 1 .. Current /\ WholeRequest(ran'[i], ran'[i].type)
             /\ \A j \in 1 .. (i - 1) : ran'[j].type < ran'[i].type
  <2>1. CASE i \in 1 .. Len(ran)
    <3>1. ran'[i] = ran[i] /\ \A j \in 1 .. (i - 1) : ran'[j] = ran[j]
      BY <1>5, <2>1
    <3>2. /\ ran[i].type \in 1 .. Current /\ WholeRequest(ran[i], ran[i].type)
          /\ \A j \in 1 .. (i - 1) : ran[j].type < ran[i].type
      BY <2>1 DEF Fresh, AllWhole
    <3> QED
      BY <3>1, <3>2
  <2>2. CASE i = Len(ran) + 1
    <3>1. \A j \in 1 .. (i - 1) : ran'[j] = ran[j] /\ ran[j].type < Current
      BY <1>5, <2>2 DEF Fresh
    <3>2. ran'[i] = call
      BY <1>5, <2>2
    <3>3. \A j \in 1 .. (i - 1) : ran'[j].type < ran'[i].type
      BY <1>2, <3>1, <3>2
    <3>4. ran'[i].type \in 1 .. Current
      BY <1>2, <1>7, <3>2
    <3> QED
      BY <1>2, <1>6, <3>2, <3>3, <3>4
  <2> QED
    BY <1>5, <1>8, <2>1, <2>2, SMT
<1> QED
  BY <1>7, <1>8 DEF AllWhole, WholeRequest

\* A call on what there was of the last request is the last one.
LEMMA PartCall ==
    ASSUME TypeInv, Fresh, kernel = "closed", UNCHANGED <<log, kernel>>,
           hdr.len <= MaxData, hdr.typeOf = Current,
           ran' = Append(ran, [type |-> hdr.typeOf, len |-> hdr.lenOf,
                               data |-> SubSeq(buffer, 1, hdr.len)])
    PROVE  WholeOrLast'
<1> DEFINE call == [type |-> hdr.typeOf, len |-> hdr.lenOf, data |-> SubSeq(buffer, 1, hdr.len)]
<1>1. call.type = Current /\ ran' = Append(ran, call)
  OBVIOUS
<1>2. call = [type |-> hdr.typeOf, len |-> hdr.lenOf, data |-> SubSeq(buffer, 1, hdr.len)]
  OBVIOUS
<1> HIDE DEF call
<1>3. /\ Len(ran') = Len(ran) + 1 /\ Len(ran) \in Nat
      /\ \A i \in 1 .. Len(ran) : ran'[i] = ran[i]
      /\ ran'[Len(ran) + 1] = call
  BY <1>1, <1>2, CallFacts
<1>4. Current' = Current
  BY DEF Current
<1>5. ASSUME NEW i \in 1 .. Len(ran')
      PROVE  \/ /\ WholeRequest(ran'[i], ran'[i].type)
                /\ \A j \in 1 .. (i - 1) : ran'[j].type < ran'[i].type
             \/ i = Len(ran') /\ ran'[i].type = Current
  <2>1. CASE i \in 1 .. Len(ran)
    <3>1. ran'[i] = ran[i] /\ \A j \in 1 .. (i - 1) : ran'[j] = ran[j]
      BY <1>3, <2>1
    <3>2. /\ WholeRequest(ran[i], ran[i].type)
          /\ \A j \in 1 .. (i - 1) : ran[j].type < ran[i].type
      BY <2>1 DEF Fresh, AllWhole
    <3> QED
      BY <3>1, <3>2
  <2>2. CASE i = Len(ran) + 1
    BY <1>1, <1>3, <2>2
  <2> QED
    BY <1>3, <1>5, <2>1, <2>2, SMT
<1> QED
  BY <1>4, <1>5 DEF WholeOrLast, WholeRequest

\* The handler runs on all of the request, or on what there was of it when the
\* kernel closed; the reply's header runs no handler.
LEMMA HandleInv == ChannelInv /\ Handle => ChannelInv'
<1> SUFFICES ASSUME ChannelInv, Handle PROVE ChannelInv'
  OBVIOUS
<1>1. /\ TypeInv /\ StreamInv /\ WholeOrLast /\ Phase /\ pc = "handle" /\ pc' = "send" /\ offset' = 0
      /\ UNCHANGED <<log, kernel, written, toDaemon, toKernel, buffer>>
  BY DEF ChannelInv, Handle, Goto, kernelVars
<1>2. HasAll \/ HasPart
  BY <1>1 DEF Phase, InHeader, Resting, InData, NoData, Replying, Over
<1>3. Fresh /\ hdr.len <= MaxData
  BY <1>2 DEF HasAll, HasPart, HdrWhole
<1>4. PICK len \in Nat : hdr' = [hdr EXCEPT !.type = "illegal", !.len = len, !.lenOf = 0]
  <2>1. 0 .. MaxReply \subseteq Nat
    OBVIOUS
  <2> QED
    BY <2>1 DEF Handle, MakeReply
<1>5. /\ hdr' \in [type : Types, len : Nat, typeOf : Nat, lenOf : Nat]
      /\ hdr'.type = "illegal" /\ hdr'.typeOf = hdr.typeOf
  <2>1. hdr \in [type : Types, len : Nat, typeOf : Nat, lenOf : Nat]
    BY <1>1 DEF TypeInv
  <2>2. hdr' = [type |-> "illegal", len |-> len, typeOf |-> hdr.typeOf, lenOf |-> 0]
    BY <1>4, <2>1
  <2>3. hdr.typeOf \in Nat
    BY <2>1
  <2> QED
    BY <2>2, <2>3 DEF Types
<1>6. StreamInv' /\ Current' = Current /\ Total' = Total
  BY <1>1 DEF StreamInv, Current, Taken, Total
<1>7. /\ ran' \in Seq([type : Nat, len : Nat, data : Seq(Nat)])
      /\ HasAll => AllWhole'
      /\ WholeOrLast'
  <2>1. CASE hdr.type = "illegal" /\ ran' = ran
    <3>1. AllWhole'
      BY <1>1, <1>3, <2>1, CallsKept DEF Fresh
    <3> QED
      BY <1>1, <2>1, <3>1, CallsKept DEF TypeInv
  <2>2. CASE hdr.type = "real" /\ ran' = Append(ran, [type |-> hdr.typeOf, len |-> hdr.lenOf,
                                                      data |-> SubSeq(buffer, 1, hdr.len)])
    <3>1. ran' \in Seq([type : Nat, len : Nat, data : Seq(Nat)])
      BY <1>1, <1>3, <2>2, CallFacts
    <3>2. HasAll => AllWhole'
      BY <1>1, <2>2, WholeCall DEF HasAll
    <3>3. HasPart => WholeOrLast'
      BY <1>1, <2>2, PartCall DEF HasPart, AtEnd
    <3>4. AllWhole' => WholeOrLast'
      BY DEF AllWhole, WholeOrLast
    <3> QED
      BY <1>2, <3>1, <3>2, <3>3, <3>4
  <2> QED
    BY <2>1, <2>2 DEF Handle
<1>8. TypeInv'
  BY <1>1, <1>5, <1>7 DEF TypeInv
<1>9. CASE HasAll
  <2>1. kernel \in {"waiting", "closed"} /\ toKernel = <<>> /\ toDaemon = <<>> /\ hdr.typeOf = Current
    <3>1. kernel # "sending"
      <4>1. Total \in Nat
        BY <1>1, <1>3, LogFacts, FieldFacts DEF Total, Fresh
      <4> QED
        BY <1>1, <1>9, <4>1, SMT DEF HasAll, StreamInv
    <3> QED
      BY <1>1, <1>9, <3>1 DEF HasAll, HdrWhole, TypeInv
  <2>2. Len(toKernel') = 0 /\ offset' < Len(Fields) + hdr'.len
    <3>1. Len(toKernel') = 0
      BY <1>1, <2>1, EmptySeq
    <3>2. hdr'.len \in Nat
      BY <1>5
    <3> QED
      BY <1>1, <3>1, <3>2, FieldFacts
  <2>3. Replying'
    BY <1>1, <1>5, <1>6, <1>7, <1>9, <2>1, <2>2 DEF Replying
  <2> QED
    BY <1>6, <1>7, <1>8, <2>3 DEF ChannelInv, Phase
<1>10. CASE HasPart
  <2>1. Replying'
    BY <1>1, <1>5, <1>10 DEF Replying, HasPart, AtEnd
  <2> QED
    BY <1>6, <1>7, <1>8, <2>1 DEF ChannelInv, Phase
<1> QED
  BY <1>2, <1>9, <1>10

\* A reply goes out unit by unit, to a kernel that waits for it or has closed.
LEMMA SendInv == ChannelInv /\ Send => ChannelInv'
<1> SUFFICES ASSUME ChannelInv, Send PROVE ChannelInv'
  OBVIOUS
<1>1. /\ TypeInv /\ StreamInv /\ WholeOrLast /\ Phase /\ pc = "send"
      /\ UNCHANGED <<log, kernel, written, toDaemon, hdr, buffer, ran>>
  BY DEF ChannelInv, Send, kernelVars
<1>2. Replying
  BY <1>1 DEF Phase, InHeader, Resting, InData, NoData, HasAll, HasPart, Over
<1>3. /\ WholeOrLast' /\ (AllWhole => AllWhole') /\ Current' = Current /\ Taken' = Taken
      /\ Total' = Total
  BY <1>1, CallsKept DEF Taken, Total
<1>4. CASE kernel = "closed"
  <2>1. pc' \in {"header", "send"} /\ pc' = "header" /\ offset' = 0 /\ toKernel' = toKernel
    BY <1>4 DEF Send, Goto
  <2>2. TypeInv' /\ StreamInv'
    BY <1>1, <1>3, <2>1 DEF TypeInv, StreamInv
  <2>3. Resting'
    BY <1>1, <1>2, <1>4, <2>1 DEF Resting, Replying
  <2> QED
    BY <1>3, <2>2, <2>3 DEF ChannelInv, Phase
<1>5. CASE kernel = "waiting"
  <2> DEFINE unit == [of |-> Current, len |-> hdr.len]
  <2>1. /\ hdr.typeOf = Current /\ Len(toKernel) = offset /\ offset < Len(Fields) + hdr.len
        /\ \A k \in 1 .. Len(toKernel) : toKernel[k] = unit
        /\ hdr.type = "illegal" /\ toDaemon = <<>> /\ AllWhole
    BY <1>2, <1>5 DEF Replying
  <2>2. Current \in Nat /\ hdr.len \in Nat /\ offset \in Nat /\ toKernel \in Seq([of : Nat, len : Nat])
    BY <1>1, LenProperties DEF TypeInv, Current
  <2>3. unit \in [of : Nat, len : Nat] /\ unit.of = Current /\ unit.len = hdr.len
    BY <2>2
  <2>4. toKernel' = Append(toKernel, unit)
    BY <1>5, <2>1 DEF Send
  <2> HIDE DEF unit
  <2>5. /\ toKernel' \in Seq([of : Nat, len : Nat]) /\ Len(toKernel') = offset + 1
        /\ toKernel' # <<>>
        /\ \A k \in 1 .. Len(toKernel') : toKernel'[k] = unit
    <3>1. /\ toKernel' \in Seq([of : Nat, len : Nat]) /\ Len(toKernel') = Len(toKernel) + 1
          /\ toKernel' # <<>>
          /\ \A k \in 1 .. Len(toKernel) : toKernel'[k] = toKernel[k]
          /\ toKernel'[Len(toKernel) + 1] = unit
      BY <2>2, <2>3, <2>4, AppendProperties
    <3> QED
      BY <2>1, <2>2, <3>1
  <2>6. /\ SentAll(offset + 1) => pc' = "header" /\ offset' = 0
        /\ ~SentAll(offset + 1) => pc' = "send" /\ offset' = offset + 1
    BY <1>1, <1>5 DEF Send, Goto
  <2>7. pc' \in {"header", "send"} /\ offset' \in Nat
    BY <2>2, <2>6
  <2>8. TypeInv' /\ StreamInv'
    BY <1>1, <1>3, <1>5, <2>5, <2>7 DEF TypeInv, StreamInv
  <2>9. CASE SentAll(offset + 1)
    <3>1. Head(toKernel').len = hdr.len
      <4>1. toKernel'[1] = unit
        BY <2>2, <2>5
      <4> QED
        BY <2>3, <4>1
    <3>2. ReplyWhole'
      BY <2>5, <2>9, <3>1 DEF ReplyWhole, SentAll
    <3>3. \A k \in 1 .. Len(toKernel') : toKernel'[k].of = Current'
      BY <1>3, <2>3, <2>5
    <3>4. Resting'
      BY <1>1, <1>3, <1>5, <2>1, <2>6, <2>9, <3>2, <3>3 DEF Resting
    <3> QED
      BY <1>3, <2>8, <3>4 DEF ChannelInv, Phase
  <2>10. CASE ~SentAll(offset + 1)
    <3>1. offset' < Len(Fields) + hdr'.len
      BY <1>1, <2>1, <2>2, <2>6, <2>10, FieldFacts DEF SentAll
    <3>2. \A k \in 1 .. Len(toKernel') : toKernel'[k] = [of |-> Current', len |-> hdr'.len]
      BY <1>1, <1>3, <2>5 DEF unit
    <3>3. Replying'
      BY <1>1, <1>3, <1>5, <2>1, <2>5, <2>6, <2>10, <3>1, <3>2 DEF Replying
    <3> QED
      BY <1>3, <2>8, <3>3 DEF ChannelInv, Phase
  <2> QED
    BY <2>9, <2>10
<1> QED
  BY <1>2, <1>4, <1>5 DEF Replying

\* The thread ends and touches nothing more.
LEMMA LeaveInv == ChannelInv /\ Leave => ChannelInv'
<1> SUFFICES ASSUME ChannelInv, Leave PROVE ChannelInv'
  OBVIOUS
<1>1. /\ pc = "leave" /\ pc' = "gone" /\ offset' = 0
      /\ UNCHANGED <<log, kernel, written, toDaemon, toKernel, hdr, buffer, ran>>
  BY DEF Leave, Goto, kernelVars
<1>2. TypeInv' /\ StreamInv'
  BY <1>1 DEF ChannelInv, TypeInv, StreamInv, Current, Taken, Total
<1>3. WholeOrLast'
  BY <1>1, CallsKept DEF ChannelInv
<1>4. Over
  BY <1>1 DEF ChannelInv, Phase, InHeader, Resting, InData, NoData, HasAll, HasPart, Replying
<1>5. Over'
  BY <1>1, <1>4, CallsKept DEF Over
<1> QED
  BY <1>2, <1>3, <1>5 DEF ChannelInv, Phase

----------------------------------------------------------------------------
(***************************************************************************)
(* The invariant is one, and what it says.                                 *)
(***************************************************************************)

\* A step in which nothing changes.
LEMMA StutterInv == ChannelInv /\ UNCHANGED vars => ChannelInv'
<1> SUFFICES ASSUME ChannelInv, UNCHANGED vars PROVE ChannelInv'
  OBVIOUS
<1> QED
  BY DEF vars, ChannelInv, TypeInv, StreamInv, WholeOrLast, WholeRequest, Phase, InHeader, Resting,
         InData, NoData, HasAll, HasPart, Replying, Over, AtEnd, Fresh, AllWhole, HdrSoFar, HdrWhole,
         ReplyWhole, Current, Taken, Total

\* The invariant holds in all reachable states.
LEMMA Invariance == Spec => []ChannelInv
<1>1. Init => ChannelInv
  BY InitInv
<1>2. ChannelInv /\ [Next]_vars => ChannelInv'
  <2> SUFFICES ASSUME ChannelInv, [Next]_vars PROVE ChannelInv'
    OBVIOUS
  <2>1. CASE Ask
    BY <2>1, AskInv
  <2>2. CASE WriteRequest
    BY <2>2, WriteRequestInv
  <2>3. CASE ReadReply
    BY <2>3, ReadReplyInv
  <2>4. CASE Close
    BY <2>4, CloseInv
  <2>5. CASE Read
    <3>1. pc \in {"header", "data"}
      BY <2>5 DEF Read
    <3> QED
      BY <2>5, <3>1, ReadHeaderInv, ReadDataInv
  <2>6. CASE ReadEnd
    BY <2>6, ReadEndInv
  <2>7. CASE Handle
    BY <2>7, HandleInv
  <2>8. CASE Send
    BY <2>8, SendInv
  <2>9. CASE Leave
    BY <2>9, LeaveInv
  <2>10. CASE UNCHANGED vars
    BY <2>10, StutterInv
  <2> QED
    BY <2>1, <2>2, <2>3, <2>4, <2>5, <2>6, <2>7, <2>8, <2>9, <2>10 DEF Next, Kernel, Thread
<1> QED
  BY <1>1, <1>2, PTL DEF Spec

\* What waits for the kernel is at most one reply, to the request the kernel
\* waits for; otherwise nothing is in the socket towards it.
LEMMA OwnReplyHolds == ChannelInv => OwnReply
<1> SUFFICES ASSUME ChannelInv PROVE OwnReply
  OBVIOUS
<1>1. kernel # "waiting" => toKernel = <<>>
  BY DEF ChannelInv, StreamInv
<1>2. ASSUME toKernel # <<>>
      PROVE  /\ Len(toKernel) <= Len(Fields) + Head(toKernel).len
             /\ \A i \in 1 .. Len(toKernel) : toKernel[i].of = Current
  <2>1. toKernel \in Seq([of : Nat, len : Nat]) /\ kernel = "waiting"
    BY <1>1, <1>2 DEF ChannelInv, TypeInv
  <2>2. Len(toKernel) \in Nat \ {0}
    BY <1>2, <2>1, EmptySeq
  <2>3. CASE Resting
    <3>1. Len(toKernel) = Len(Fields) + Head(toKernel).len
      BY <2>1, <2>3 DEF Resting, ReplyWhole
    <3> QED
      BY <2>1, <2>2, <2>3, <3>1, SMT DEF Resting
  <2>4. CASE Replying
    <3>1. /\ Len(toKernel) = offset /\ offset < Len(Fields) + hdr.len
          /\ \A k \in 1 .. Len(toKernel) : toKernel[k] = [of |-> Current, len |-> hdr.len]
      BY <2>1, <2>4 DEF Replying
    <3>2. toKernel[1] = [of |-> Current, len |-> hdr.len]
      BY <2>2, <3>1
    <3>3. Head(toKernel).len = hdr.len
      BY <3>2
    <3>4. hdr.len \in Nat
      BY DEF ChannelInv, TypeInv
    <3> QED
      BY <2>2, <3>1, <3>3, <3>4, FieldFacts
  <2>5. Resting \/ Replying
    BY <1>2, <2>1 DEF ChannelInv, Phase, InHeader, InData, NoData, HasAll, HasPart, Over, AtEnd
  <2> QED
    BY <2>3, <2>4, <2>5
<1> QED
  BY <1>1, <1>2 DEF OwnReply

\* The kernel never finds part of another reply in the socket: what is there
\* is of the reply to the request it waits for, and at most that reply.
THEOREM RepliesAreOwn == Spec => []OwnReply
  BY Invariance, OwnReplyHolds, PTL

\* lu_recvmsg passes whole requests to the handlers, each once and in order,
\* however the stream is cut; only the last call, on a connection the kernel
\* has closed, may be made of what m_hdr and m_buffer still held.
THEOREM HandlersGetWholeRequests == Spec => []WholeOrLast
<1>1. ChannelInv => WholeOrLast
  BY DEF ChannelInv
<1> QED
  BY <1>1, Invariance, PTL
=============================================================================
