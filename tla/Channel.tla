------------------------------ MODULE Channel ------------------------------
(***************************************************************************)
(* One connection: the thread that thread_launcher starts for it receives  *)
(* messages from the kernel, has them handled and replies.  A socket is a  *)
(* stream, so a read() may return any part of what was written.  A header  *)
(* is its four fields, data some units; a unit in a stream is marked with  *)
(* the request it belongs to.  The kernel is not part of the source: it    *)
(* sends a request at a time, and closes its end whenever it likes, in the *)
(* middle of a message too.                                                *)
(***************************************************************************)
EXTENDS Naturals, Sequences

CONSTANTS
    Requests,    \* what the kernel sends: the type and the length of the data
    MaxRequests, \* bound on the requests of the connection
    MaxData,     \* MAX_DATA: the units m_buffer holds
    MaxReply     \* bound on the units of data in a reply

\* "real" has a handler; "illegal" stands for PTYPE_OK and PTYPE_MOUNT, which
\* have generic_illegal, and for what is above PTYPE_MAX: all end in an error.
Types == {"real", "illegal"}

ASSUME ChannelAssumption ==
    /\ MaxRequests \in Nat /\ MaxData \in Nat /\ MaxReply \in Nat
    /\ Requests \subseteq [type : Types, len : Nat]

Fields   == <<"version", "type", "datalen", "pid">>
FieldNo(f) == CHOOSE i \in 1 .. Len(Fields) : Fields[i] = f

VARIABLES
    log,       \* the requests sent so far
    kernel,    \* the kernel: "idle", "sending", "waiting" or "closed"
    written,   \* how much of the last request it has written
    toDaemon,  \* the socket, towards the daemon
    toKernel,  \* and towards the kernel
    pc,        \* the thread: "header", "data", "handle", "send", "leave", "gone"
    offset,    \* of lu_atomic_read or lu_atomic_write
    hdr,       \* fs_msg.m_hdr, used for requests and replies alike
    buffer,    \* fs_msg.m_buffer: the request each unit came from
    ran        \* what the handlers were called with, which nothing remembers

vars == <<log, kernel, written, toDaemon, toKernel, pc, offset, hdr, buffer, ran>>
kernelVars == <<log, kernel, written>>
threadVars == <<pc, offset, hdr, buffer, ran>>

\* fs is cleared by new_fsinstance.
Init ==
    /\ log = <<>> /\ kernel = "idle" /\ written = 0
    /\ toDaemon = <<>> /\ toKernel = <<>>
    /\ pc = "header" /\ offset = 0
    /\ hdr = [type |-> "illegal", len |-> 0, typeOf |-> 0, lenOf |-> 0]
    /\ buffer = [i \in 1 .. MaxData |-> 0]
    /\ ran = <<>>

Current == Len(log)

----------------------------------------------------------------------------
(***************************************************************************)
(* The kernel.                                                             *)
(***************************************************************************)
Ask ==
    /\ kernel = "idle" /\ Current < MaxRequests
    /\ \E r \in Requests : log' = Append(log, r)
    /\ kernel' = "sending" /\ written' = 0
    /\ UNCHANGED <<toDaemon, toKernel, threadVars>>

WriteRequest ==
    /\ kernel = "sending" /\ pc # "gone"
    /\ toDaemon' = Append(toDaemon, [of |-> Current, no |-> written + 1])
    /\ written' = written + 1
    /\ kernel' = IF written' = Len(Fields) + log[Current].len THEN "waiting" ELSE kernel
    /\ UNCHANGED <<log, toKernel, threadVars>>

\* A reply is whole when its first four units and its data are there.
ReplyWhole == toKernel # <<>> /\ Len(toKernel) = Len(Fields) + Head(toKernel).len
ReadReply ==
    /\ kernel = "waiting" /\ ReplyWhole
    /\ toKernel' = <<>> /\ kernel' = "idle"
    /\ UNCHANGED <<log, written, toDaemon, threadVars>>

Close ==
    /\ kernel # "closed"
    /\ kernel' = "closed" /\ toKernel' = <<>>
    /\ UNCHANGED <<log, written, toDaemon, threadVars>>

----------------------------------------------------------------------------
(***************************************************************************)
(* lu_recvmsg: lu_atomic_read of the header, then of the data.             *)
(***************************************************************************)
Goto(where) == pc' = where /\ offset' = 0

Wanted == IF pc = "header" THEN Len(Fields) ELSE hdr.len

\* Where a unit of a message lands.
HdrWith(unit) ==
    CASE unit.no = FieldNo("type")    -> [hdr EXCEPT !.type = log[unit.of].type, !.typeOf = unit.of]
      [] unit.no = FieldNo("datalen") -> [hdr EXCEPT !.len = log[unit.of].len, !.lenOf = unit.of]
      [] OTHER                        -> hdr

\* After the header, the data, unless there is none or more than MAX_DATA.
AfterRead(header) ==
    IF pc = "data" \/ header.len = 0 THEN "handle"
    ELSE IF header.len > MaxData THEN "leave" ELSE "data"

\* Mutant of ReadAll: lu_atomic_read does not loop.
ReadAllOnce(n) == n > 0

\* while(offset < len)
ReadAll(n) == n >= Wanted

\* One read(), which returns the next unit; that it may return several at
\* once makes no other order of events.
Read ==
    /\ pc \in {"header", "data"} /\ toDaemon # <<>>
    /\ toDaemon' = Tail(toDaemon)
    /\ hdr' = IF pc = "header" THEN HdrWith(Head(toDaemon)) ELSE hdr
    /\ buffer' = IF pc = "data" THEN [buffer EXCEPT ![offset + 1] = Head(toDaemon).of] ELSE buffer
    /\ IF ReadAll(offset + 1) THEN Goto(AfterRead(hdr'))
       ELSE pc' = pc /\ offset' = offset + 1
    /\ UNCHANGED <<kernelVars, toKernel, ran>>

\* Mutant of ReadResult: a read at the end of the stream returns what it has.
ReadResultZero(n) == n >= 0

\* return (res < 0) ? -errno : (offset > 0 ? offset : -EPIPE): the short count
\* of a message that is not whole is not an error, and nobody compares it.
ReadResult(n) == n > 0

\* read() returns 0, or fails because the kernel left replies unread.
ReadEnd ==
    /\ pc \in {"header", "data"} /\ toDaemon = <<>> /\ kernel = "closed"
    /\ \/ ReadResult(offset) /\ Goto(AfterRead(hdr))
       \/ ~ReadResult(offset) /\ Goto("leave")
       \/ Goto("leave")
    /\ UNCHANGED <<kernelVars, toDaemon, toKernel, hdr, buffer, ran>>

----------------------------------------------------------------------------
(***************************************************************************)
(* handle_fs: the handler, and lu_sendmsg, whose result is not looked at.  *)
(***************************************************************************)

\* lu_makemsg writes the reply's header over the request's.
MakeReply(len) == hdr' = [hdr EXCEPT !.type = "illegal", !.len = len, !.lenOf = 0]

Handle ==
    /\ pc = "handle"
    /\ \/ /\ hdr.type = "real"
          /\ ran' = Append(ran, [type |-> hdr.typeOf, len |-> hdr.lenOf,
                                 data |-> SubSeq(buffer, 1, hdr.len)])
          /\ \E len \in 0 .. MaxReply : MakeReply(len)
       \/ hdr.type = "illegal" /\ ran' = ran /\ MakeReply(0)
    /\ Goto("send")
    /\ UNCHANGED <<kernelVars, toDaemon, toKernel, buffer>>

\* Mutant of SentAll: the data of the reply is not sent.
SentAllHeader(n) == n = Len(Fields)

SentAll(n) == n = Len(Fields) + hdr.len

\* lu_sendmsg; SIGPIPE is ignored, and the loop goes on after EPIPE.
Send ==
    /\ pc = "send"
    /\ \/ kernel = "closed" /\ Goto("header") /\ toKernel' = toKernel
       \/ /\ kernel # "closed"
          /\ toKernel' = Append(toKernel, [of |-> hdr.typeOf, len |-> hdr.len])
          /\ IF SentAll(offset + 1) THEN Goto("header") ELSE pc' = pc /\ offset' = offset + 1
    /\ UNCHANGED <<kernelVars, toDaemon, hdr, buffer, ran>>

\* thread_launcher after handle_fs: umount, free and close(sock).
Leave ==
    /\ pc = "leave"
    /\ Goto("gone")
    /\ UNCHANGED <<kernelVars, toDaemon, toKernel, hdr, buffer, ran>>

----------------------------------------------------------------------------
Kernel == Ask \/ WriteRequest \/ ReadReply \/ Close
Thread == Read \/ ReadEnd \/ Handle \/ Send \/ Leave
Next   == Kernel \/ Thread

\* The thread is scheduled; nothing is assumed of the kernel.
Spec == Init /\ [][Next]_vars /\ WF_vars(Thread)

----------------------------------------------------------------------------
\* The header and the data a handler was called with are those of request n.
WholeRequest(call, n) ==
    /\ call.type = n /\ call.len = n
    /\ Len(call.data) = log[n].len
    /\ \A i \in 1 .. Len(call.data) : call.data[i] = n

\* However the stream is cut into reads, handlers run on whole requests, each
\* once and in order.  lu_recvmsg takes the short count of a message the
\* kernel closed on for success; the handler then runs once on what m_hdr and
\* m_buffer still hold of earlier messages, and never again.
WholeOrLast ==
    \A i \in 1 .. Len(ran) :
        \/ WholeRequest(ran[i], ran[i].type) /\ \A j \in 1 .. (i - 1) : ran[j].type < ran[i].type
        \/ i = Len(ran) /\ kernel = "closed" /\ ran[i].type = Current

\* What is on its way to the kernel is one reply, to the request it waits
\* for: the next request finds an empty socket.
OwnReply ==
    /\ kernel # "waiting" => toKernel = <<>>
    /\ toKernel # <<>> => /\ Len(toKernel) <= Len(Fields) + Head(toKernel).len
                          /\ \A i \in 1 .. Len(toKernel) : toKernel[i].of = Current

\* A request that was written gets a reply, or the connection ends.
Answered == kernel = "waiting" ~> (ReplyWhole \/ kernel # "waiting" \/ pc = "gone")

\* Once the kernel has closed its end the thread ends, and gives its reference
\* to the instance back.
Released == kernel = "closed" ~> pc = "gone"
=============================================================================
