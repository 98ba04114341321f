------------------------------- MODULE CopyUp -------------------------------
(***************************************************************************)
(* Copying a file of the CD up to rw_tmp, a system call at a time.  Opening*)
(* for writing and setattr call copyTmp when the file is not in rw_tmp     *)
(* yet; copyTmp truncates the copy and fills it a buffer at a time.  The   *)
(* threads of several channels do this on one LiveCDFS without a lock.     *)
(* The kernel keeps the writes and attribute changes of one file apart     *)
(* (i_sem), but not its opens.  One file is modelled, a sequence of as     *)
(* many buffers as there are on the CD.                                    *)
(***************************************************************************)
EXTENDS Naturals, Sequences

CONSTANTS
    Channels,
    Size,     \* the buffers of 8192 bytes in the file of the CD
    Written   \* what users write to a buffer

ASSUME CopyUpAssumption ==
    /\ Size \in Nat \ {0}
    /\ Written \cap {"cd", "hole"} = {}

VARIABLES
    exists,     \* the file is in rw_tmp
    copy,       \* what it holds there
    scratched,  \* the buffers of the CD that cannot be read
    pc,         \* the thread of each channel: "idle", "open", "copy", "truncate"
    pos,        \* its offset in both files of copyTmp
    size,       \* the size setattr asks for; Size if the request is an open
    setting,    \* it serves a setattr, and the kernel holds i_sem
    writer,     \* its user has the file open for writing
    \* What nothing in the program remembers:
    latest,     \* what the file should hold, by the requests answered so far
    raced,      \* a request changed the copy while another was about to fill it
    cut,        \* a setattr has shortened the file
    torn        \* the daemon has stopped in the middle of a copy

threadVars == <<pc, pos, size, setting, writer>>
history    == <<latest, raced, cut, torn>>
vars == <<exists, copy, scratched, threadVars, history>>

OnCd == [i \in 1 .. Size |-> "cd"]

All(value) == [c \in Channels |-> value]

Init ==
    /\ exists = FALSE /\ copy = <<>>
    /\ scratched \in {{}, {Size}}
    /\ pc = All("idle") /\ pos = All(0) /\ size = All(Size)
    /\ setting = All(FALSE) /\ writer = All(FALSE)
    /\ latest = OnCd /\ raced = FALSE /\ cut = FALSE /\ torn = FALSE

----------------------------------------------------------------------------
\* write() at an offset: what is between the end of the file and it is zeros.
WriteAt(s, i, v) ==
    [j \in 1 .. (IF i > Len(s) THEN i ELSE Len(s)) |->
        IF j = i THEN v ELSE IF j <= Len(s) THEN s[j] ELSE "hole"]

Shortened(s, n) == IF Len(s) > n THEN SubSeq(s, 1, n) ELSE s

\* doRead of a buffer: mkpath, then the layer; generic_read fills up with
\* zeros what the file does not have.
Content(i) == IF ~exists THEN "cd" ELSE IF i <= Len(copy) THEN copy[i] ELSE "hole"

Filling(c)     == pc[c] \in {"open", "copy"}
OtherFills(c)  == \E d \in Channels \ {c} : Filling(d)
SemIsFree      == \A c \in Channels : ~setting[c]

----------------------------------------------------------------------------
(***************************************************************************)
(* The requests.                                                           *)
(***************************************************************************)

\* Mutant of InTmp: the copy is not looked for.
InTmpNever == FALSE

\* path->exists(tmppath), path->isTmp(file)
InTmp == exists

\* doOpen for writing, without O_CREAT or O_TRUNC.
Open(c) ==
    /\ pc[c] = "idle" /\ ~writer[c]
    /\ IF InTmp THEN writer' = [writer EXCEPT ![c] = TRUE] /\ pc' = pc
       ELSE writer' = writer /\ pc' = [pc EXCEPT ![c] = "open"]
    /\ UNCHANGED <<exists, copy, scratched, pos, size, setting, history>>

\* doSetattr: truncate(2) to n buffers, or with n = Size a change of mode,
\* owner or times.
Setattr(c, n) ==
    /\ pc[c] = "idle" /\ SemIsFree
    /\ pc' = [pc EXCEPT ![c] = IF InTmp THEN "truncate" ELSE "open"]
    /\ size' = [size EXCEPT ![c] = n]
    /\ setting' = [setting EXCEPT ![c] = TRUE]
    /\ UNCHANGED <<exists, copy, scratched, pos, writer, history>>

\* The last step of doSetattr; the mode and the rest are not modelled.
Truncate(c) ==
    /\ pc[c] = "truncate"
    /\ copy' = Shortened(copy, size[c])
    /\ latest' = Shortened(latest, size[c])
    /\ cut' = (cut \/ size[c] < Size) /\ raced' = (raced \/ OtherFills(c))
    /\ pc' = [pc EXCEPT ![c] = "idle"]
    /\ size' = [size EXCEPT ![c] = Size]
    /\ setting' = [setting EXCEPT ![c] = FALSE]
    /\ UNCHANGED <<exists, scratched, pos, writer, torn>>

\* doWrite, of a file that is open for writing and so in rw_tmp.
Write(c, i, v) ==
    /\ pc[c] = "idle" /\ writer[c] /\ SemIsFree
    /\ copy' = WriteAt(copy, i, v)
    /\ latest' = WriteAt(latest, i, v) /\ raced' = (raced \/ OtherFills(c))
    /\ UNCHANGED <<exists, scratched, threadVars, cut, torn>>

Release(c) ==
    /\ pc[c] = "idle" /\ writer[c]
    /\ writer' = [writer EXCEPT ![c] = FALSE]
    /\ UNCHANGED <<exists, copy, scratched, pc, pos, size, setting, history>>

----------------------------------------------------------------------------
(***************************************************************************)
(* Path::copyTmp.                                                          *)
(***************************************************************************)

\* open(tmppath, O_WRONLY | O_CREAT | O_TRUNC)
CopyOpen(c) ==
    /\ pc[c] = "open"
    /\ exists' = TRUE /\ copy' = <<>>
    /\ pc' = [pc EXCEPT ![c] = "copy"] /\ pos' = [pos EXCEPT ![c] = 0]
    /\ raced' = (raced \/ OtherFills(c))
    /\ UNCHANGED <<scratched, size, setting, writer, latest, cut, torn>>

\* One turn of the loop.  A read() that fails returns -1, which does not end
\* the loop, and leaves the offset where it was: the turn changes nothing.
CopyBuffer(c) ==
    /\ pc[c] = "copy" /\ pos[c] < Size /\ pos[c] + 1 \notin scratched
    /\ copy' = WriteAt(copy, pos[c] + 1, "cd")
    /\ pos' = [pos EXCEPT ![c] = @ + 1]
    /\ UNCHANGED <<exists, scratched, pc, size, setting, writer, history>>

\* Mutant of CopyAll: the loop waits for a buffer that never comes.
CopyAllNever(c) == pos[c] > Size

CopyAll(c) == pos[c] = Size

\* read() returns 0; the request goes on.
CopyClose(c) ==
    /\ pc[c] = "copy" /\ CopyAll(c)
    /\ pc' = [pc EXCEPT ![c] = IF setting[c] THEN "truncate" ELSE "idle"]
    /\ writer' = [writer EXCEPT ![c] = @ \/ ~setting[c]]
    /\ UNCHANGED <<exists, copy, scratched, pos, size, setting, history>>

\* The daemon stops, and another one serves the same rw_tmp.
Stop ==
    /\ torn' = (torn \/ \E c \in Channels : pc[c] = "copy")
    /\ pc' = All("idle") /\ pos' = All(0) /\ size' = All(Size)
    /\ setting' = All(FALSE) /\ writer' = All(FALSE)
    /\ UNCHANGED <<exists, copy, scratched, latest, raced, cut>>

----------------------------------------------------------------------------
Thread(c) == CopyOpen(c) \/ CopyBuffer(c) \/ CopyClose(c) \/ Truncate(c)
Request(c) == \/ Open(c) \/ Release(c)
              \/ \E n \in 0 .. Size : Setattr(c, n)
              \/ \E i \in 1 .. Size, v \in Written : Write(c, i, v)

Next == Stop \/ \E c \in Channels : Thread(c) \/ Request(c)

\* The thread of each channel is scheduled.
Spec == Init /\ [][Next]_vars /\ \A c \in Channels : WF_vars(Thread(c))

----------------------------------------------------------------------------
Expected(i) == IF i <= Len(latest) THEN latest[i] ELSE "hole"

\* When no copy is being made the file reads as the requests answered so far
\* left it, whoever opened it and when.  The exceptions are these: a daemon
\* that stopped inside copyTmp leaves a part of the file, which is never
\* copied again; and a request that overtook a copy loses what it wrote, a
\* buffer at a time, to what the CD holds, or where it shortened the file
\* leaves zeros.
Settled ==
    (\A c \in Channels : ~Filling(c)) /\ ~torn =>
        \A i \in 1 .. Size :
            \/ Content(i) = Expected(i)
            \/ raced /\ Content(i) = "cd"
            \/ raced /\ cut

\* A request that copies ends, unless a buffer of the CD cannot be read.
CopyEnds == \A c \in Channels : (pc[c] # "idle" /\ scratched = {}) ~> pc[c] = "idle"
=============================================================================
