---------------------------- MODULE WhiteoutFile ----------------------------
(***************************************************************************)
(* The file rw_tmp/.whiteout, one system call at a time, with a daemon     *)
(* that may end between any two of them: usr1Handler calls exit(0) in      *)
(* whatever the threads are doing.  A request first changes rw_tmp, then   *)
(* calls setVisible for the names it is about; each call that changes the  *)
(* list truncates the file and writes it line by line.  A daemon that      *)
(* starts over the same rw_tmp, or creates its instance anew, reads the    *)
(* file a line at a time.                                                  *)
(***************************************************************************)
EXTENDS Whiteout, Functions, FiniteSets

CONSTANTS
    Names,  \* names of files
    OnCd    \* those the CD holds

ASSUME NamesAssumption == OnCd \subseteq Names

VARIABLES
    rw,       \* the names in rw_tmp
    entries,  \* Whiteout::entries
    file,     \* the lines of .whiteout
    out,      \* the lines Whiteout::store has still to write
    todo,     \* the calls of setVisible the request has still to make
    about,    \* the names of the request
    pos,      \* the lines Whiteout::load has read
    found,    \* the lines it found, which nothing remembers
    pc        \* "down", "load" or "serve"

vars == <<rw, entries, file, out, todo, about, pos, found, pc>>

Init ==
    /\ rw = {}
    /\ entries = <<>> /\ file = <<>> /\ out = <<>>
    /\ todo = <<>> /\ about = {}
    /\ pos = 0 /\ found = <<>>
    /\ pc = "serve"

\* The names hidden now; with no daemon, those a complete file would hide.
HiddenNow == IF pc = "serve" THEN Range(entries) ELSE Range(file) \cup Range(entries)
Shown     == (rw \cup OnCd) \ HiddenNow

Idle == pc = "serve" /\ todo = <<>> /\ out = <<>>

----------------------------------------------------------------------------
(***************************************************************************)
(* The requests: the system call on rw_tmp, and the calls that remain.     *)
(***************************************************************************)
Call(p, visible) == [name |-> p, visible |-> visible]

Begin(rw2, calls, names) ==
    /\ Idle
    /\ rw' = rw2 /\ todo' = calls /\ about' = names
    /\ UNCHANGED <<entries, file, out, pos, found, pc>>

\* creat, mkdir, link, symlink and open with O_CREAT.
Make(p) == p \notin Shown /\ Begin(rw \cup {p}, <<Call(p, TRUE)>>, {p})

\* unlink and rmdir: only a name of the CD is hidden.
Remove(p) ==
    /\ p \in Shown
    /\ Begin(rw \ {p}, IF p \in OnCd THEN <<Call(p, FALSE)>> ELSE <<>>, {p})

\* A file of the CD is copied up first, which shows nothing.
Rename(old, new) ==
    /\ old \in Shown /\ new # old
    /\ Begin((rw \ {old}) \cup {new}, <<Call(old, FALSE), Call(new, TRUE)>>, {old, new})

----------------------------------------------------------------------------
(***************************************************************************)
(* Whiteout::setVisible and Whiteout::store.                               *)
(***************************************************************************)

\* Mutant of Truncated: the file is opened without O_TRUNC, at its end.
TruncatedNot(lines) == lines

\* open(file, O_RDWR | O_TRUNC | O_CREAT)
Truncated(lines) == <<>>

\* Mutant of StoreList: the old list is written.
StoreListOld(list) == entries' = list /\ file' = Truncated(file) /\ out' = entries

StoreList(list) == entries' = list /\ file' = Truncated(file) /\ out' = list

ListAfter(call) == SetVisible(Store(entries), call.name, call.visible).entries

SetVisibleStep ==
    /\ pc = "serve" /\ out = <<>> /\ todo # <<>>
    /\ IF ListAfter(Head(todo)) = entries THEN UNCHANGED <<entries, file, out>>
       ELSE StoreList(ListAfter(Head(todo)))
    /\ todo' = Tail(todo)
    /\ UNCHANGED <<rw, about, pos, found, pc>>

\* One write() of store; the file is closed after the last.
WriteLine ==
    /\ pc # "down" /\ out # <<>>
    /\ file' = Append(file, Head(out)) /\ out' = Tail(out)
    /\ UNCHANGED <<rw, entries, todo, about, pos, found, pc>>

----------------------------------------------------------------------------
(***************************************************************************)
(* Whiteout::load, whose add() stores the list over the file being read.   *)
(***************************************************************************)
AtEnd == pos >= Len(file)

\* Mutant of LoadLine: the line is kept without being stored.
LoadLineUnstored ==
    /\ pc = "load" /\ out = <<>> /\ ~AtEnd
    /\ entries' = Append(entries, file[pos + 1])
    /\ pos' = pos + 1
    /\ UNCHANGED <<rw, file, out, todo, about, found, pc>>

LoadLine ==
    /\ pc = "load" /\ out = <<>> /\ ~AtEnd
    /\ StoreList(Append(entries, file[pos + 1]))
    /\ pos' = pos + 1
    /\ UNCHANGED <<rw, todo, about, found, pc>>

\* Mutant of LoadDone: the loop goes on until read() fails.
LoadDoneOnError == FALSE

\* while (read(fd, &sz, 1) == 1)
LoadDone == out = <<>> /\ AtEnd

LoadEnd ==
    /\ pc = "load" /\ LoadDone
    /\ pc' = "serve"
    /\ UNCHANGED <<rw, entries, file, out, todo, about, pos, found>>

\* Whiteout::create: by a new daemon, or by LiveCDFS::create after the last
\* connection was closed and the instance deleted.
Create ==
    /\ pc = "down" \/ Idle
    /\ entries' = <<>> /\ out' = <<>>
    /\ todo' = <<>> /\ about' = {}
    /\ pos' = 0 /\ found' = file
    /\ pc' = "load"
    /\ UNCHANGED <<rw, file>>

\* usr1Handler, or a kill.
Stop ==
    /\ pc # "down"
    /\ pc' = "down"
    /\ entries' = <<>> /\ out' = <<>> /\ todo' = <<>>
    /\ UNCHANGED <<rw, file, about, pos, found>>

----------------------------------------------------------------------------
Request == \E p \in Names : Make(p) \/ Remove(p) \/ \E q \in Names : Rename(p, q)
Daemon  == SetVisibleStep \/ WriteLine \/ LoadLine \/ LoadEnd

Next == Request \/ Daemon \/ Create \/ Stop

\* A thread that has something to do is scheduled; nobody has to send a
\* request, stop the daemon or start it.
Spec == Init /\ [][Next]_vars /\ WF_vars(Daemon)

----------------------------------------------------------------------------
\* What a daemon that serves has stored and what it has still to write make
\* up its list, which holds no name twice: the file is all of it when the
\* request ends, and a stop in the middle of store() loses the names at the
\* end of the list and no others.
StoredInOrder ==
    pc = "serve" =>
        /\ file \o out = entries
        /\ \A i, j \in 1 .. Len(entries) : entries[i] = entries[j] => i = j

\* A name vanishes only by a request for it: no stop, wherever it falls, and
\* no list read back hides a name that was shown, unless the request that was
\* cut short is about that name.
OnlyRequestVanishes == [][Shown \ Shown' \subseteq about \cup about']_vars

\* load reads the file that its own add() truncates and writes again.  It
\* ends as Whiteout!Load, which LiveCDFS takes as one step, says: with the
\* first line of what it found.
LoadKeepsFirst ==
    [][pc = "load" /\ pc' = "serve" =>
        [entries |-> entries', file |-> file'] = Load([entries |-> <<>>, file |-> found])]_vars

\* load ends, although it adds to the file it reads; a request ends.
Settles == (pc = "load" \/ todo # <<>> \/ out # <<>>) ~> (Idle \/ pc = "down")

\* .whiteout implements a set of hidden names that restarts can only shrink.
Abstract == INSTANCE HiddenNames WITH hidden <- HiddenNow, up <- pc = "serve"
HidesOnlyOnRequest == Abstract!Spec
=============================================================================
