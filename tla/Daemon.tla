------------------------------- MODULE Daemon -------------------------------
(***************************************************************************)
(* The start and the end of lufsd.  main reads its options (module         *)
(* Options), makes the first instance, binds its socket, forks the process *)
(* that serves it and mounts the file system itself; the child runs        *)
(* lu_fsctl_run (module Instances) until the kernel, at the unmount, sends *)
(* it SIGUSR1.  Anything may fail on the way, and signals may come at any  *)
(* time.                                                                   *)
(***************************************************************************)
EXTENDS Instances

VARIABLES
    parent,   \* where main is
    exit,     \* what main ended with
    usable,   \* whether a socket can be bound in /tmp/.livecdfs
    sock,     \* whether the file of the socket exists
    child,    \* the process that serves
    mounted   \* whether the file system is mounted

start == <<parent, exit, usable, sock, child, mounted>>
all   == <<start, vars>>

NoEntry == [NewEntry(1) EXCEPT !.size = 0, !.count = 0]
Idle    == [pc |-> "accept", fs |-> NoFs, count |-> 0]
Closed  == [c \in Channels |-> [pc |-> "none", fs |-> NoFs, count |-> 0]]

DaemonInit ==
    /\ activefs = NoEntry /\ objects = {} /\ made = 0 /\ available = FALSE
    /\ main = Idle /\ chan = Closed /\ lost = 0
    /\ parent = "options" /\ exit = "none"
    /\ usable \in BOOLEAN
    /\ sock = FALSE /\ child = "none" /\ mounted = FALSE

----------------------------------------------------------------------------
(***************************************************************************)
(* main.                                                                   *)
(***************************************************************************)
Leave(code) == parent' = "ended" /\ exit' = code
Goes(to)    == parent' = to /\ UNCHANGED exit

\* Usage, lu_opt_parse, lu_opt_loadcfg, lu_fsctl_create: an option that is
\* too long or memory that is short ends main.
ReadOptions ==
    /\ parent = "options"
    /\ Goes("instance") \/ Leave("error")
    /\ UNCHANGED <<usable, sock, child, mounted, vars>>

\* lu_fsctl_mount: LiveCDFS::create fails without ro_root and rw_tmp, or when
\* one of them is no directory that serves; lu_fsctl_destroy, and main ends.
FirstInstance ==
    /\ parent = "instance"
    /\ \/ /\ Goes("bind")
          /\ activefs' = NewEntry(1) /\ objects' = {1} /\ made' = 1 /\ available' = TRUE
          /\ UNCHANGED <<main, chan, lost>>
       \/ Leave("error") /\ UNCHANGED vars
    /\ UNCHANGED <<usable, sock, child, mounted>>

\* Mutant of BindError: every error of bind is tried again.
BindErrorNever == FALSE

\* An address in use is tried again with another number, which changes
\* nothing; any other error ends the loop, and main.
BindError == ~usable

Bind ==
    /\ parent = "bind"
    /\ \/ usable /\ sock' = TRUE /\ Goes("listen")
       \/ BindError /\ Leave("error") /\ UNCHANGED sock
    /\ UNCHANGED <<usable, child, mounted, vars>>

Listen ==
    /\ parent = "listen"
    /\ Goes("fork") \/ Leave("error")
    /\ UNCHANGED <<usable, sock, child, mounted, vars>>

Fork ==
    /\ parent = "fork"
    /\ \/ Goes("mount") /\ child' = "forked"
       \/ Leave("error") /\ UNCHANGED child
    /\ UNCHANGED <<usable, sock, mounted, vars>>

\* mount(2), with the name of the socket and the child's pid; main leaves the
\* child alone when it fails.
Mount ==
    /\ parent = "mount"
    /\ \/ child \in {"forked", "serving"} /\ mounted' = TRUE /\ Leave("success")
       \/ UNCHANGED mounted /\ Leave("error")
    /\ UNCHANGED <<usable, sock, child, vars>>

Parent == ReadOptions \/ FirstInstance \/ Bind \/ Listen \/ Fork \/ Mount

----------------------------------------------------------------------------
(***************************************************************************)
(* The child, and the signals it gets.                                     *)
(***************************************************************************)

\* Until lu_fsctl_run has installed its handlers, a signal kills.
Serve ==
    /\ child = "forked" /\ child' = "serving"
    /\ UNCHANGED <<parent, exit, usable, sock, mounted, vars>>

\* lu_fsctl_run and its threads.  The kernel connects while it mounts and
\* while the file system is mounted.
Run ==
    /\ child = "serving"
    /\ Next
    /\ main.pc = "accept" /\ main'.pc # "accept" => mounted \/ parent = "mount"
    /\ UNCHANGED start

\* The process ends with all it holds.
Ends(how) ==
    /\ child' = how
    /\ activefs' = NoEntry /\ objects' = {} /\ made' = 0 /\ available' = FALSE
    /\ main' = Idle /\ chan' = Closed /\ lost' = 0

\* Mutant of Usr1: the handler returns, as sig_handler does.
Usr1Returns ==
    IF child = "serving" THEN sock' = FALSE /\ UNCHANGED <<child, vars>>
    ELSE Ends("killed") /\ UNCHANGED sock

\* Mutant of Usr1: the socket is not removed.
Usr1Keeps ==
    /\ Ends(IF child = "serving" THEN "unmounted" ELSE "killed")
    /\ UNCHANGED sock

\* SIGUSR1: usr1Handler removes the socket and exits.
Usr1 ==
    IF child = "serving" THEN sock' = FALSE /\ Ends("unmounted")
    ELSE Ends("killed") /\ UNCHANGED sock

\* The kernel closes its connections and sends server_pid a SIGUSR1.
Umount ==
    /\ mounted /\ mounted' = FALSE
    /\ IF child \in {"forked", "serving"} THEN Usr1 ELSE UNCHANGED <<child, sock, vars>>
    /\ UNCHANGED <<parent, exit, usable>>

\* SIGKILL; SIGTERM and SIGINT end the child only before lu_fsctl_run:
\* sig_handler does no more than install itself again.
Kill ==
    /\ child \in {"forked", "serving"}
    /\ Ends("killed")
    /\ UNCHANGED <<parent, exit, usable, sock, mounted>>

DaemonNext == Parent \/ Serve \/ Run \/ Umount \/ Kill

\* The two processes run.  Nothing makes users mount, unmount or kill.
Fairness == WF_all(Parent) /\ WF_all(Serve)

DaemonSpec == DaemonInit /\ [][DaemonNext]_all /\ Fairness

----------------------------------------------------------------------------
\* A child that serves a file system nobody can reach is left only by a main
\* that has reported an error: it waits for ever, and only SIGKILL ends it.
OrphanOnlyByFailedMount ==
    parent = "ended" /\ child \in {"forked", "serving"} /\ ~mounted => exit = "error"

\* When no process is left, the socket is left in /tmp/.livecdfs only by a
\* main that failed between bind and fork, or by a child that was killed -- by
\* the SIGUSR1 of an early unmount, too.
SocketLeft ==
    parent = "ended" /\ child \notin {"forked", "serving"} /\ sock =>
        child = "killed" \/ (child = "none" /\ exit = "error" /\ usable)

\* main always ends, and a child that was forked comes to serve or is killed.
StartEnds == <>(parent = "ended") /\ (child = "forked" ~> child # "forked")
=============================================================================
