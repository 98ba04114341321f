----------------------------- MODULE Instances -----------------------------
(***************************************************************************)
(* The life of LiveCDFS instances.  lu_fsctl_run accepts the connections   *)
(* of the kernel and starts a thread for each; all of them ask             *)
(* LiveCDFS::create for the same root and tmp and share one instance, kept *)
(* with a reference count in LiveCDFS::activefs.  A thread whose           *)
(* connection ends calls LiveCDFS::destroy.  Nothing is locked: the steps  *)
(* of create and destroy below are the accesses to activefs.               *)
(***************************************************************************)
EXTENDS Integers, FiniteSets

CONSTANTS
    Channels,      \* connections
    MaxInstances,  \* bound on the instances made
    SpawnMayFail,  \* TRUE: pthread_create may fail
    OneAtATime     \* TRUE: the kernel opens and closes one connection at a time

ASSUME InstancesAssumption ==
    /\ IsFiniteSet(Channels)
    /\ MaxInstances \in Nat \ {0}
    /\ {SpawnMayFail, OneAtATime} \subseteq BOOLEAN

VARIABLES
    activefs,   \* the vector: at most one entry, and what memory holds of it
    objects,    \* the instances that have been made and not deleted
    made,       \* how many have been made
    available,  \* fs_ctl::fs_available: made by lu_fsctl_mount, not yet used
    main,       \* the thread of lu_fsctl_run
    chan,       \* the threads of the channels
    lost        \* the references whose thread could not be created

vars == <<activefs, objects, made, available, main, chan, lost>>

Instance == 1 .. MaxInstances
NoFs     == 0

\* activefs.push_back
NewEntry(fs) == [size |-> 1, fs |-> fs, count |-> 1]

\* lu_fsctl_mount has made the first instance.
Init ==
    /\ activefs = NewEntry(1)
    /\ objects = {1} /\ made = 1
    /\ available = TRUE
    /\ main = [pc |-> "accept", fs |-> NoFs, count |-> 0]
    /\ chan = [c \in Channels |-> [pc |-> "none", fs |-> NoFs, count |-> 0]]
    /\ lost = 0

Stepping == {"find", "read", "write", "test"}
Quiet == main.pc = "accept" /\ \A c \in Channels : chan[c].pc \notin Stepping

----------------------------------------------------------------------------
(***************************************************************************)
(* lu_fsctl_run, new_fsinstance and LiveCDFS::create.                      *)
(***************************************************************************)

\* A connection of the kernel; the instance of lu_fsctl_mount is used first.
Accept ==
    /\ main.pc = "accept" /\ (OneAtATime => Quiet)
    /\ \E c \in Channels : chan[c].pc = "none"
    /\ main' = IF available THEN [main EXCEPT !.pc = "spawn", !.fs = 1]
               ELSE [main EXCEPT !.pc = "find"]
    /\ available' = FALSE
    /\ UNCHANGED <<activefs, objects, made, chan, lost>>

\* findActive, and what is made when it finds nothing.  Path::create and
\* Whiteout::create may fail; the thread then closes the connection.
CreateFind ==
    /\ main.pc = "find"
    /\ \/ /\ activefs.size = 1
          /\ main' = [main EXCEPT !.pc = "read"]
          /\ UNCHANGED <<activefs, objects, made>>
       \/ /\ activefs.size = 0 /\ made < MaxInstances
          /\ made' = made + 1 /\ objects' = objects \cup {made + 1}
          /\ activefs' = NewEntry(made + 1)
          /\ main' = [main EXCEPT !.pc = "spawn", !.fs = made + 1]
       \/ /\ activefs.size = 0
          /\ main' = [main EXCEPT !.pc = "accept"]
          /\ UNCHANGED <<activefs, objects, made>>
    /\ UNCHANGED <<available, chan, lost>>

\* fs = active->fs; active->count++, through the pointer findActive returned.
CreateRead ==
    /\ main.pc = "read"
    /\ main' = [pc |-> "write", fs |-> activefs.fs, count |-> activefs.count]
    /\ UNCHANGED <<activefs, objects, made, available, chan, lost>>

\* Mutant of CreateWrite: the count is not incremented.
CreateWriteSame ==
    /\ main.pc = "write" /\ main' = [main EXCEPT !.pc = "spawn"]
    /\ UNCHANGED <<activefs, objects, made, available, chan, lost>>

CreateWrite ==
    /\ main.pc = "write"
    /\ activefs' = [activefs EXCEPT !.count = main.count + 1]
    /\ main' = [main EXCEPT !.pc = "spawn"]
    /\ UNCHANGED <<objects, made, available, chan, lost>>

\* pthread_create; when it fails the instance is not given back.
Spawn ==
    /\ main.pc = "spawn"
    /\ \/ \E c \in Channels :
            /\ chan[c].pc = "none"
            /\ chan' = [chan EXCEPT ![c] = [pc |-> "serve", fs |-> main.fs, count |-> 0]]
            /\ lost' = lost
       \/ SpawnMayFail /\ lost < Cardinality(Channels) /\ lost' = lost + 1 /\ chan' = chan
    /\ main' = [pc |-> "accept", fs |-> NoFs, count |-> 0]
    /\ UNCHANGED <<activefs, objects, made, available>>

----------------------------------------------------------------------------
(***************************************************************************)
(* thread_launcher after handle_fs, and LiveCDFS::destroy.                 *)
(***************************************************************************)
Disconnect(c) ==
    /\ chan[c].pc = "serve" /\ (OneAtATime => Quiet)
    /\ chan' = [chan EXCEPT ![c].pc = "find"]
    /\ UNCHANGED <<activefs, objects, made, available, main, lost>>

Exit(c) == chan' = [chan EXCEPT ![c] = [pc |-> "none", fs |-> NoFs, count |-> 0]]

\* findActive(fs); an instance that is not found is left alone.
DestroyFind(c) ==
    /\ chan[c].pc = "find"
    /\ IF activefs.size = 1 /\ activefs.fs = chan[c].fs
       THEN chan' = [chan EXCEPT ![c].pc = "read"] ELSE Exit(c)
    /\ UNCHANGED <<activefs, objects, made, available, main, lost>>

\* active->count--, a read and a write.
DestroyRead(c) ==
    /\ chan[c].pc = "read"
    /\ chan' = [chan EXCEPT ![c].pc = "write", ![c].count = activefs.count]
    /\ UNCHANGED <<activefs, objects, made, available, main, lost>>
DestroyWrite(c) ==
    /\ chan[c].pc = "write"
    /\ activefs' = [activefs EXCEPT !.count = chan[c].count - 1]
    /\ chan' = [chan EXCEPT ![c].pc = "test"]
    /\ UNCHANGED <<objects, made, available, main, lost>>

\* if(active->count == 0): the entry is erased and the instance deleted.  The
\* memory of an erased entry keeps its values, and a late destroy reads them.
Unused == activefs.count = 0
DestroyTest(c) ==
    /\ chan[c].pc = "test"
    /\ IF Unused
       THEN activefs' = [activefs EXCEPT !.size = 0] /\ objects' = objects \ {chan[c].fs}
       ELSE UNCHANGED <<activefs, objects>>
    /\ Exit(c)
    /\ UNCHANGED <<made, available, main, lost>>

----------------------------------------------------------------------------
Next ==
    \/ Accept \/ CreateFind \/ CreateRead \/ CreateWrite \/ Spawn
    \/ \E c \in Channels : \/ Disconnect(c) \/ DestroyFind(c) \/ DestroyRead(c)
                           \/ DestroyWrite(c) \/ DestroyTest(c)

Spec == Init /\ [][Next]_vars

----------------------------------------------------------------------------
Users(fs) == {c \in Channels : chan[c].fs = fs}

\* Between connections the count is the number of threads that use the
\* instance, and of those that never came to be.  The instance is there just
\* as long as one does -- after the last has left the next connection reads
\* .whiteout again -- and it is the only one: two would each rewrite .whiteout
\* with a list of their own.
CountsUsers ==
    Quiet =>
        /\ objects = IF activefs.size = 1 THEN {activefs.fs} ELSE {}
        /\ activefs.size = 1 =>
               /\ activefs.count > 0
               /\ activefs.count = Cardinality(Users(activefs.fs)) + lost + (IF available THEN 1 ELSE 0)
        /\ \A c \in Channels : chan[c].fs \in objects \cup {NoFs}

\* "fs=%p not active anymore, destroying" (livecdfs.cpp:150): no thread uses
\* an instance that has been deleted.
InUseNotDestroyed == \A c \in Channels : chan[c].pc = "serve" => chan[c].fs \in objects
=============================================================================
