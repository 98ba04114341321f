---------------------------- MODULE DaemonProofs ----------------------------
(***************************************************************************)
(* Proofs about the start and the end of lufsd, and about the reference    *)
(* count of its instance, for any number of channels.  Without a lock the  *)
(* count is right only where the kernel opens and closes one connection at *)
(* a time; the theorems about it assume that, and no more.                 *)
(***************************************************************************)
EXTENDS Daemon, FiniteSetTheorems, TLAPS

----------------------------------------------------------------------------
(***************************************************************************)
(* The two processes and the socket.                                       *)
(***************************************************************************)
Live == child \in {"forked", "serving"}

\* How far main has come says what there is of the child, the socket and the
\* mount; a child that was unmounted has removed the socket.
StartInv ==
    /\ parent \in {"options", "instance", "bind", "listen", "fork", "mount", "ended"}
    /\ child \in {"none", "forked", "serving", "unmounted", "killed"}
    /\ mounted \in BOOLEAN /\ sock \in BOOLEAN /\ usable \in BOOLEAN
    /\ sock => usable
    /\ parent \in {"options", "instance", "bind"} => ~sock
    /\ parent \in {"options", "instance", "bind", "listen", "fork"} => child = "none"
    /\ parent = "mount" => child # "none"
    /\ parent = "ended" => exit \in {"error", "success"}
    /\ mounted => parent = "ended"
    /\ child = "unmounted" => ~sock
    /\ parent = "ended" /\ child = "none" => exit = "error"
    /\ parent = "ended" /\ exit = "success" /\ Live => mounted

\* Nothing is started, made or left at first.
LEMMA InitStart == DaemonInit => StartInv
  BY DEF DaemonInit, StartInv, Live

\* Every step of the two processes keeps it.
LEMMA NextStart == StartInv /\ [DaemonNext]_all => StartInv'
  <1> SUFFICES ASSUME StartInv, [DaemonNext]_all PROVE StartInv'
    OBVIOUS
  <1>1. CASE UNCHANGED all
    BY <1>1 DEF StartInv, Live, all, start
  <1>2. CASE ReadOptions \/ FirstInstance
    BY <1>2 DEF StartInv, Live, ReadOptions, FirstInstance, Goes, Leave
  <1>3. CASE Bind \/ Listen \/ Fork
    <2>1. CASE Bind
      <3>1. child = "none" /\ ~mounted /\ child' = child /\ mounted' = mounted /\ usable' = usable
        BY <2>1 DEF StartInv, Bind
      <3>2. \/ sock' = TRUE /\ usable /\ parent' = "listen"
            \/ sock' = sock /\ parent' = "ended" /\ exit' = "error"
        BY <2>1 DEF Bind, Goes, Leave
      <3>3. sock' \in BOOLEAN /\ (sock' => usable')
        <4>1. sock \in BOOLEAN /\ usable \in BOOLEAN /\ (sock => usable)
          BY DEF StartInv
        <4>2. CASE sock' = TRUE /\ usable
          BY <3>1, <4>2, Zenon
        <4>3. CASE sock' = sock
          BY <3>1, <4>1, <4>3, Zenon
        <4>4. QED
          BY <3>2, <4>2, <4>3, Zenon
      <3>4. QED
        BY <3>1, <3>2, <3>3 DEF StartInv, Live
    <2>2. CASE Listen
      BY <2>2 DEF StartInv, Live, Listen, Goes, Leave
    <2>3. CASE Fork
      BY <2>3 DEF StartInv, Live, Fork, Goes, Leave
    <2>4. QED
      BY <1>3, <2>1, <2>2, <2>3
  <1>4. CASE Mount
    BY <1>4 DEF StartInv, Live, Mount, Leave
  <1>5. CASE Serve
    BY <1>5 DEF StartInv, Live, Serve
  <1>6. CASE Run
    BY <1>6 DEF StartInv, Live, Run, start
  <1>7. CASE Umount
    BY <1>7 DEF StartInv, Live, Umount, Usr1, Ends
  <1>8. CASE Kill
    BY <1>8 DEF StartInv, Live, Kill, Ends
  <1>9. QED
    BY <1>1, <1>2, <1>3, <1>4, <1>5, <1>6, <1>7, <1>8 DEF DaemonNext, Parent

\* A child that serves nothing and waits for ever is left only by a main that
\* has reported an error.
THEOREM OrphansAreReported == DaemonSpec => []OrphanOnlyByFailedMount
  <1>1. StartInv => OrphanOnlyByFailedMount
    BY DEF StartInv, Live, OrphanOnlyByFailedMount
  <1>2. QED
    BY InitStart, NextStart, <1>1, PTL DEF DaemonSpec

\* The socket is left behind only by a main that failed between bind and fork
\* or by a child that was killed.
THEOREM SocketsLeft == DaemonSpec => []SocketLeft
  <1>1. StartInv => SocketLeft
    BY DEF StartInv, Live, SocketLeft
  <1>2. QED
    BY InitStart, NextStart, <1>1, PTL DEF DaemonSpec

----------------------------------------------------------------------------
(***************************************************************************)
(* The reference count, one connection at a time.                          *)
(***************************************************************************)
Busy    == {c \in Channels : chan[c].pc # "none"}
Counted == \E c \in Channels : chan[c].pc = "test"
One(b)  == IF b THEN 1 ELSE 0

CountTypes ==
    /\ activefs \in [size : {0, 1}, fs : Nat \ {0}, count : Int]
    /\ main \in [pc : {"accept", "find", "read", "write", "spawn"}, fs : Nat, count : Int]
    /\ chan \in [Channels -> [pc : {"none", "serve", "find", "read", "write", "test"},
                              fs : Nat, count : Int]]
    /\ made \in Nat /\ lost \in Nat /\ available \in BOOLEAN

\* One thread at a time is inside create or destroy.
OneSteps ==
    /\ main.pc # "accept" => \A c \in Channels : chan[c].pc \notin Stepping
    /\ \A c, d \in Channels : chan[c].pc \in Stepping /\ chan[d].pc \in Stepping => c = d

\* Threads use the instance there is, and no other has been left over.
OneInstance ==
    /\ objects = IF activefs.size = 1 THEN {activefs.fs} ELSE {}
    /\ \A c \in Channels : \/ chan[c].pc = "none" /\ chan[c].fs = NoFs
                           \/ chan[c].pc # "none" /\ chan[c].fs = activefs.fs /\ activefs.size = 1
    /\ main.pc \in {"read", "write", "spawn"} => activefs.size = 1
    /\ main.pc \in {"write", "spawn"} => main.fs = activefs.fs
    /\ available => activefs.size = 1 /\ activefs.fs = 1 /\ main.pc = "accept"
    /\ activefs.size = 0 => lost = 0

\* The count, with what a thread on its way has already added or taken.
Balanced ==
    /\ main.pc = "write" => main.count = activefs.count
    /\ \A c \in Channels : chan[c].pc = "write" => chan[c].count = activefs.count
    /\ activefs.size = 1 =>
        /\ activefs.count + One(Counted) > 0
        /\ activefs.count + One(Counted) =
               Cardinality(Busy) + lost + One(available) + One(main.pc = "spawn")

CountInv == CountTypes /\ OneSteps /\ OneInstance /\ Balanced

\* The set of busy threads is finite and holds each thread once.
LEMMA BusyFinite == IsFiniteSet(Busy) /\ Cardinality(Busy) \in Nat
  BY InstancesAssumption, FS_Subset, FS_CardinalityType DEF Busy

\* A process that has made nothing yet, or has ended.
Nothing ==
    /\ main = Idle /\ chan = Closed /\ lost = 0 /\ made = 0 /\ available = FALSE
    /\ activefs = NoEntry /\ objects = {}

\* The instance that lu_fsctl_mount has made, before any connection.
Single ==
    /\ main = Idle /\ chan = Closed /\ lost = 0 /\ made = 1 /\ available = TRUE
    /\ activefs = NewEntry(1) /\ objects = {1}

\* Where there is nothing there is nothing to count.
LEMMA EmptyCount == Nothing => CountInv
  <1> SUFFICES ASSUME Nothing PROVE CountInv
    OBVIOUS
  <1> USE DEF Nothing
  <1>1. activefs.size = 0 /\ activefs.fs = 1 /\ activefs = [size |-> 0, fs |-> 1, count |-> 0]
    BY DEF NoEntry, NewEntry
  <1>2. main.pc = "accept" /\ \A c \in Channels : chan[c].pc = "none" /\ chan[c].fs = NoFs
    BY DEF Idle, Closed
  <1>3. CountTypes
    <2>1. activefs \in [size : {0, 1}, fs : Nat \ {0}, count : Int]
      BY <1>1
    <2>2. main \in [pc : {"accept", "find", "read", "write", "spawn"}, fs : Nat, count : Int]
      BY DEF Idle, NoFs
    <2>3. chan \in [Channels -> [pc : {"none", "serve", "find", "read", "write", "test"},
                                 fs : Nat, count : Int]]
      BY DEF Closed, NoFs
    <2>4. QED
      BY <2>1, <2>2, <2>3 DEF CountTypes
  <1>4. OneSteps /\ OneInstance
    BY <1>1, <1>2 DEF OneSteps, OneInstance, Stepping
  <1>5. Balanced
    BY <1>1, <1>2 DEF Balanced
  <1>6. QED
    BY <1>3, <1>4, <1>5 DEF CountInv

\* The first instance has the one reference it was made with.
LEMMA FirstCount == Single => CountInv
  <1> SUFFICES ASSUME Single PROVE CountInv
    OBVIOUS
  <1> USE DEF Single
  <1>1. Busy = {} /\ ~Counted
    BY DEF Busy, Counted, Closed
  <1>2. Cardinality(Busy) = 0
    BY <1>1, FS_EmptySet
  <1>3. CountTypes /\ OneSteps /\ OneInstance
    <2>1. activefs = [size |-> 1, fs |-> 1, count |-> 1]
      BY DEF NewEntry
    <2>2. main.pc = "accept" /\ \A c \in Channels : chan[c].pc = "none" /\ chan[c].fs = NoFs
      BY DEF Idle, Closed
    <2>3. CountTypes
      BY <2>1 DEF CountTypes, Idle, Closed, NoFs
    <2>4. OneSteps /\ OneInstance
      BY <2>1, <2>2 DEF OneSteps, OneInstance, Stepping
    <2>5. QED
      BY <2>3, <2>4
  <1>4. Balanced
    BY <1>1, <1>2 DEF Balanced, Idle, Closed, NewEntry, One
  <1>5. QED
    BY <1>3, <1>4 DEF CountInv

\* The steps of lu_fsctl_run and of LiveCDFS::create.
LEMMA AcceptCount ==
    ASSUME OneAtATime, CountInv, Accept
    PROVE  CountInv'
  <1>1. /\ main.pc = "accept" /\ Quiet
        /\ main' = IF available THEN [main EXCEPT !.pc = "spawn", !.fs = 1]
                   ELSE [main EXCEPT !.pc = "find"]
        /\ available' = FALSE /\ UNCHANGED <<activefs, objects, made, chan, lost>>
    BY DEF Accept
  <1>2. Busy' = Busy /\ Counted' = Counted
    BY <1>1 DEF Busy, Counted
  <1>3. CountTypes'
    BY <1>1 DEF CountInv, CountTypes
  <1>4. OneSteps' /\ OneInstance'
    BY <1>1 DEF CountInv, CountTypes, OneSteps, OneInstance, Quiet
  <1>5. Balanced'
    BY <1>1, <1>2, BusyFinite DEF CountInv, CountTypes, OneInstance, Balanced, One
  <1>6. QED
    BY <1>3, <1>4, <1>5 DEF CountInv

\* create finds the entry, or makes the first instance with a count of one.
LEMMA CreateFindCount ==
    ASSUME CountInv, CreateFind
    PROVE  CountInv'
  <1>1. main.pc = "find" /\ UNCHANGED <<available, chan, lost>>
    BY DEF CreateFind
  <1>2. Busy' = Busy /\ Counted' = Counted /\ ~Counted
    BY <1>1 DEF Busy, Counted, CountInv, OneSteps, Stepping
  <1>3. CASE activefs.size = 0 /\ made' = made + 1 /\ objects' = objects \cup {made + 1}
             /\ activefs' = NewEntry(made + 1)
             /\ main' = [main EXCEPT !.pc = "spawn", !.fs = made + 1]
    <2>1. Busy = {} /\ lost = 0 /\ ~available /\ objects = {}
      BY <1>3 DEF CountInv, OneInstance, Busy
    <2>2. Cardinality(Busy) = 0
      BY <2>1, FS_EmptySet
    <2>3. CountTypes'
      <3>1. made + 1 \in Nat \ {0}
        BY DEF CountInv, CountTypes
      <3>2. activefs' \in [size : {0, 1}, fs : Nat \ {0}, count : Int]
        BY <1>3, <3>1 DEF NewEntry
      <3>3. main' \in [pc : {"accept", "find", "read", "write", "spawn"}, fs : Nat, count : Int]
        BY <1>3, <3>1 DEF CountInv, CountTypes
      <3>4. QED
        BY <1>1, <1>3, <3>1, <3>2, <3>3 DEF CountInv, CountTypes
    <2>4. OneSteps' /\ OneInstance'
      BY <1>1, <1>3, <2>1 DEF CountInv, CountTypes, OneSteps, OneInstance, NewEntry, Busy
    <2>5. Balanced'
      BY <1>1, <1>2, <1>3, <2>1, <2>2 DEF CountInv, CountTypes, OneSteps, Stepping, Balanced, NewEntry, One
    <2>6. QED
      BY <2>3, <2>4, <2>5 DEF CountInv
  <1>4. CASE UNCHANGED <<activefs, objects, made>>
             /\ \/ activefs.size = 1 /\ main' = [main EXCEPT !.pc = "read"]
                \/ activefs.size = 0 /\ main' = [main EXCEPT !.pc = "accept"]
    <2>1. CountTypes'
      BY <1>1, <1>4 DEF CountInv, CountTypes
    <2>2. OneSteps' /\ OneInstance'
      BY <1>1, <1>4 DEF CountInv, CountTypes, OneSteps, OneInstance
    <2>3. Balanced'
      BY <1>1, <1>2, <1>4 DEF CountInv, CountTypes, Balanced, One
    <2>4. QED
      BY <2>1, <2>2, <2>3 DEF CountInv
  <1>5. QED
    BY <1>3, <1>4 DEF CreateFind

\* create has the count it read only while no other step changes it.
LEMMA CreateReadCount ==
    ASSUME CountInv, CreateRead
    PROVE  CountInv'
  <1>1. /\ main.pc = "read" /\ main' = [pc |-> "write", fs |-> activefs.fs, count |-> activefs.count]
        /\ UNCHANGED <<activefs, objects, made, available, chan, lost>>
    BY DEF CreateRead
  <1>2. Busy' = Busy /\ Counted' = Counted
    BY <1>1 DEF Busy, Counted
  <1>3. CountTypes' /\ OneSteps' /\ OneInstance'
    BY <1>1 DEF CountInv, CountTypes, OneSteps, OneInstance
  <1>4. Balanced'
    BY <1>1, <1>2 DEF CountInv, Balanced, One
  <1>5. QED
    BY <1>3, <1>4 DEF CountInv

\* create counts the connection that main is about to give a thread.
LEMMA CreateWriteCount ==
    ASSUME CountInv, CreateWrite
    PROVE  CountInv'
  <1>1. /\ main.pc = "write" /\ activefs' = [activefs EXCEPT !.count = main.count + 1]
        /\ main' = [main EXCEPT !.pc = "spawn"]
        /\ UNCHANGED <<objects, made, available, chan, lost>>
    BY DEF CreateWrite
  <1>2. Busy' = Busy /\ Counted' = Counted
    BY <1>1 DEF Busy, Counted
  <1>3. CountTypes'
    BY <1>1 DEF CountInv, CountTypes
  <1>4. OneSteps' /\ OneInstance'
    BY <1>1 DEF CountInv, CountTypes, OneSteps, OneInstance
  <1>5. Balanced'
    BY <1>1, <1>2, BusyFinite DEF CountInv, CountTypes, OneSteps, Stepping, OneInstance, Balanced, One
  <1>6. QED
    BY <1>3, <1>4, <1>5 DEF CountInv

\* A new thread uses the instance; one that could not be made has its
\* reference all the same.
LEMMA SpawnCount ==
    ASSUME CountInv, Spawn
    PROVE  CountInv'
  <1>1. /\ main.pc = "spawn" /\ main' = [pc |-> "accept", fs |-> NoFs, count |-> 0]
        /\ UNCHANGED <<activefs, objects, made, available>>
    BY DEF Spawn
  <1>2. activefs.size = 1 /\ main.fs = activefs.fs /\ ~available
    BY <1>1 DEF CountInv, OneInstance
  <1>3. ASSUME NEW c \in Channels, chan[c].pc = "none", lost' = lost,
               chan' = [chan EXCEPT ![c] = [pc |-> "serve", fs |-> main.fs, count |-> 0]]
        PROVE  CountInv'
    <2>1. /\ chan'[c] = [pc |-> "serve", fs |-> main.fs, count |-> 0]
          /\ \A d \in Channels \ {c} : chan'[d] = chan[d]
      BY <1>3 DEF CountInv, CountTypes
    <2>2. Busy' = Busy \cup {c} /\ c \notin Busy /\ Counted' = Counted
      BY <1>3, <2>1 DEF Busy, Counted
    <2>3. Cardinality(Busy') = Cardinality(Busy) + 1
      BY <2>2, BusyFinite, FS_AddElement
    <2>4. CountTypes'
      BY <1>1, <1>3 DEF CountInv, CountTypes, NoFs
    <2>5. OneSteps' /\ OneInstance'
      BY <1>1, <1>2, <1>3, <2>1 DEF CountInv, OneSteps, OneInstance, Stepping
    <2>6. Balanced'
      BY <1>1, <1>2, <1>3, <2>1, <2>2, <2>3, BusyFinite DEF CountInv, CountTypes, Balanced, One
    <2>7. QED
      BY <2>4, <2>5, <2>6 DEF CountInv
  <1>4. CASE lost' = lost + 1 /\ chan' = chan
    <2>1. Busy' = Busy /\ Counted' = Counted
      BY <1>4 DEF Busy, Counted
    <2>2. CountTypes'
      BY <1>1, <1>4 DEF CountInv, CountTypes, NoFs
    <2>3. OneSteps' /\ OneInstance'
      BY <1>1, <1>2, <1>4 DEF CountInv, OneSteps, OneInstance
    <2>4. Balanced'
      BY <1>1, <1>2, <1>4, <2>1, BusyFinite DEF CountInv, CountTypes, Balanced, One
    <2>5. QED
      BY <2>2, <2>3, <2>4 DEF CountInv
  <1>5. QED
    BY <1>3, <1>4 DEF Spawn

\* The steps of a thread that ends and of LiveCDFS::destroy.
LEMMA DisconnectCount ==
    ASSUME OneAtATime, CountInv, NEW c \in Channels, Disconnect(c)
    PROVE  CountInv'
  <1>1. /\ chan[c].pc = "serve" /\ Quiet /\ chan' = [chan EXCEPT ![c].pc = "find"]
        /\ UNCHANGED <<activefs, objects, made, available, main, lost>>
    BY DEF Disconnect
  <1>2. /\ chan'[c] = [chan[c] EXCEPT !.pc = "find"]
        /\ \A d \in Channels \ {c} : chan'[d] = chan[d]
    BY <1>1 DEF CountInv, CountTypes
  <1>3. Busy' = Busy /\ Counted' = Counted
    BY <1>1, <1>2 DEF Busy, Counted, CountInv, CountTypes
  <1>4. CountTypes'
    BY <1>1 DEF CountInv, CountTypes
  <1>5. OneSteps'
    BY <1>1, <1>2 DEF CountInv, CountTypes, OneSteps, Quiet
  <1>6. OneInstance'
    BY <1>1, <1>2 DEF CountInv, CountTypes, OneInstance
  <1>7. Balanced'
    BY <1>1, <1>2, <1>3 DEF CountInv, CountTypes, Balanced, One
  <1>8. QED
    BY <1>4, <1>5, <1>6, <1>7 DEF CountInv

\* destroy finds the entry of its instance: it is in the vector while it has users.
LEMMA DestroyFindCount ==
    ASSUME CountInv, NEW c \in Channels, DestroyFind(c)
    PROVE  CountInv'
  <1>1. /\ chan[c].pc = "find" /\ activefs.size = 1 /\ activefs.fs = chan[c].fs
        /\ chan' = [chan EXCEPT ![c].pc = "read"]
        /\ UNCHANGED <<activefs, objects, made, available, main, lost>>
    BY DEF DestroyFind, CountInv, OneInstance
  <1>2. /\ chan'[c] = [chan[c] EXCEPT !.pc = "read"]
        /\ \A d \in Channels \ {c} : chan'[d] = chan[d]
    BY <1>1 DEF CountInv, CountTypes
  <1>3. Busy' = Busy /\ Counted' = Counted
    BY <1>1, <1>2 DEF Busy, Counted, CountInv, CountTypes
  <1>4. CountTypes'
    BY <1>1 DEF CountInv, CountTypes
  <1>5. OneSteps'
    BY <1>1, <1>2 DEF CountInv, CountTypes, OneSteps, Stepping
  <1>6. OneInstance'
    BY <1>1, <1>2 DEF CountInv, CountTypes, OneInstance
  <1>7. Balanced'
    BY <1>1, <1>2, <1>3 DEF CountInv, CountTypes, Balanced, One
  <1>8. QED
    BY <1>4, <1>5, <1>6, <1>7 DEF CountInv

\* destroy has the count it read only while no other step changes it.
LEMMA DestroyReadCount ==
    ASSUME CountInv, NEW c \in Channels, DestroyRead(c)
    PROVE  CountInv'
  <1>1. /\ chan[c].pc = "read"
        /\ chan' = [chan EXCEPT ![c].pc = "write", ![c].count = activefs.count]
        /\ UNCHANGED <<activefs, objects, made, available, main, lost>>
    BY DEF DestroyRead
  <1>2. /\ chan'[c] = [chan[c] EXCEPT !.pc = "write", !.count = activefs.count]
        /\ \A d \in Channels \ {c} : chan'[d] = chan[d]
    BY <1>1 DEF CountInv, CountTypes
  <1>3. Busy' = Busy /\ Counted' = Counted
    BY <1>1, <1>2 DEF Busy, Counted, CountInv, CountTypes
  <1>4. CountTypes'
    BY <1>1 DEF CountInv, CountTypes
  <1>5. OneSteps'
    BY <1>1, <1>2 DEF CountInv, CountTypes, OneSteps, Stepping
  <1>6. OneInstance'
    BY <1>1, <1>2 DEF CountInv, CountTypes, OneInstance
  <1>7. Balanced'
    BY <1>1, <1>2, <1>3 DEF CountInv, CountTypes, Balanced, One
  <1>8. QED
    BY <1>4, <1>5, <1>6, <1>7 DEF CountInv

\* destroy takes the connection out of the count, which its thread then tests.
LEMMA DestroyWriteCount ==
    ASSUME CountInv, NEW c \in Channels, DestroyWrite(c)
    PROVE  CountInv'
  <1>1. /\ chan[c].pc = "write"
        /\ activefs' = [activefs EXCEPT !.count = chan[c].count - 1]
        /\ chan' = [chan EXCEPT ![c].pc = "test"]
        /\ UNCHANGED <<objects, made, available, main, lost>>
    BY DEF DestroyWrite
  <1>2. /\ chan'[c] = [chan[c] EXCEPT !.pc = "test"]
        /\ \A d \in Channels \ {c} : chan'[d] = chan[d]
    BY <1>1 DEF CountInv, CountTypes
  <1>3. /\ activefs'.size = activefs.size /\ activefs'.fs = activefs.fs
        /\ activefs'.count = activefs.count - 1
    BY <1>1 DEF CountInv, CountTypes, Balanced
  <1>4. \A d \in Channels \ {c} : chan[d].pc \notin Stepping
    BY <1>1 DEF CountInv, OneSteps, Stepping
  <1>5. Busy' = Busy /\ Counted' /\ ~Counted
    BY <1>1, <1>2, <1>4 DEF Busy, Counted, CountInv, CountTypes, Stepping
  <1>6. CountTypes'
    BY <1>1 DEF CountInv, CountTypes
  <1>7. OneSteps'
    BY <1>1, <1>2 DEF CountInv, CountTypes, OneSteps, Stepping
  <1>8. OneInstance'
    BY <1>1, <1>2, <1>3 DEF CountInv, CountTypes, OneInstance
  <1>9. Balanced'
    <2>1. main.pc = "accept" /\ main' = main
      BY <1>1 DEF CountInv, OneSteps, Stepping
    <2>2. \A d \in Channels : chan'[d].pc # "write"
      BY <1>2, <1>4, <1>1 DEF Stepping, CountInv, CountTypes
    <2>3. activefs.count \in Int
      BY DEF CountInv, CountTypes
    <2>4. QED
      BY <1>1, <1>3, <1>5, <2>1, <2>2, <2>3 DEF CountInv, Balanced, One
  <1>10. QED
    BY <1>6, <1>7, <1>8, <1>9 DEF CountInv

\* The last thread deletes the instance, and only the last.
LEMMA DestroyTestCount ==
    ASSUME CountInv, NEW c \in Channels, DestroyTest(c)
    PROVE  CountInv'
  <1>1. /\ chan[c].pc = "test" /\ Exit(c) /\ UNCHANGED <<made, available, main, lost>>
        /\ IF activefs.count = 0
           THEN activefs' = [activefs EXCEPT !.size = 0] /\ objects' = objects \ {chan[c].fs}
           ELSE UNCHANGED <<activefs, objects>>
    BY DEF DestroyTest, Unused
  <1>2. /\ chan'[c] = [pc |-> "none", fs |-> NoFs, count |-> 0]
        /\ \A d \in Channels \ {c} : chan'[d] = chan[d]
    BY <1>1 DEF CountInv, CountTypes, Exit
  <1>3. main.pc = "accept" /\ \A d \in Channels \ {c} : chan[d].pc \notin Stepping
    BY <1>1 DEF CountInv, OneSteps, Stepping
  <1>4. activefs.size = 1 /\ chan[c].fs = activefs.fs /\ objects = {activefs.fs}
    BY <1>1 DEF CountInv, OneInstance
  <1>5. Busy' = Busy \ {c} /\ c \in Busy /\ Counted /\ ~Counted'
    BY <1>1, <1>2, <1>3 DEF Busy, Counted, Stepping
  <1>6. Cardinality(Busy') = Cardinality(Busy) - 1 /\ IsFiniteSet(Busy') /\ Cardinality(Busy') \in Nat
    BY <1>5, BusyFinite, FS_RemoveElement, FS_CardinalityType
  <1>7. /\ activefs.count \in Int /\ lost \in Nat /\ available \in BOOLEAN
        /\ activefs.count = Cardinality(Busy') + lost + One(available)
    BY <1>3, <1>4, <1>5, <1>6, BusyFinite DEF CountInv, CountTypes, Balanced, One
  <1>8. CountTypes' /\ OneSteps'
    <2>1. CountTypes'
      BY <1>1 DEF CountInv, CountTypes, Exit, NoFs
    <2>2. OneSteps'
      BY <1>1, <1>2, <1>3 DEF OneSteps, Stepping
    <2>3. QED
      BY <2>1, <2>2
  <1>9. CASE activefs.count = 0
    <2>1. Cardinality(Busy') = 0 /\ lost = 0 /\ ~available
      <3>1. One(available) \in {0, 1}
        BY DEF One
      <3>2. Cardinality(Busy') = 0 /\ lost = 0 /\ One(available) = 0
        <4>1. \A k, l, o \in Nat : 0 = k + l + o => k = 0 /\ l = 0 /\ o = 0
          OBVIOUS
        <4>2. Cardinality(Busy') \in Nat /\ lost \in Nat /\ One(available) \in Nat
          BY <1>6, <1>7, <3>1
        <4>3. 0 = Cardinality(Busy') + lost + One(available)
          BY <1>7, <1>9, Zenon
        <4>4. QED
          BY <4>1, <4>2, <4>3, Zenon
      <3>3. ~available
        <4>1. SUFFICES ASSUME available PROVE FALSE
          OBVIOUS
        <4>2. One(available) = 1
          BY <4>1 DEF One
        <4>3. QED
          BY <3>2, <4>2
      <3>4. QED
        BY <3>2, <3>3
    <2>2. Busy' = {}
      BY <1>6, <2>1, FS_EmptySet
    <2>3. \A d \in Channels : chan'[d].pc = "none"
      BY <2>2 DEF Busy
    <2>4. activefs'.size = 0 /\ objects' = {}
      BY <1>1, <1>4, <1>9 DEF CountInv, CountTypes
    <2>5. \A d \in Channels : chan'[d].fs = NoFs
      BY <1>2, <2>3 DEF CountInv, OneInstance
    <2>6. OneInstance'
      BY <1>1, <1>3, <2>1, <2>3, <2>4, <2>5 DEF OneInstance
    <2>7. Balanced'
      BY <1>1, <1>3, <2>3, <2>4 DEF Balanced
    <2>8. QED
      BY <1>8, <2>6, <2>7 DEF CountInv
  <1>10. CASE activefs.count # 0
    <2>1. UNCHANGED <<activefs, objects>> /\ activefs.count > 0
      BY <1>1, <1>6, <1>7, <1>10 DEF One
    <2>2. OneInstance'
      BY <1>1, <1>2, <1>3, <1>4, <2>1 DEF CountInv, OneInstance
    <2>3. \A d \in Channels : chan'[d].pc # "write"
      BY <1>2, <1>3 DEF Stepping
    <2>4. Balanced'
      BY <1>1, <1>3, <1>5, <1>6, <1>7, <2>1, <2>3 DEF Balanced, One
    <2>5. QED
      BY <1>8, <2>2, <2>4 DEF CountInv
  <1>11. QED
    BY <1>9, <1>10

\* Every step of the instances keeps the count right.
LEMMA NextCount ==
    ASSUME OneAtATime, CountInv, Next
    PROVE  CountInv'
  BY AcceptCount, CreateFindCount, CreateReadCount, CreateWriteCount, SpawnCount, DisconnectCount,
     DestroyFindCount, DestroyReadCount, DestroyWriteCount, DestroyTestCount DEF Next

----------------------------------------------------------------------------
(***************************************************************************)
(* The count, in the daemon.                                               *)
(***************************************************************************)

\* Before main has made the first instance there is nothing to count.
Unstarted ==
    parent \in {"options", "instance"} => Nothing

DaemonInv == StartInv /\ CountInv /\ Unstarted

\* Before main there is neither an instance nor a process that could leave one.
LEMMA InitDaemon == DaemonInit => DaemonInv
  <1> SUFFICES ASSUME DaemonInit PROVE DaemonInv
    OBVIOUS
  <1>1. StartInv /\ Unstarted
    BY InitStart DEF DaemonInit, Unstarted, Nothing
  <1>2. CountInv
    BY EmptyCount DEF DaemonInit, Nothing
  <1>3. QED
    BY <1>1, <1>2 DEF DaemonInv

\* What keeps the instances keeps the count, and a process that ends leaves
\* nothing to count.
LEMMA SameCount ==
    ASSUME CountInv, UNCHANGED vars
    PROVE  CountInv'
  <1>1. UNCHANGED <<activefs, objects, made, available, main, chan, lost>>
    BY DEF vars
  <1>2. Busy' = Busy /\ Counted' = Counted
    BY <1>1 DEF Busy, Counted
  <1>3. QED
    BY <1>1, <1>2 DEF CountInv, CountTypes, OneSteps, OneInstance, Balanced

\* Every step of the daemon keeps the count right.
LEMMA NextDaemon == OneAtATime /\ DaemonInv /\ [DaemonNext]_all => DaemonInv'
  <1> SUFFICES ASSUME OneAtATime, DaemonInv, [DaemonNext]_all PROVE DaemonInv'
    OBVIOUS
  <1>1. StartInv'
    BY NextStart DEF DaemonInv
  <1>2. CASE UNCHANGED all
    BY <1>1, <1>2, SameCount DEF DaemonInv, Unstarted, Nothing, all, start, vars
  <1>3. CASE ReadOptions
    BY <1>1, <1>3, SameCount DEF ReadOptions, Goes, Leave, DaemonInv, Unstarted, Nothing, vars
  <1>4. CASE FirstInstance
    <2>1. CASE Leave("error") /\ UNCHANGED vars
      BY <1>1, <2>1, SameCount DEF Leave, DaemonInv, Unstarted
    <2>2. CASE /\ Goes("bind")
               /\ activefs' = NewEntry(1) /\ objects' = {1} /\ made' = 1 /\ available' = TRUE
               /\ UNCHANGED <<main, chan, lost>>
      <3>1. Single'
        BY <1>4, <2>2 DEF FirstInstance, DaemonInv, Unstarted, Nothing, Single, Idle, Closed
      <3>2. CountInv'
        BY <3>1, FirstCount, PTL
      <3>3. QED
        BY <1>1, <2>2, <3>2 DEF Goes, DaemonInv, Unstarted
    <2>3. QED
      BY <1>4, <2>1, <2>2 DEF FirstInstance
  <1>5. CASE Bind \/ Listen \/ Fork \/ Mount
    <2>1. UNCHANGED vars /\ parent' \notin {"options", "instance"}
      BY <1>5 DEF Bind, Listen, Fork, Mount, Goes, Leave
    <2>2. QED
      BY <1>1, <2>1, SameCount DEF DaemonInv, Unstarted
  <1>6. CASE Serve
    <2>1. UNCHANGED vars /\ parent' = parent
      BY <1>6 DEF Serve
    <2>2. QED
      BY <1>1, <2>1, SameCount DEF DaemonInv, Unstarted, Nothing, vars
  <1>7. CASE Run
    <2>1. Next /\ parent' = parent /\ parent \notin {"options", "instance"}
      BY <1>7 DEF Run, start, DaemonInv, StartInv
    <2>2. QED
      BY <1>1, <2>1, NextCount DEF DaemonInv, Unstarted
  <1>8. ASSUME NEW how, Ends(how), parent' = parent PROVE DaemonInv'
    <2>1. Nothing'
      BY <1>8 DEF Ends, Nothing
    <2>2. CountInv'
      BY <2>1, EmptyCount, PTL
    <2>3. QED
      BY <1>1, <2>1, <2>2 DEF DaemonInv, Unstarted
  <1>9. CASE Umount
    <2>1. parent' = parent
      BY <1>9 DEF Umount
    <2>2. CASE Usr1
      BY <1>8, <2>1, <2>2 DEF Usr1
    <2>3. CASE UNCHANGED vars
      BY <1>1, <2>1, <2>3, SameCount DEF DaemonInv, Unstarted, Nothing, vars
    <2>4. QED
      BY <1>9, <2>2, <2>3 DEF Umount
  <1>10. CASE Kill
    BY <1>8, <1>10 DEF Kill
  <1>11. QED
    BY <1>2, <1>3, <1>4, <1>5, <1>6, <1>7, <1>9, <1>10 DEF DaemonNext, Parent

\* Between connections the count is that of the users.
LEMMA CountIsOfUsers ==
    ASSUME CountInv
    PROVE  CountsUsers /\ InUseNotDestroyed
  <1>1. InUseNotDestroyed
    BY DEF CountInv, OneInstance, InUseNotDestroyed
  <1>2. SUFFICES ASSUME Quiet
                 PROVE  /\ objects = IF activefs.size = 1 THEN {activefs.fs} ELSE {}
                        /\ activefs.size = 1 =>
                             /\ activefs.count > 0
                             /\ activefs.count = Cardinality(Users(activefs.fs)) + lost
                                                     + (IF available THEN 1 ELSE 0)
                        /\ \A c \in Channels : chan[c].fs \in objects \cup {NoFs}
    BY <1>1, <1>2 DEF CountsUsers
  <1>3. ~Counted /\ main.pc = "accept"
    BY <1>2 DEF Quiet, Counted, Stepping
  <1>4. ASSUME activefs.size = 1
        PROVE  /\ activefs.count > 0
               /\ activefs.count = Cardinality(Users(activefs.fs)) + lost
                                       + (IF available THEN 1 ELSE 0)
    <2>1. activefs.fs # NoFs
      BY DEF CountInv, CountTypes, NoFs
    <2>2. Users(activefs.fs) = Busy
      BY <2>1 DEF Users, Busy, CountInv, OneInstance
    <2>3. activefs.count \in Int /\ lost \in Nat /\ available \in BOOLEAN
      BY DEF CountInv, CountTypes
    <2>4. QED
      BY <1>3, <1>4, <2>2, <2>3, BusyFinite DEF CountInv, Balanced, One
  <1>5. QED
    BY <1>4 DEF CountInv, OneInstance

\* Where connections come and go one at a time, the count of the instance is
\* right after each, failed threads and killed daemons included: the instance
\* lives just as long as it has users.
THEOREM CountIsRight ==
    ASSUME OneAtATime
    PROVE  DaemonSpec => []CountsUsers
  <1>1. DaemonInv => CountsUsers
    BY CountIsOfUsers DEF DaemonInv
  <1>2. QED
    BY InitDaemon, NextDaemon, <1>1, PTL DEF DaemonSpec
=============================================================================
