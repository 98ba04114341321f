------------------------------- MODULE Lufsd -------------------------------
(***************************************************************************)
(* filesystem.c: the handlers of lufsd.  Every channel is a thread with a  *)
(* connection to the kernel; it takes one request at a time, calls the     *)
(* file system and the directory cache, and replies.  The file system,     *)
(* LiveCDFS, is seen here as the directories it shows: fs[d][n] is 0 when  *)
(* d has no n, and else tells the attributes of n apart.  A name is that   *)
(* of a file, or of the directory DirAt says.                              *)
(***************************************************************************)
EXTENDS DirCache

CONSTANTS
    Channels,  \* the threads of lu_fsctl_run
    Names,     \* names of the entries of a directory
    DirAt,     \* the directory an entry is the name of, if it is one: a set
    Versions   \* how many attributes of a name are told apart

ASSUME ListingsAssumption ==
    /\ Versions \in Nat \ {0}
    /\ Listings = [Names -> 0 .. Versions]

Place == Dirs \X Names

ASSUME TreeAssumption ==
    /\ DirAt \in [Place -> SUBSET Dirs]
    /\ \A p \in Place : p[1] \notin DirAt[p]

VARIABLES
    fs,      \* what the file system holds
    cache,   \* fs_ctl::cache
    chan,    \* what each channel is doing
    untold   \* a history: cached directories that changed without the cache

vars == <<fs, cache, chan, untold>>

Ops   == {"readdir", "stat", "readlink", "write", "open", "setattr",
          "create", "unlink", "rename", "link"}
\* create stands for mkdir, too, and unlink for rmdir, where the name is that of
\* a directory.  A channel is idle or in a request op for the names at and to.  todo are the
\* directories still to be invalidated, list is the directory a handler has
\* read, and after the reply the one it sent.
Nothing == [n \in Names |-> 0]

Init ==
    /\ fs \in [Dirs -> [Names -> 0 .. 1]]
    /\ cache = EmptyCache
    /\ \E p \in Place :
           chan = [c \in Channels |->
               [pc |-> "idle", op |-> "none", at |-> p, to |-> p,
                list |-> Nothing, todo |-> <<>>, reply |-> "none"]]
    /\ untold = {}

\* The file system shows a directory: its name is there.
There(d) == \A p \in Place : d \in DirAt[p] => fs[p[1]][p[2]] # 0

\* The directories the cache has a valid listing of.
Listed(C) == {d \in Dirs : Found(C, d)}

----------------------------------------------------------------------------
(***************************************************************************)
(* The kernel's VFS holds the semaphore of a directory while it reads it,  *)
(* changes an entry of it or removes it.                                   *)
(***************************************************************************)
Holds(op, at, to) ==
    CASE op \in {"readdir", "create"} -> {at[1]}
      [] op = "unlink"                -> {at[1]} \cup DirAt[at]
      [] op = "rename"                          -> {at[1], to[1]}
      [] op = "link"                            -> {to[1]}
      [] OTHER                                  -> {}

Held(d) == {c \in Channels : /\ chan[c].pc # "idle"
                             /\ d \in Holds(chan[c].op, chan[c].at, chan[c].to)}

Request(c) ==
    /\ chan[c].pc = "idle"
    /\ \E op \in Ops, at, to \in Place :
        /\ op \notin {"rename", "link"} => to = at
        /\ op \in {"rename", "link"} => to # at
        /\ \A d \in Holds(op, at, to) : Held(d) = {}
        /\ chan' = [chan EXCEPT ![c] =
               [pc |-> "called", op |-> op, at |-> at, to |-> to,
                list |-> Nothing, todo |-> <<>>, reply |-> "none"]]
    /\ UNCHANGED <<fs, cache, untold>>

----------------------------------------------------------------------------
Dir(c)  == chan[c].at[1]
Name(c) == chan[c].at[2]

Goto(c, pc) == chan' = [chan EXCEPT ![c].pc = pc]
Answer(c, reply, list) ==
    chan' = [chan EXCEPT ![c] = [@ EXCEPT !.pc = "idle", !.op = "none", !.to = chan[c].at,
                                          !.list = list, !.reply = reply]]

\* Nobody is in the endless loop of lu_cache_add_dir, which holds the lock.
Unlocked == \A c \in Channels : chan[c].pc # "shrinking"

\* generic_readdir: lu_cache_readdir before and after the directory is read.
ReaddirCached(c, otherwise) ==
    /\ Unlocked
    /\ cache' = Search(cache, Dir(c))
    /\ IF Found(cache, Dir(c)) THEN Answer(c, "OK", Cached(cache, Dir(c)).list)
       ELSE otherwise
    /\ UNCHANGED <<fs, untold>>

generic_readdir(c) ==
    /\ chan[c].op = "readdir"
    /\ \/ chan[c].pc = "called" /\ ReaddirCached(c, Goto(c, "fill"))
       \/ /\ chan[c].pc = "fill"
          /\ \/ /\ There(Dir(c))
                /\ chan' = [chan EXCEPT ![c].pc = "add", ![c].list = fs[Dir(c)]]
             \/ Answer(c, "ERROR", Nothing)
          /\ UNCHANGED <<fs, cache, untold>>
       \/ /\ chan[c].pc = "add" /\ Unlocked
          /\ cache' = AddDir(cache, Dir(c), chan[c].list)
          /\ untold' = untold \ {Dir(c)}
          /\ Goto(c, IF ShrinkEnds THEN "list" ELSE "shrinking") /\ UNCHANGED fs
       \/ chan[c].pc = "list" /\ ReaddirCached(c, Answer(c, "ERROR", Nothing))

\* generic_stat and generic_readlink look the name up in the cached listing
\* of its directory first.  LiveCDFS caches no link texts, so readlink asks
\* the file system all the same.
OneName(c, v) == [n \in Names |-> IF n = Name(c) THEN v ELSE 0]

generic_stat(c) ==
    /\ chan[c].op \in {"stat", "readlink"} /\ UNCHANGED <<fs, untold>>
    /\ \/ /\ chan[c].pc = "called" /\ Unlocked
          /\ cache' = Search(cache, Dir(c))
          /\ LET hit == /\ Found(cache, Dir(c))
                        /\ Cached(cache, Dir(c)).list[Name(c)] # 0
             IN  IF hit /\ chan[c].op = "stat"
                 THEN Answer(c, "OK", OneName(c, Cached(cache, Dir(c)).list[Name(c)]))
                 ELSE Goto(c, "ask")
       \/ /\ chan[c].pc = "ask" /\ cache' = cache
          /\ LET v == fs[Dir(c)][Name(c)]
             IN  Answer(c, IF v = 0 THEN "ERROR" ELSE "OK", OneName(c, v))

\* generic_write and generic_open change attributes and tell the cache nothing.
\* Attributes change, too, when a request fails after it has copied the file.
Set(p, v) == [fs EXCEPT ![p[1]][p[2]] = v]
Touch(p)  == Set(p, (fs[p[1]][p[2]] % Versions) + 1)

Touched(c) == IF fs[Dir(c)][Name(c)] = 0 THEN {fs} ELSE {fs, Touch(chan[c].at)}

generic_write(c) ==
    /\ chan[c].op \in {"write", "open"} /\ chan[c].pc = "called"
    /\ fs' \in Touched(c)
    /\ \/ fs[Dir(c)][Name(c)] # 0 /\ Answer(c, "OK", Nothing)
       \/ Answer(c, "ERROR", Nothing)
    /\ UNCHANGED <<cache, untold>>

\* Mutants of Outdated: not the second directory; none after an unlink.
OutdatedFirst(c) == <<Dir(c)>>
OutdatedNotUnlink(c) == IF chan[c].op = "unlink" THEN <<>> ELSE <<Dir(c), chan[c].to[1]>>

\* The directories whose listings a successful request invalidates.
Outdated(c) == IF chan[c].op \in {"rename", "link"} THEN <<Dir(c), chan[c].to[1]>> ELSE <<Dir(c)>>

\* The name is there, or must not be.  LiveCDFS renames no directories, and the
\* kernel links none.
CanChange(c) ==
    /\ (fs[Dir(c)][Name(c)] = 0) <=> (chan[c].op = "create")
    /\ chan[c].op = "link" => fs[chan[c].to[1]][chan[c].to[2]] = 0
    /\ chan[c].op \in {"rename", "link"} => DirAt[chan[c].at] \cup DirAt[chan[c].to] = {}

\* A directory that is made again shows what the CD has there, or other files.
SameDirs(F, d) == \A n \in Names : DirAt[<<d, n>>] # {} => F[d][n] = fs[d][n]
Remade(c) ==
    {[Set(chan[c].at, 1) EXCEPT ![d] = l] : d \in DirAt[chan[c].at], l \in Listings}

\* What setattr, rename and link can make of the file system, and create
\* (symlink is like it) and unlink.
Changed(c) ==
    LET at == chan[c].at
        to == chan[c].to
        v  == fs[at[1]][at[2]]
    IN  CASE chan[c].op = "setattr" -> {Touch(at)}
          [] chan[c].op = "create"  ->
                 IF DirAt[at] = {} THEN {Set(at, 1)}
                 ELSE {F \in Remade(c) : \A d \in DirAt[at] : SameDirs(F, d)}
          [] chan[c].op = "unlink"  -> {Set(at, 0)}
          [] chan[c].op = "rename"  -> {[Set(to, v) EXCEPT ![at[1]][at[2]] = 0]}
          [] chan[c].op = "link"    -> {Set(to, v)}

\* The directory that is made or removed.  It is not told of: only the listing
\* its name is in is invalidated.
Itself(c) == IF chan[c].op \in {"create", "unlink"} THEN DirAt[chan[c].at] ELSE {}

\* rmdir hides a directory of the CD even when it fails.
HidesAll(c) == chan[c].op = "unlink" /\ CanChange(c) /\ DirAt[chan[c].at] # {}

\* The handlers of these requests: the call, then, unless it failed, one or
\* two calls of lu_cache_invalidate.
generic_change(c) ==
    /\ chan[c].op \in {"setattr", "create", "unlink", "rename", "link"}
    /\ \/ /\ chan[c].pc = "called"
          /\ \/ /\ CanChange(c) /\ fs' \in Changed(c)
                /\ chan' = [chan EXCEPT ![c].pc = "inval", ![c].todo = Outdated(c)]
                /\ untold' = untold \cup (Itself(c) \cap Listed(cache))
             \/ Answer(c, "ERROR", Nothing) /\ fs' \in Touched(c) /\ untold' = untold
             \/ /\ HidesAll(c) /\ Answer(c, "ERROR", Nothing) /\ fs' = Set(chan[c].at, 0)
                /\ untold' = untold \cup (({Dir(c)} \cup Itself(c)) \cap Listed(cache))
          /\ UNCHANGED cache
       \/ /\ chan[c].pc = "inval" /\ chan[c].todo # <<>> /\ Unlocked
          /\ cache' = Invalidate(cache, Head(chan[c].todo))
          /\ chan' = [chan EXCEPT ![c].todo = Tail(@)]
          /\ untold' = untold \ {Head(chan[c].todo)}
          /\ UNCHANGED fs
       \/ /\ chan[c].pc = "inval" /\ chan[c].todo = <<>>
          /\ Answer(c, "OK", Nothing)
          /\ UNCHANGED <<fs, cache, untold>>

\* The kernel has closed all its connections and makes new ones.  LiveCDFS has
\* been destroyed and reads .whiteout again, so names come back, or go that
\* could not be taken from the file; the cache stays as it is.
Reconnect ==
    /\ \A c \in Channels : chan[c].pc = "idle"
    /\ fs' \in [Dirs -> Listings]
    /\ untold' = Listed(cache)
    /\ UNCHANGED <<cache, chan>>

\* time(NULL) goes on.
Tick ==
    /\ cache' = Aged(cache)
    /\ untold' = untold \cap Listed(cache')
    /\ UNCHANGED <<fs, chan>>

Next ==
    \/ \E c \in Channels : \/ Request(c) \/ generic_readdir(c) \/ generic_stat(c)
                           \/ generic_write(c) \/ generic_change(c)
    \/ Tick \/ Reconnect

Spec == Init /\ [][Next]_vars
=============================================================================
