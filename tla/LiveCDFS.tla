------------------------------ MODULE LiveCDFS ------------------------------
(***************************************************************************)
(* The class LiveCDFS: a union of a writable directory rw_tmp and a CD     *)
(* ro_root, served to the kernel one request at a time.  Each action is a  *)
(* do... method from the request to the reply.  The kernel (its name       *)
(* lookups, its table of open files) is not part of the source; it appears *)
(* as the guard of each request and as the variable kfile.                 *)
(***************************************************************************)
EXTENDS UnionPath, Whiteout

CONSTANTS
    Image,         \* the CD as it was burnt
    RootWritable,  \* TRUE: ro_root lies on a medium that accepts writes
    Texts,         \* the link texts users pass to symlink(2)
    Fds,           \* the kernel's open files
    MaxHandles     \* bound on the entries of the handle list

ASSUME ImageAssumption ==
    /\ Image \in Layer
    /\ IsTree(Image)
    /\ \A p \in Paths : /\ Image[p].ino = NoIno
                        /\ Image[p].to.form \in {"none", "rel", "abs"}
                        /\ Image[p].kind = "absent" => Image[p] = Absent
                        /\ Image[p].kind = "dir" => Image[p] = DirNode

ASSUME RequestsAssumption ==
    /\ RootWritable \in BOOLEAN
    /\ Texts \subseteq [form : {"rel", "abs"}, path : Paths]
    /\ MaxHandles \in Nat

VARIABLES
    cd,       \* the layer at ro_root
    rw,       \* the layer at rw_tmp
    wo,       \* LiveCDFS::whiteout, and the file .whiteout
    handles,  \* LiveCDFS::handles: how many entries each name has
    kfile,    \* the kernel's open files
    reply     \* the reply to the last request; "none" if it never came

vars == <<cd, rw, wo, handles, kfile, reply>>

Closed == [open |-> FALSE, path |-> <<>>, acc |-> "r", linked |-> FALSE]
Opened(p, acc) == [open |-> TRUE, path |-> p, acc |-> acc, linked |-> TRUE]
KFile  == [open : BOOLEAN, path : Paths, acc : {"r", "w"}, linked : BOOLEAN]

Init ==
    /\ cd = Image
    /\ rw = [p \in Paths |-> IF p = <<>> THEN DirNode ELSE Absent]
    /\ wo = [entries |-> <<>>, file |-> <<>>]
    /\ handles = [p \in Paths |-> 0]
    /\ kfile = [f \in Fds |-> Closed]
    /\ reply = "OK"

----------------------------------------------------------------------------
(***************************************************************************)
(* What a user of the mount sees.                                          *)
(***************************************************************************)

\* doStat: hidden names fail, others are looked up in rw_tmp, then on the CD.
Stat(p) == IF IsVisible(wo, p) THEN MkPath(cd, rw, p) ELSE Absent

\* The kernel resolves a name a component at a time.
Walkable(p) == \A q \in Above(p) : Stat(q).kind = "dir"

Seen(p) == IF Walkable(p) THEN [Stat(p) EXCEPT !.ino = NoIno] ELSE Absent

View == [p \in Paths |-> Seen(p)]

\* doReaddir: the visible entries of the directory in rw_tmp, and those of
\* the directory on the CD that are not in rw_tmp.
Entries(L, d) == {p \in Paths : p # <<>> /\ Parent(p) = d /\ Exists(L[p])}

\* Mutant of Listing: the second loop forgets the whiteouts.
ListingUnfiltered(d) ==
    {p \in Entries(rw, d) : IsVisible(wo, p)} \cup
    (IF IsVisible(wo, d) /\ HasMode(cd[d], "dir") THEN Entries(cd, d) \ Entries(rw, d) ELSE {})

Listing(d) ==
    LET fromTmp  == {p \in Entries(rw, d) : IsVisible(wo, p)}
        fromRoot == {p \in Entries(cd, d) \ Entries(rw, d) : IsVisible(wo, p)}
    IN  fromTmp \cup (IF IsVisible(wo, d) /\ HasMode(cd[d], "dir") THEN fromRoot ELSE {})

----------------------------------------------------------------------------
(***************************************************************************)
(* The kernel: which requests it sends, and its open files.                *)
(***************************************************************************)
Serving     == reply # "none"
Present(p)  == Exists(Seen(p))
Negative(p) == p # <<>> /\ Walkable(p) /\ ~Exists(Stat(p))
IsOpen(f)   == kfile[f].open

FreeFd == {f \in Fds : ~IsOpen(f)}

\* An open file whose name is taken away keeps that name: d_delete.
Orphan(p) == [f \in Fds |-> IF kfile[f].linked /\ kfile[f].path = p
                            THEN [kfile[f] EXCEPT !.linked = FALSE] ELSE kfile[f]]

\* An open file follows a rename, and loses its name to one: d_move.
Move(old, new) ==
    [f \in Fds |-> IF ~kfile[f].linked THEN kfile[f]
                   ELSE CASE kfile[f].path = old -> [kfile[f] EXCEPT !.path = new]
                          [] kfile[f].path = new -> [kfile[f] EXCEPT !.linked = FALSE]
                          [] OTHER               -> kfile[f]]

\* whiteout->setVisible(p, true) and (p, false): what the whiteouts can become.
Show(p) == SetVisibleEnds(wo, p, TRUE, DiskMayFill)
Hide(p) == SetVisibleEnds(wo, p, FALSE, DiskMayFill)

\* The three ways a request that changes rw_tmp ends.
Done(rw2, wos) == rw' = rw2 /\ wo' \in wos /\ reply' = "OK"
Fails(rw2)     == rw' = rw2 /\ wo' = wo /\ reply' = "ERROR" /\ UNCHANGED <<cd, handles, kfile>>
Hangs(rw2)     == rw' = rw2 /\ wo' = wo /\ reply' = "none" /\ UNCHANGED <<cd, handles, kfile>>

----------------------------------------------------------------------------
(***************************************************************************)
(* The requests.                                                           *)
(***************************************************************************)
doStat(p) ==
    /\ Serving /\ Walkable(p)
    /\ reply' = IF Exists(Stat(p)) THEN "OK" ELSE "ERROR"
    /\ UNCHANGED <<cd, rw, wo, handles, kfile>>

doReadlink(p) ==
    /\ Serving /\ Seen(p).kind = "lnk"
    /\ reply' = "OK"
    /\ UNCHANGED <<cd, rw, wo, handles, kfile>>

\* Listing a directory that rw_tmp lacks makes it there.
doReaddir(d) ==
    /\ Serving /\ Seen(d).kind = "dir"
    /\ Done(RecurseMkdir(rw, d), {wo})
    /\ UNCHANGED <<cd, handles, kfile>>

\* open(2): what doOpen makes in rw_tmp before the file is opened.
ToOpen(p, acc, creat) ==
    CASE creat -> {MakeDirFor(cd, rw, p)}
      [] ~creat /\ acc = "w" /\ HasMode(cd[p], "reg") -> CopyUp(cd, rw, p)
      [] OTHER -> {rw}

\* Handles::add
AddHandle(p) == [handles EXCEPT ![p] = @ + 1]

\* With O_EXCL, open() of a file that rw_tmp has fails.
doOpen(p, acc, creat, trunc) ==
    /\ Serving /\ Seen(p).kind = "reg" /\ FreeFd # {}
    /\ handles[p] < MaxHandles
    /\ trunc => acc = "w"
    /\ \E rw1 \in ToOpen(p, acc, creat) :
        LET new  == creat /\ CanCreate(rw1, p)
            node == IF creat \/ acc = "w" THEN rw1[p] ELSE MkPath(cd, rw1, p)
        IN  \/ /\ node.kind = "reg" \/ new
               /\ Done(CASE new                -> NewFile(rw1, p, Empty)
                         [] trunc /\ ~new      -> SetData(rw1, p, Empty)
                         [] OTHER              -> rw1,
                       IF creat THEN Show(p) ELSE {wo})
               /\ handles' = AddHandle(p)
               /\ kfile' = [kfile EXCEPT ![CHOOSE f \in FreeFd : TRUE] = Opened(p, acc)]
               /\ UNCHANGED cd
            \/ /\ IF new THEN DiskMayFill ELSE creat \/ node.kind # "reg"
               /\ Fails(rw1)

\* Mutant of EraseHandle: the iterator is not compared with the end.
EraseHandleUnfound(p) == [handles EXCEPT ![p] = @ - 1]

\* Handles::find and erase
EraseHandle(p) == IF handles[p] > 0 THEN [handles EXCEPT ![p] = @ - 1] ELSE handles

\* close(2).  The handle is looked up by the name the file has now.
doRelease(f) ==
    /\ Serving /\ IsOpen(f)
    /\ handles' = EraseHandle(kfile[f].path)
    /\ kfile' = [kfile EXCEPT ![f] = Closed]
    /\ reply' = "OK"
    /\ UNCHANGED <<cd, rw, wo>>

\* doRead and doWrite open the file again, by its name and over the
\* whiteouts.
Reopened(f) ==
    LET p == kfile[f].path IN Follow(cd, rw, LayerOf(cd, rw, p), p)
NodeOf(end) == IF end.layer = "tmp" THEN rw[end.path] ELSE cd[end.path]

\* How reading there ends: no file is there, a read error, a device that does
\* as it likes, a pipe that open() waits at.
ReadEnds(end) ==
    IF end = Nowhere THEN {"ERROR"}
    ELSE CASE NodeOf(end).kind = "reg"  -> IF end.layer = "root" /\ end.path \in Endless
                                           THEN {"OK", "ERROR"} ELSE {"OK"}
           [] NodeOf(end).kind = "fifo" -> {"none"}
           [] NodeOf(end).kind \in {"chr", "blk"} -> {"OK", "ERROR", "none"}
           [] OTHER                     -> {"ERROR"}

doRead(f) ==
    /\ Serving /\ IsOpen(f)
    /\ reply' \in ReadEnds(Reopened(f))
    /\ UNCHANGED <<cd, rw, wo, handles, kfile>>

\* What the write() of d leaves in a file, if it does not fail.  generic_write
\* answers "OK" to a short count, too.  What is written to a device is not
\* modelled.
Written(d) == {d} \cup (IF DiskMayFill THEN {Torn} ELSE {})

doWrite(f, d) ==
    /\ Serving /\ IsOpen(f) /\ kfile[f].acc = "w"
    /\ LET end == Reopened(f)
           reg == end # Nowhere /\ NodeOf(end).kind = "reg"
       IN  \/ /\ reg /\ end.layer = "tmp"
              /\ \E d2 \in Written(d) : rw' = SetData(rw, end.path, d2)
              /\ reply' = "OK" /\ cd' = cd
           \/ /\ reg /\ end.layer = "root" /\ RootWritable
              /\ \E d2 \in Written(d) : cd' = SetData(cd, end.path, d2)
              /\ reply' = "OK" /\ rw' = rw
           \/ /\ \/ ~reg /\ reply' \in ReadEnds(end)
                 \/ reg /\ end.layer = "root" /\ ~RootWritable /\ reply' = "ERROR"
                 \/ reg /\ DiskMayFill /\ reply' = "ERROR"
              /\ cd' = cd /\ rw' = rw
    /\ UNCHANGED <<wo, handles, kfile>>

\* Mutant of doMkdir: the name is shown whether mkdir() succeeds or not.
doMkdirShown(d) ==
    /\ Serving /\ Negative(d)
    /\ wo' \in Show(d)
    /\ rw' = IF CanAdd(rw, d) THEN Put(rw, d, DirNode) ELSE rw
    /\ reply' = IF CanAdd(rw, d) THEN "OK" ELSE "ERROR"
    /\ UNCHANGED <<cd, handles, kfile>>

\* mkdir(2): the parent is not made first.
doMkdir(d) ==
    /\ Serving /\ Negative(d)
    /\ \/ /\ CanAdd(rw, d)
          /\ Done(Put(rw, d, DirNode), Show(d))
          /\ UNCHANGED <<cd, handles, kfile>>
       \/ (~CanAdd(rw, d) \/ DiskMayFill) /\ Fails(rw)

\* rmdir(2).  The kernel refuses while a file below d is open.  Whatever
\* rmdir() of the directory in rw_tmp returns, one on the CD is hidden, and
\* whether that one is empty is not asked.
doRmdir(d) ==
    /\ Serving /\ d # <<>> /\ Seen(d).kind = "dir"
    /\ \A f \in Fds : IsOpen(f) => ~IsPrefix(d, kfile[f].path)
    /\ LET full == Exists(rw[d]) /\ Entries(rw, d) # {}
       IN  /\ rw' = IF full THEN rw ELSE Put(rw, d, Absent)
           /\ wo' \in IF Exists(cd[d]) THEN Hide(d) ELSE {wo}
           /\ reply' = IF full THEN "ERROR" ELSE "OK"
    /\ UNCHANGED <<cd, handles, kfile>>

\* Mutant of doUnlink: the CD is not looked at when rw_tmp had the file.
doUnlinkTmpOnly(p) ==
    /\ Serving /\ Seen(p).kind \in FileKinds
    /\ Done(Put(rw, p, Absent),
            IF Exists(cd[p]) /\ ~Exists(rw[p]) THEN Hide(p) ELSE {wo})
    /\ kfile' = Orphan(p)
    /\ UNCHANGED <<cd, handles>>

doUnlink(p) ==
    /\ Serving /\ Seen(p).kind \in FileKinds
    /\ Done(Put(rw, p, Absent),
            IF Exists(cd[p]) THEN Hide(p) ELSE {wo})
    /\ kfile' = Orphan(p)
    /\ UNCHANGED <<cd, handles>>

\* creat(2).  getDir looks at the CD even under a whiteout: for the name of a
\* removed directory it is that name, and recurseMkdir makes a directory of it.
doCreate(p) ==
    /\ Serving /\ Negative(p)
    /\ LET rw1 == MakeDirFor(cd, rw, p)
       IN  \/ /\ CanCreate(rw1, p)
              /\ Done(NewFile(rw1, p, Empty), Show(p))
              /\ UNCHANGED <<cd, handles, kfile>>
           \/ (~CanCreate(rw1, p) \/ DiskMayFill) /\ Fails(rw1)

\* rename(2) within rw_tmp: onto nothing or a file, and without effect when
\* both are names of one file.
CanRename(L, old, new) == Exists(L[old]) /\ L[Parent(new)].kind = "dir" /\ L[new].kind # "dir"
Renamed(L, old, new) ==
    IF L[old].ino # NoIno /\ L[new].ino = L[old].ino THEN L
    ELSE Put(Put(L, new, L[old]), old, Absent)

\* Mutants of HideOldShowNew: one of the two calls is missing.
HideOld(old, new) == Hide(old)
ShowNew(old, new) == Show(new)

\* The whiteouts after a rename.
HideOldShowNew(old, new) ==
    UNION {SetVisibleEnds(w, new, TRUE, DiskMayFill) : w \in Hide(old)}

\* The directory of the new name is not made first.
doRename(old, new) ==
    /\ Serving /\ Present(old) /\ old # new /\ old # <<>>
    /\ Negative(new) \/ (Present(new) /\ new # <<>> /\
                         (Seen(new).kind = "dir" <=> Seen(old).kind = "dir"))
    /\ ~IsPrefix(old, new) /\ ~IsPrefix(new, old)
    /\ \/ IsDir(cd, rw, old) /\ Fails(rw)
       \/ /\ ~IsDir(cd, rw, old)
          /\ \E rw1 \in CopyUp(cd, rw, old) :
              \/ CopyUpHangs(cd, rw, old) /\ Hangs(rw1)
              \/ /\ ~CopyUpHangs(cd, rw, old) /\ CanRename(rw1, old, new)
                 /\ Done(Renamed(rw1, old, new),
                         HideOldShowNew(old, new))
                 /\ kfile' = Move(old, new)
                 /\ UNCHANGED <<cd, handles>>
              \/ /\ ~CopyUpHangs(cd, rw, old)
                 /\ ~CanRename(rw1, old, new) \/ DiskMayFill
                 /\ Fails(rw1)

(***************************************************************************)
(* doLinkAll up to the link() or symlink(): the directories of both names  *)
(* are made, and the target is copied to rw_tmp.  The text of a symbolic   *)
(* link, even a relative one, is taken for a name below "/".               *)
(***************************************************************************)
MadeFor(l, t) ==
    LET rw1 == MakeDirFor(cd, rw, l)
    IN  IF Exists(MkPath(cd, rw1, t)) /\ ~IsDir(cd, rw1, t) THEN MakeDirFor(cd, rw1, t) ELSE rw1
Target(l, t) ==
    IF Exists(cd[t]) THEN CopyUp(cd, MadeFor(l, t), t) ELSE {MadeFor(l, t)}
TargetHangs(l, t) == Exists(cd[t]) /\ CopyUpHangs(cd, MadeFor(l, t), t)

\* link(2): not of a directory, not across to the CD.
doLink(t, l) ==
    /\ Serving /\ Seen(t).kind \in FileKinds /\ Negative(l)
    /\ \E rw1 \in Target(l, t) :
        LET linkable == rw1[t].kind \in {"reg", "lnk"} /\ CanAdd(rw1, l) IN
        \/ TargetHangs(l, t) /\ Hangs(rw1)
        \/ /\ ~TargetHangs(l, t) /\ linkable
           /\ Done(Put(rw1, l, rw1[t]), Show(l))
           /\ UNCHANGED <<cd, handles, kfile>>
        \/ ~TargetHangs(l, t) /\ (~linkable \/ DiskMayFill) /\ Fails(rw1)

\* starget: an absolute text that names something becomes the path of that
\* thing in its layer.
TextOf(rw1, text) ==
    IF text.form = "rel" THEN text
    ELSE IF Exists(At(rw1, text.path)) THEN [text EXCEPT !.form = "tmp"]
    ELSE IF Exists(cd[text.path]) THEN [text EXCEPT !.form = "root"]
    ELSE text

\* symlink(2).  The kernel passes any text; those that lead through a link
\* are left out.  Only an absolute text can be found among the whiteouts.
doSymlink(text, l) ==
    /\ Serving /\ Negative(l)
    /\ \A q \in Above(text.path) : MkPath(cd, rw, q).kind # "lnk"
    /\ \/ text.form = "abs" /\ Hidden(wo, text.path) /\ Fails(rw)
       \/ /\ text.form = "rel" \/ IsVisible(wo, text.path)
          /\ \E rw1 \in Target(l, text.path) :
              \/ TargetHangs(l, text.path) /\ Hangs(rw1)
              \/ /\ ~TargetHangs(l, text.path) /\ CanAdd(rw1, l)
                 /\ Done(Put(rw1, l, Link(TextOf(rw1, text))), Show(l))
                 /\ UNCHANGED <<cd, handles, kfile>>
              \/ /\ ~TargetHangs(l, text.path)
                 /\ ~CanAdd(rw1, l) \/ DiskMayFill
                 /\ Fails(rw1)

\* chmod(2), chown(2), utime(2) and, with shrink, truncate(2).  Owner, mode
\* and times are not modelled, nor is a size larger than the file's, which
\* the code ignores.
doSetattr(p, shrink) ==
    /\ Serving /\ Present(p) /\ (shrink => Seen(p).kind = "reg")
    /\ \E rw1 \in CopyUp(cd, rw, p) :
        \/ CopyUpHangs(cd, rw, p) /\ Hangs(rw1)
        \/ /\ ~CopyUpHangs(cd, rw, p) /\ Exists(rw1[p])
           /\ Done(IF shrink THEN SetData(rw1, p, Empty) ELSE rw1, {wo})
           /\ UNCHANGED <<cd, handles, kfile>>
        \/ ~CopyUpHangs(cd, rw, p) /\ ~Exists(rw1[p]) /\ Fails(rw1)

\* The last connection of the kernel closes and a new one is made:
\* LiveCDFS::destroy, then LiveCDFS::create over the same rw_tmp.
Remount ==
    /\ Serving /\ FreeFd = Fds
    /\ wo' \in LoadEnds(wo, DiskMayFill)
    /\ handles' = [p \in Paths |-> 0]
    /\ reply' = "OK"
    /\ UNCHANGED <<cd, rw, kfile>>

----------------------------------------------------------------------------
Next ==
    \/ \E p \in Paths :
         \/ doStat(p) \/ doReadlink(p) \/ doReaddir(p)
         \/ doMkdir(p) \/ doRmdir(p) \/ doUnlink(p) \/ doCreate(p)
         \/ \E shrink \in BOOLEAN : doSetattr(p, shrink)
         \/ \E acc \in {"r", "w"}, creat, trunc \in BOOLEAN : doOpen(p, acc, creat, trunc)
         \/ \E q \in Paths : doRename(p, q) \/ doLink(p, q)
         \/ \E text \in Texts : doSymlink(text, p)
    \/ \E f \in Fds : doRelease(f) \/ doRead(f) \/ \E d \in Data : doWrite(f, d)
    \/ Remount

Spec == Init /\ [][Next]_vars
=============================================================================
