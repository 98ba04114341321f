--------------------------- MODULE LiveCDFSProofs ---------------------------
(***************************************************************************)
(* Proofs about LiveCDFS for any set of names, any CD image -- links and   *)
(* devices included -- and any number of inodes and open files, full disk  *)
(* or not, save where CopiesFaithful is assumed.  Its types and the list   *)
(* of hidden names; both layers stay trees, and an open file that has its  *)
(* name is found under it; what a request may change of what users see;    *)
(* and, at the end, that they see one tree.                                *)
(***************************************************************************)
EXTENDS LiveCDFSProperties, WhiteoutProofs, SequenceTheorems, FiniteSetTheorems, TLAPS

----------------------------------------------------------------------------
(***************************************************************************)
(* Lemmas about layers.                                                    *)
(***************************************************************************)

\* The nodes the operations make are nodes.
LEMMA NodeTypes ==
    /\ Absent \in Node /\ DirNode \in Node
    /\ \A i \in Inodes, d \in Data : File(i, d) \in Node
    /\ \A t \in Text : Link(t) \in Node
  BY PathsAssumption, DataAssumption
     DEF Absent, DirNode, File, Link, Node, NoText, Text, Kinds, FileKinds

\* Putting a node at a name of a layer gives a layer.
LEMMA PutType ==
    ASSUME NEW L \in Layer, NEW p, NEW n \in Node
    PROVE  Put(L, p, n) \in Layer
  BY DEF Put, Layer

\* recurseMkdir gives a layer.
LEMMA RecurseMkdirType ==
    ASSUME NEW L \in Layer, NEW p
    PROVE  RecurseMkdir(L, p) \in Layer
  BY NodeTypes DEF RecurseMkdir, Layer

\* Writing a file gives a layer.
LEMMA SetDataType ==
    ASSUME NEW L \in Layer, NEW p, NEW d \in Data
    PROVE  SetData(L, p, d) \in Layer
  <1>1. ASSUME NEW q \in Paths PROVE L[q] \in Node /\ [L[q] EXCEPT !.data = d] \in Node
    BY DEF Layer, Node
  <1>2. QED
    BY <1>1 DEF SetData, Layer

\* A new file is made with an inode of rw_tmp, as one is free.
LEMMA NewFileType ==
    ASSUME NEW L \in Layer, NEW p, NEW d \in Data, CanCreate(L, p)
    PROVE  NewFile(L, p, d) \in Layer
  <1>1. NextIno(L) \in Inodes
    BY DEF CanCreate, NextIno, FreeInodes
  <1>2. QED
    BY <1>1, NodeTypes, PutType DEF NewFile

\* Where an open() ends is a name of the model.
LEMMA FollowType ==
    ASSUME NEW C, NEW L, NEW layer, NEW p, Follow(C, L, layer, p) # Nowhere
    PROVE  Follow(C, L, layer, p).path \in Paths
  BY DEF Follow, At, Absent

\* copyTmp gives layers, whatever it finds on the CD.
LEMMA CopyTmpType ==
    ASSUME NEW C \in Layer, NEW L \in Layer, NEW p
    PROVE  CopyTmp(C, L, p) \subseteq Layer
  <1> DEFINE L1 == MakeDirFor(C, L, p)
             src == Follow(C, L1, "root", p)
  <1>1. L1 \in Layer
    BY RecurseMkdirType DEF MakeDirFor
  <1>2. CASE src = Nowhere \/ ~CanCreate(L1, p)
    BY <1>1, <1>2 DEF CopyTmp
  <1>3. CASE src # Nowhere /\ CanCreate(L1, p)
    <2>1. src.path \in Paths
      BY <1>3, FollowType
    <2>2. CopyOf(C, src.path) \subseteq Data
      BY <2>1, DataAssumption DEF CopyOf, Layer, Node
    <2>3. \A d \in Data : NewFile(L1, p, d) \in Layer
      BY <1>1, <1>3, NewFileType
    <2>4. QED
      BY <1>3, <2>2, <2>3 DEF CopyTmp
  <1>4. QED
    BY <1>2, <1>3

\* A name that is in rw_tmp is not copied; for any other copyTmp gives a layer.
LEMMA CopyUpType ==
    ASSUME NEW C \in Layer, NEW L \in Layer, NEW p
    PROVE  CopyUp(C, L, p) \subseteq Layer
  BY CopyTmpType DEF CopyUp

----------------------------------------------------------------------------
(***************************************************************************)
(* The invariant: types, and whiteouts that are distinct and, unless the   *)
(* disk fills, stored.  The three ways a request ends keep it.             *)
(***************************************************************************)
Inv == TypeOK /\ Kept(wo, DiskMayFill)

AllKept(W) == \A w \in W : w \in Whiteouts(Paths) /\ Kept(w, DiskMayFill)

\* What setVisible leaves is kept, the same on disk or not.
LEMMA VisibleKept ==
    ASSUME Inv, NEW p \in Paths
    PROVE  AllKept({wo}) /\ AllKept(Show(p)) /\ AllKept(Hide(p))
  <1>1. wo \in Whiteouts(Paths) /\ DiskMayFill \in BOOLEAN /\ Kept(wo, DiskMayFill)
    BY DataAssumption DEF Inv, TypeOK
  <1>2. ASSUME NEW v \in BOOLEAN, NEW u \in SetVisibleEnds(wo, p, v, DiskMayFill)
        PROVE  u \in Whiteouts(Paths) /\ Kept(u, DiskMayFill)
    BY <1>1, SetVisibleEndsType
  <1>3. QED
    BY <1>1, <1>2 DEF AllKept, Show, Hide

\* A shown name is not hidden, a hidden one is, and no other has changed.
LEMMA VisibleHides ==
    ASSUME Inv, NEW p \in Paths
    PROVE  /\ \A u \in Show(p) : \A q : Hidden(u, q) <=> q # p /\ Hidden(wo, q)
           /\ \A u \in Hide(p) : \A q : Hidden(u, q) <=> q = p \/ Hidden(wo, q)
  <1>1. wo \in Whiteouts(Paths) /\ DiskMayFill \in BOOLEAN /\ Kept(wo, DiskMayFill)
    BY DataAssumption DEF Inv, TypeOK
  <1>2. ASSUME NEW v \in BOOLEAN, NEW u \in SetVisibleEnds(wo, p, v, DiskMayFill)
        PROVE  \A q : Hidden(u, q) <=> IF q = p THEN ~v ELSE Hidden(wo, q)
    BY <1>1, SetVisibleEndsHide
  <1>3. \A u \in Show(p) : \A q : Hidden(u, q) <=> q # p /\ Hidden(wo, q)
    BY <1>2 DEF Show
  <1>4. \A u \in Hide(p) : \A q : Hidden(u, q) <=> q = p \/ Hidden(wo, q)
    BY <1>2 DEF Hide
  <1>5. QED
    BY <1>3, <1>4

\* A reply OK keeps the invariant when it leaves a layer and a kept list.
LEMMA DoneKeepsInv ==
    ASSUME Inv, NEW L \in Layer, NEW W, AllKept(W), Done(L, W),
           cd' = cd, handles' \in [Paths -> Nat], kfile' \in [Fds -> KFile]
    PROVE  Inv'
  BY DEF Inv, TypeOK, Done, AllKept

\* An error reply leaves the list alone: the invariant needs only the layer.
LEMMA FailsKeepsInv ==
    ASSUME Inv, NEW L \in Layer, Fails(L) \/ Hangs(L)
    PROVE  Inv'
  BY DEF Inv, TypeOK, Fails, Hangs

\* The replies that leave everything else alone.
LEMMA ReplyKeepsInv ==
    ASSUME Inv, reply' \in {"OK", "ERROR", "none"}, UNCHANGED <<cd, rw, wo, handles, kfile>>
    PROVE  Inv'
  BY DEF Inv, TypeOK

\* An empty rw_tmp and an empty list satisfy the invariant.
LEMMA InitInv == Init => Inv
  <1> SUFFICES ASSUME Init PROVE Inv
    OBVIOUS
  <1>1. cd \in Layer /\ rw \in Layer
    BY ImageAssumption, NodeTypes DEF Init, Layer
  <1>2. wo \in Whiteouts(Paths) /\ Kept(wo, DiskMayFill)
    BY DEF Init, Whiteouts, Kept, Distinct
  <1>3. handles \in [Paths -> Nat] /\ kfile \in [Fds -> KFile] /\ reply \in {"OK", "ERROR", "none"}
    BY PathsAssumption DEF Init, KFile, Closed
  <1>4. QED
    BY <1>1, <1>2, <1>3 DEF Inv, TypeOK

\* The kernel's table stays one when a name is taken away or moved.
LEMMA KFileTypes ==
    ASSUME TypeOK, NEW p \in Paths, NEW q \in Paths
    PROVE  Orphan(p) \in [Fds -> KFile] /\ Move(p, q) \in [Fds -> KFile]
  <1>1. ASSUME NEW f \in Fds
        PROVE  /\ kfile[f] \in KFile
               /\ [kfile[f] EXCEPT !.linked = FALSE] \in KFile
               /\ [kfile[f] EXCEPT !.path = q] \in KFile
    BY DEF TypeOK, KFile
  <1>2. QED
    BY <1>1 DEF Orphan, Move

\* doStat and doReadlink change nothing but the reply.
LEMMA StatStep ==
    ASSUME Inv, NEW p \in Paths, doStat(p) \/ doReadlink(p)
    PROVE  Inv'
  BY ReplyKeepsInv DEF doStat, doReadlink

\* doReaddir changes rw_tmp by recurseMkdir only.
LEMMA ReaddirStep ==
    ASSUME Inv, NEW d \in Paths, doReaddir(d)
    PROVE  Inv'
  <1>1. RecurseMkdir(rw, d) \in Layer
    BY RecurseMkdirType DEF Inv, TypeOK
  <1>2. QED
    BY <1>1, VisibleKept, DoneKeepsInv DEF doReaddir, Inv, TypeOK

\* doMkdir makes a directory and shows its name, or fails.
LEMMA MkdirStep ==
    ASSUME Inv, NEW d \in Paths, doMkdir(d)
    PROVE  Inv'
  <1>1. Put(rw, d, DirNode) \in Layer /\ rw \in Layer
    BY PutType, NodeTypes DEF Inv, TypeOK
  <1>2. QED
    BY <1>1, VisibleKept, DoneKeepsInv, FailsKeepsInv DEF doMkdir, Inv, TypeOK

\* doRmdir hides a directory of the CD whether it removed one or not.
LEMMA RmdirStep ==
    ASSUME Inv, NEW d \in Paths, doRmdir(d)
    PROVE  Inv'
  <1>1. rw' \in Layer
    BY PutType, NodeTypes DEF doRmdir, Inv, TypeOK
  <1>2. wo' \in Whiteouts(Paths) /\ Kept(wo', DiskMayFill)
    BY VisibleKept DEF doRmdir, AllKept
  <1>3. QED
    BY <1>1, <1>2 DEF doRmdir, Inv, TypeOK

\* doUnlink removes a name from rw_tmp, hides it, and orphans its open files.
LEMMA UnlinkStep ==
    ASSUME Inv, NEW p \in Paths, doUnlink(p)
    PROVE  Inv'
  <1> DEFINE W == IF Exists(cd[p]) THEN Hide(p) ELSE {wo}
  <1>1. Put(rw, p, Absent) \in Layer
    BY PutType, NodeTypes DEF Inv, TypeOK
  <1>2. AllKept(W)
    BY VisibleKept
  <1>3. Orphan(p) \in [Fds -> KFile]
    BY KFileTypes DEF Inv
  <1>4. QED
    BY <1>1, <1>2, <1>3, DoneKeepsInv DEF doUnlink, Inv, TypeOK

\* doCreate makes the parents, then the file, and shows its name.
LEMMA CreateStep ==
    ASSUME Inv, NEW p \in Paths, doCreate(p)
    PROVE  Inv'
  <1> DEFINE L == MakeDirFor(cd, rw, p)
  <1>1. L \in Layer
    BY RecurseMkdirType DEF MakeDirFor, Inv, TypeOK
  <1>2. CanCreate(L, p) => NewFile(L, p, Empty) \in Layer
    BY <1>1, NewFileType, DataAssumption
  <1>3. QED
    BY <1>1, <1>2, VisibleKept, DoneKeepsInv, FailsKeepsInv DEF doCreate, Inv, TypeOK

\* doOpen copies up or creates, truncates, and adds a handle.
LEMMA OpenStep ==
    ASSUME Inv, NEW p \in Paths, NEW acc \in {"r", "w"}, NEW creat \in BOOLEAN,
           NEW trunc \in BOOLEAN, doOpen(p, acc, creat, trunc)
    PROVE  Inv'
  <1> DEFINE W == IF creat THEN Show(p) ELSE {wo}
             new(L) == creat /\ CanCreate(L, p)
             L2(L) == CASE new(L) -> NewFile(L, p, Empty)
                        [] trunc /\ ~new(L) -> SetData(L, p, Empty)
                        [] OTHER -> L
  <1>1. ToOpen(p, acc, creat) \subseteq Layer
    BY RecurseMkdirType, CopyUpType DEF ToOpen, MakeDirFor, Inv, TypeOK
  <1>2. \A L \in Layer : L2(L) \in Layer
    <2>1. TAKE L \in Layer
    <2>2. new(L) => NewFile(L, p, Empty) \in Layer
      BY NewFileType, DataAssumption
    <2>3. SetData(L, p, Empty) \in Layer
      BY SetDataType, DataAssumption
    <2>4. QED
      BY <2>2, <2>3
  <1>3. AllKept(W)
    BY VisibleKept
  <1>4. AddHandle(p) \in [Paths -> Nat]
    BY DEF AddHandle, Inv, TypeOK
  <1>5. \A f \in Fds : [kfile EXCEPT ![f] = Opened(p, acc)] \in [Fds -> KFile]
    BY DEF Opened, KFile, Inv, TypeOK
  <1>6. (CHOOSE f \in FreeFd : TRUE) \in Fds
    BY DEF doOpen, FreeFd
  <1>7. PICK L \in ToOpen(p, acc, creat) :
           \/ /\ Done(L2(L), W)
              /\ handles' = AddHandle(p)
              /\ kfile' = [kfile EXCEPT ![CHOOSE f \in FreeFd : TRUE] = Opened(p, acc)]
              /\ cd' = cd
           \/ Fails(L)
    BY DEF doOpen
  <1> HIDE DEF W, L2
  <1>8. CASE Fails(L)
    BY <1>1, <1>8, FailsKeepsInv
  <1>9. CASE ~Fails(L)
    <2>1. L2(L) \in Layer /\ Done(L2(L), W) /\ cd' = cd
      BY <1>1, <1>2, <1>7, <1>9
    <2>2. handles' \in [Paths -> Nat] /\ kfile' \in [Fds -> KFile]
      BY <1>4, <1>5, <1>6, <1>7, <1>9
    <2>3. QED
      BY <1>3, <2>1, <2>2, DoneKeepsInv
  <1>10. QED
    BY <1>8, <1>9

\* doRelease erases at most one handle, and none that is not there.
LEMMA ReleaseStep ==
    ASSUME Inv, NEW f \in Fds, doRelease(f)
    PROVE  Inv'
  <1>1. kfile[f].path \in Paths
    BY DEF Inv, TypeOK, KFile
  <1>2. EraseHandle(kfile[f].path) \in [Paths -> Nat]
    BY <1>1 DEF EraseHandle, Inv, TypeOK
  <1>3. [kfile EXCEPT ![f] = Closed] \in [Fds -> KFile]
    BY PathsAssumption DEF Closed, KFile, Inv, TypeOK
  <1>4. QED
    BY <1>2, <1>3 DEF doRelease, Inv, TypeOK

\* doRead changes nothing but the reply.
LEMMA ReadStep ==
    ASSUME Inv, NEW f \in Fds, doRead(f)
    PROVE  Inv'
  BY ReplyKeepsInv DEF doRead, ReadEnds

\* What is left in a file is a content, torn or not.
LEMMA WrittenData ==
    ASSUME NEW d \in Data
    PROVE  Written(d) \subseteq Data
  BY DataAssumption DEF Written

\* doWrite writes one of the two layers, the one the name leads to.
LEMMA WriteStep ==
    ASSUME Inv, NEW f \in Fds, NEW d \in Data, doWrite(f, d)
    PROVE  Inv'
  <1> DEFINE end == Reopened(f)
  <1>1. \A d2 \in Written(d) : SetData(rw, end.path, d2) \in Layer /\ SetData(cd, end.path, d2) \in Layer
    BY SetDataType, WrittenData DEF Inv, TypeOK
  <1>2. cd' \in Layer /\ rw' \in Layer /\ reply' \in {"OK", "ERROR", "none"}
    BY <1>1 DEF doWrite, ReadEnds, Inv, TypeOK
  <1>3. QED
    BY <1>2 DEF doWrite, Inv, TypeOK

\* doRename copies up, moves, and calls setVisible for both names.
LEMMA RenameStep ==
    ASSUME Inv, NEW old \in Paths, NEW new \in Paths, doRename(old, new)
    PROVE  Inv'
  <1> DEFINE W == HideOldShowNew(old, new)
  <1>1. CopyUp(cd, rw, old) \subseteq Layer /\ rw \in Layer
    BY CopyUpType DEF Inv, TypeOK
  <1>2. AllKept(W)
    <2>1. AllKept(Hide(old)) /\ DiskMayFill \in BOOLEAN
      BY VisibleKept, DataAssumption
    <2>2. ASSUME NEW w \in Hide(old), NEW v \in BOOLEAN,
                 NEW u \in SetVisibleEnds(w, new, v, DiskMayFill)
          PROVE  u \in Whiteouts(Paths) /\ Kept(u, DiskMayFill)
      <3>1. w \in Whiteouts(Paths) /\ Kept(w, DiskMayFill)
        BY <2>1 DEF AllKept
      <3>2. QED
        BY <2>1, <2>2, <3>1, SetVisibleEndsType
    <2>3. QED
      BY <2>2 DEF HideOldShowNew, AllKept
  <1>3. Move(old, new) \in [Fds -> KFile] /\ handles \in [Paths -> Nat]
    BY KFileTypes DEF Inv, TypeOK
  <1>4. \A L \in Layer : Renamed(L, old, new) \in Layer
    <2>1. TAKE L \in Layer
    <2>2. L[old] \in Node
      BY DEF Layer
    <2>3. QED
      BY <2>2, PutType, NodeTypes DEF Renamed
  <1> HIDE DEF W
  <1>5. \/ Fails(rw)
        \/ \E L \in CopyUp(cd, rw, old) :
             \/ Hangs(L) \/ Fails(L)
             \/ Done(Renamed(L, old, new), W) /\ kfile' = Move(old, new) /\ UNCHANGED <<cd, handles>>
    BY DEF doRename, W
  <1>6. CASE Fails(rw)
    BY <1>1, <1>6, FailsKeepsInv
  <1>7. ASSUME NEW L \in CopyUp(cd, rw, old), Hangs(L) \/ Fails(L) PROVE Inv'
    BY <1>1, <1>7, FailsKeepsInv
  <1>8. ASSUME NEW L \in CopyUp(cd, rw, old), Done(Renamed(L, old, new), W),
               kfile' = Move(old, new), UNCHANGED <<cd, handles>>
        PROVE  Inv'
    BY <1>1, <1>2, <1>3, <1>4, <1>8, DoneKeepsInv
  <1>9. QED
    BY <1>5, <1>6, <1>7, <1>8

\* What doLinkAll prepares in rw_tmp is a layer.
LEMMA TargetType ==
    ASSUME Inv, NEW l \in Paths, NEW t \in Paths
    PROVE  Target(l, t) \subseteq Layer
  <1>1. MadeFor(l, t) \in Layer
    BY RecurseMkdirType DEF MadeFor, MakeDirFor, Inv, TypeOK
  <1>2. QED
    BY <1>1, CopyUpType DEF Target, Inv, TypeOK

\* doLink makes a second name of the target in rw_tmp.
LEMMA LinkStep ==
    ASSUME Inv, NEW t \in Paths, NEW l \in Paths, doLink(t, l)
    PROVE  Inv'
  <1>1. AllKept(Show(l))
    BY VisibleKept
  <1>2. \A L \in Layer : Put(L, l, L[t]) \in Layer
    BY PutType DEF Layer
  <1>3. PICK L \in Target(l, t) :
          \/ Hangs(L) \/ Fails(L)
          \/ Done(Put(L, l, L[t]), Show(l)) /\ UNCHANGED <<cd, handles, kfile>>
    BY DEF doLink
  <1>4. L \in Layer
    BY TargetType
  <1>5. CASE Hangs(L) \/ Fails(L)
    BY <1>4, <1>5, FailsKeepsInv
  <1>6. CASE Done(Put(L, l, L[t]), Show(l)) /\ UNCHANGED <<cd, handles, kfile>>
    BY <1>1, <1>2, <1>4, <1>6, DoneKeepsInv DEF Inv, TypeOK
  <1>7. QED
    BY <1>3, <1>5, <1>6

\* doSymlink makes a link whose text doLinkAll may have rewritten.
LEMMA SymlinkStep ==
    ASSUME Inv, NEW text \in Texts, NEW l \in Paths, doSymlink(text, l)
    PROVE  Inv'
  <1>1. AllKept(Show(l))
    BY VisibleKept
  <1>2. text \in [form : {"rel", "abs"}, path : Paths]
    BY RequestsAssumption
  <1>3. \A L : TextOf(L, text) \in Text
    BY <1>2 DEF TextOf, Text
  <1>4. \A L \in Layer : Put(L, l, Link(TextOf(L, text))) \in Layer
    BY <1>3, PutType, NodeTypes
  <1>5. \/ Fails(rw)
        \/ \E L \in Target(l, text.path) :
             \/ Hangs(L) \/ Fails(L)
             \/ Done(Put(L, l, Link(TextOf(L, text))), Show(l)) /\ UNCHANGED <<cd, handles, kfile>>
    BY DEF doSymlink
  <1>6. Target(l, text.path) \subseteq Layer /\ rw \in Layer
    BY <1>2, TargetType DEF Inv, TypeOK
  <1>7. CASE Fails(rw)
    BY <1>6, <1>7, FailsKeepsInv
  <1>8. ASSUME NEW L \in Target(l, text.path), Hangs(L) \/ Fails(L) PROVE Inv'
    BY <1>6, <1>8, FailsKeepsInv
  <1>9. ASSUME NEW L \in Target(l, text.path), Done(Put(L, l, Link(TextOf(L, text))), Show(l)),
               UNCHANGED <<cd, handles, kfile>>
        PROVE  Inv'
    BY <1>1, <1>4, <1>6, <1>9, DoneKeepsInv DEF Inv, TypeOK
  <1>10. QED
    BY <1>5, <1>7, <1>8, <1>9

\* doSetattr copies up and may shrink the file.
LEMMA SetattrStep ==
    ASSUME Inv, NEW p \in Paths, NEW shrink \in BOOLEAN, doSetattr(p, shrink)
    PROVE  Inv'
  <1> DEFINE L2(L) == IF shrink THEN SetData(L, p, Empty) ELSE L
  <1>1. CopyUp(cd, rw, p) \subseteq Layer
    BY CopyUpType DEF Inv, TypeOK
  <1>2. \A L \in Layer : L2(L) \in Layer
    BY SetDataType, DataAssumption
  <1> HIDE DEF L2
  <1>3. PICK L \in CopyUp(cd, rw, p) :
          \/ Hangs(L) \/ Fails(L)
          \/ Done(L2(L), {wo}) /\ UNCHANGED <<cd, handles, kfile>>
    BY DEF doSetattr, L2
  <1>4. CASE Hangs(L) \/ Fails(L)
    BY <1>1, <1>4, FailsKeepsInv
  <1>5. CASE Done(L2(L), {wo}) /\ UNCHANGED <<cd, handles, kfile>>
    BY <1>1, <1>2, <1>5, VisibleKept, DoneKeepsInv DEF Inv, TypeOK
  <1>6. QED
    BY <1>3, <1>4, <1>5

\* A reconnection loads some of the list, and load stores what it can.
LEMMA RemountStep ==
    ASSUME Inv, Remount
    PROVE  Inv'
  <1>1. wo' \in Whiteouts(Paths) /\ Kept(wo', DiskMayFill)
    BY LoadEndsType, DataAssumption DEF Remount, Inv, TypeOK
  <1>2. QED
    BY <1>1 DEF Remount, Inv, TypeOK

\* Every step keeps the invariant: one case for each request.
LEMMA NextInv == Inv /\ [Next]_vars => Inv'
  <1> SUFFICES ASSUME Inv, [Next]_vars PROVE Inv'
    OBVIOUS
  <1>1. CASE UNCHANGED vars
    BY <1>1 DEF vars, Inv, TypeOK
  <1>2. ASSUME NEW p \in Paths,
               \/ doStat(p) \/ doReadlink(p) \/ doReaddir(p)
               \/ doMkdir(p) \/ doRmdir(p) \/ doUnlink(p) \/ doCreate(p)
               \/ \E shrink \in BOOLEAN : doSetattr(p, shrink)
               \/ \E acc \in {"r", "w"}, creat, trunc \in BOOLEAN : doOpen(p, acc, creat, trunc)
               \/ \E q \in Paths : doRename(p, q) \/ doLink(p, q)
               \/ \E text \in Texts : doSymlink(text, p)
        PROVE  Inv'
    BY <1>2, StatStep, ReaddirStep, MkdirStep, RmdirStep, UnlinkStep, CreateStep,
       SetattrStep, OpenStep, RenameStep, LinkStep, SymlinkStep
  <1>3. ASSUME NEW f \in Fds, doRelease(f) \/ doRead(f) \/ \E d \in Data : doWrite(f, d)
        PROVE  Inv'
    BY <1>3, ReleaseStep, ReadStep, WriteStep
  <1>4. CASE Remount
    BY <1>4, RemountStep
  <1>5. QED
    BY <1>1, <1>2, <1>3, <1>4 DEF Next

\* Every variable keeps its type.
THEOREM TypeCorrect == Spec => []TypeOK
  <1>1. Inv => TypeOK
    BY DEF Inv
  <1>2. QED
    BY InitInv, NextInv, <1>1, PTL DEF Spec

\* The list of hidden names and .whiteout stay free of duplicates, and are the
\* same unless the disk fills.
THEOREM WhiteoutsAreStored == Spec => []WhiteoutsStored
  <1>1. Inv => WhiteoutsStored
    BY DEF Inv, Kept, Distinct, WhiteoutsStored
  <1>2. QED
    BY InitInv, NextInv, <1>1, PTL DEF Spec

----------------------------------------------------------------------------
(***************************************************************************)
(* Lemmas about names.                                                     *)
(***************************************************************************)

\* The prefix of a name of a given length.
LEMMA PrefixOfName ==
    ASSUME NEW p \in Paths, NEW l \in 0 .. Len(p)
    PROVE  /\ SubSeq(p, 1, l) \in Paths
           /\ Len(SubSeq(p, 1, l)) = l
           /\ \A i \in 1 .. l : SubSeq(p, 1, l)[i] = p[i]
  <1>1. p \in Seq(Names) /\ Len(p) \in Nat
    BY PathsAssumption
  <1>2. \A i \in 1 .. l : p[i] \in Names
    BY <1>1
  <1>3. /\ SubSeq(p, 1, l) \in Seq(Names)
        /\ Len(SubSeq(p, 1, l)) = l
        /\ \A i \in 1 .. l : SubSeq(p, 1, l)[i] = p[i]
    BY <1>1, <1>2, SubSeqProperties
  <1>4. SubSeq(p, 1, l) \in Prefixes(p)
    BY DEF Prefixes
  <1>5. QED
    BY <1>3, <1>4, PathsAssumption

\* A name is its own longest prefix, and the only one of its length.
LEMMA WholePrefix ==
    ASSUME NEW p \in Paths, NEW l \in 0 .. Len(p)
    PROVE  SubSeq(p, 1, l) = p <=> l = Len(p)
  <1>1. p \in Seq(Names) /\ Len(p) \in Nat
    BY PathsAssumption
  <1>2. Len(SubSeq(p, 1, l)) = l
    BY PrefixOfName
  <1>3. SubSeq(p, 1, Len(p)) = p
    BY <1>1, SubSeqFull
  <1>4. QED
    BY <1>2, <1>3

\* A prefix of a prefix is a prefix.
LEMMA PrefixOfPrefix ==
    ASSUME NEW p \in Paths, NEW l \in 0 .. Len(p), NEW k \in 0 .. l
    PROVE  SubSeq(SubSeq(p, 1, l), 1, k) = SubSeq(p, 1, k)
  <1>1. Len(p) \in Nat
    BY PathsAssumption
  <1> DEFINE q == SubSeq(p, 1, l)
  <1>2. k \in 0 .. Len(p) /\ l \in Nat /\ k \in Nat
    BY <1>1
  <1>3. q \in Paths /\ Len(q) = l /\ \A i \in 1 .. l : q[i] = p[i]
    BY PrefixOfName
  <1> HIDE DEF q
  <1>4. /\ SubSeq(q, 1, k) \in Paths /\ Len(SubSeq(q, 1, k)) = k
        /\ \A i \in 1 .. k : SubSeq(q, 1, k)[i] = q[i]
    BY <1>3, PrefixOfName
  <1>5. /\ SubSeq(p, 1, k) \in Paths /\ Len(SubSeq(p, 1, k)) = k
        /\ \A i \in 1 .. k : SubSeq(p, 1, k)[i] = p[i]
    BY <1>2, PrefixOfName
  <1>6. \A i \in 1 .. k : SubSeq(q, 1, k)[i] = SubSeq(p, 1, k)[i]
    BY <1>2, <1>3, <1>4, <1>5
  <1>7. SubSeq(q, 1, k) = SubSeq(p, 1, k)
    BY <1>4, <1>5, <1>6, PathsAssumption, SeqEqual
  <1>8. QED
    BY <1>7 DEF q

\* The ancestors of a name are its shorter prefixes.
LEMMA AboveIsShorter ==
    ASSUME NEW p \in Paths
    PROVE  Above(p) = {SubSeq(p, 1, l) : l \in 0 .. (Len(p) - 1)}
  <1>1. Len(p) \in Nat
    BY PathsAssumption
  <1>2. ASSUME NEW q \in Above(p) PROVE q \in {SubSeq(p, 1, l) : l \in 0 .. (Len(p) - 1)}
    <2>1. PICK l \in 0 .. Len(p) : q = SubSeq(p, 1, l)
      BY DEF Above, Prefixes
    <2>2. l # Len(p)
      BY <2>1, WholePrefix DEF Above
    <2>3. l \in 0 .. (Len(p) - 1)
      BY <1>1, <2>2
    <2>4. QED
      BY <2>1, <2>3
  <1>3. ASSUME NEW l \in 0 .. (Len(p) - 1) PROVE SubSeq(p, 1, l) \in Above(p)
    <2>1. l \in 0 .. Len(p) /\ l # Len(p)
      BY <1>1
    <2>2. QED
      BY <2>1, WholePrefix DEF Above, Prefixes
  <1>4. QED
    BY <1>2, <1>3

\* What is used of names below: a name other than "/" is in its parent, and
\* its ancestors are its parent and those of its parent.
LEMMA Ancestors ==
    /\ Above(<<>>) = {}
    /\ \A p \in Paths :
        /\ Above(p) \subseteq Paths /\ p \notin Above(p)
        /\ p \in Prefixes(p) /\ Prefixes(p) = Above(p) \cup {p}
        /\ p # <<>> => /\ Parent(p) \in Above(p) /\ Parent(p) \in Paths /\ Parent(p) # p
                       /\ Above(p) = Prefixes(Parent(p))
                       /\ <<>> \in Above(p)
        /\ \A q \in Above(p) : Above(q) \subseteq Above(p) /\ p \notin Prefixes(q)
  <1>1. <<>> \in Paths /\ Len(<<>>) = 0
    BY PathsAssumption
  <1>2. Above(<<>>) = {}
    BY <1>1, AboveIsShorter
  <1>3. ASSUME NEW p \in Paths
        PROVE  /\ Above(p) \subseteq Paths /\ p \notin Above(p)
               /\ p \in Prefixes(p) /\ Prefixes(p) = Above(p) \cup {p}
    <2>1. Len(p) \in Nat
      BY PathsAssumption
    <2>2. p = SubSeq(p, 1, Len(p))
      BY <2>1, WholePrefix
    <2>3. p \in Prefixes(p)
      <3>1. Len(p) \in 0 .. Len(p)
        BY <2>1
      <3>2. QED
        BY <2>2, <3>1 DEF Prefixes
    <2>4. QED
      BY <2>3, PathsAssumption DEF Above
  <1>4. ASSUME NEW p \in Paths, p # <<>>
        PROVE  /\ Parent(p) \in Above(p) /\ Parent(p) \in Paths /\ Parent(p) # p
               /\ Above(p) = Prefixes(Parent(p))
               /\ <<>> \in Above(p)
    <2>1. p \in Seq(Names) /\ Len(p) \in Nat /\ Len(p) # 0
      BY <1>4, PathsAssumption, EmptySeq
    <2>2. Parent(p) = SubSeq(p, 1, Len(p) - 1) /\ Len(p) - 1 \in 0 .. Len(p)
      BY <2>1 DEF Parent, Front
    <2>3. Len(p) - 1 \in 0 .. (Len(p) - 1) /\ 0 \in 0 .. (Len(p) - 1)
      BY <2>1
    <2>4. Parent(p) \in Paths /\ Len(Parent(p)) = Len(p) - 1
      BY <2>2, PrefixOfName
    <2>5. \A l \in 0 .. (Len(p) - 1) : SubSeq(Parent(p), 1, l) = SubSeq(p, 1, l)
      BY <2>1, <2>2, PrefixOfPrefix
    <2>6. Prefixes(Parent(p)) = {SubSeq(p, 1, l) : l \in 0 .. (Len(p) - 1)}
      BY <2>4, <2>5 DEF Prefixes
    <2>7. SubSeq(p, 1, 0) = <<>>
      BY <2>1, SubSeqEmpty
    <2>8. <<>> \in Above(p) /\ Parent(p) \in Above(p)
      BY <2>2, <2>3, <2>7, AboveIsShorter
    <2>9. QED
      BY <1>3, <2>4, <2>6, <2>8, AboveIsShorter
  <1>5. ASSUME NEW p \in Paths, NEW q \in Above(p)
        PROVE  Above(q) \subseteq Above(p) /\ p \notin Prefixes(q)
    <2>1. Len(p) \in Nat
      BY PathsAssumption
    <2>2. PICK l \in 0 .. (Len(p) - 1) : q = SubSeq(p, 1, l)
      BY AboveIsShorter
    <2>3. l \in 0 .. Len(p)
      BY <2>1
    <2>4. q \in Paths /\ Len(q) = l
      BY <2>2, <2>3, PrefixOfName
    <2>5. \A k \in 0 .. l : SubSeq(q, 1, k) = SubSeq(p, 1, k) /\ k \in 0 .. (Len(p) - 1)
      BY <2>1, <2>2, <2>3, PrefixOfPrefix
    <2>6. Prefixes(q) \subseteq Above(p)
      BY <2>4, <2>5, AboveIsShorter DEF Prefixes
    <2>7. QED
      BY <1>3, <2>4, <2>6 DEF Above
  <1>6. QED
    BY <1>2, <1>3, <1>4, <1>5

\* The test the code's callers make with IsPrefix.
LEMMA PrefixTest ==
    ASSUME NEW p \in Paths, NEW q \in Prefixes(p)
    PROVE  IsPrefix(q, p)
  <1>1. PICK l \in 0 .. Len(p) : q = SubSeq(p, 1, l)
    BY DEF Prefixes
  <1>2. Len(p) \in Nat
    BY PathsAssumption
  <1>3. q \in Paths /\ Len(q) = l /\ l <= Len(p)
    BY <1>1, <1>2, PrefixOfName
  <1>4. SubSeq(q, 1, l) = q
    BY <1>3, WholePrefix
  <1>5. QED
    BY <1>1, <1>3, <1>4 DEF IsPrefix

\* A parent is shorter than what is in it.
LEMMA ParentIsShorter ==
    ASSUME NEW p \in Paths, p # <<>>
    PROVE  Len(p) \in Nat /\ Len(Parent(p)) \in Nat /\ Len(Parent(p)) < Len(p)
  <1>1. p \in Seq(Names) /\ Len(p) \in Nat /\ Len(p) # 0
    BY PathsAssumption, EmptySeq
  <1>2. Parent(p) = SubSeq(p, 1, Len(p) - 1) /\ Len(p) - 1 \in 0 .. Len(p)
    BY <1>1 DEF Parent, Front
  <1>3. Len(Parent(p)) = Len(p) - 1
    BY <1>2, PrefixOfName
  <1>4. QED
    BY <1>1, <1>3

----------------------------------------------------------------------------
(***************************************************************************)
(* Lemmas about trees: what recurseMkdir and copyTmp make of rw_tmp.       *)
(***************************************************************************)

\* Names of one inode are names of one file.
InodesShared(L) ==
    \A p, q \in Paths : L[p].ino # NoIno =>
        L[p].kind = "reg" /\ (L[q].ino = L[p].ino => L[q] = L[p])

Sound(C, L) == C \in Layer /\ L \in Layer /\ IsTree(C) /\ IsTree(L) /\ InodesShared(L)

\* M is L after directories were made and files of the CD were copied: what
\* was there is untouched, no file of the CD is covered by a directory, and no
\* directory of the CD by a file.
Grown(C, L, M) ==
    /\ M \in Layer /\ IsTree(M) /\ InodesShared(M)
    /\ \A q \in Paths :
        \/ M[q] = L[q]
        \/ ~Exists(L[q]) /\ M[q] = DirNode /\ C[q].kind # "reg"
        \/ ~Exists(L[q]) /\ M[q].kind = "reg" /\ C[q].kind \notin {"absent", "dir"}

\* The ancestors of what exists in a tree are directories.
LEMMA TreeAncestors ==
    ASSUME NEW L, IsTree(L), NEW p \in Paths, Exists(L[p]), NEW q \in Above(p)
    PROVE  L[q].kind = "dir"
  <1> DEFINE Bad(x) == Exists(L[x]) /\ \E y \in Above(x) : L[y].kind # "dir"
             T == {n \in Nat : \E x \in Paths : Len(x) = n /\ Bad(x)}
  <1>1. SUFFICES ASSUME T # {} PROVE FALSE
    <2>1. Len(p) \in Nat
      BY PathsAssumption
    <2>2. QED
      BY <1>1, <2>1
  <1>2. PICK n \in T : \A m \in T : <<m, n>> \notin OpToRel(<, Nat)
    BY <1>1, NatLessThanWellFounded, WFMin
  <1>3. PICK x \in Paths : Len(x) = n /\ Bad(x)
    BY <1>2
  <1>4. PICK y \in Above(x) : L[y].kind # "dir"
    BY <1>3
  <1>5. x # <<>>
    BY <1>4, Ancestors
  <1>6. Parent(x) \in Paths /\ Above(x) = Above(Parent(x)) \cup {Parent(x)}
    BY <1>5, Ancestors
  <1>7. L[Parent(x)].kind = "dir"
    BY <1>3, <1>5 DEF IsTree
  <1>8. Exists(L[Parent(x)])
    BY <1>7 DEF Exists
  <1>9. Bad(Parent(x))
    BY <1>4, <1>6, <1>7, <1>8
  <1>10. Len(Parent(x)) \in T /\ Len(Parent(x)) < n /\ n \in Nat
    BY <1>3, <1>5, <1>6, <1>9, ParentIsShorter
  <1>11. QED
    BY <1>2, <1>10 DEF OpToRel

\* Nothing changes.
LEMMA GrownSame ==
    ASSUME NEW C, NEW L \in Layer, IsTree(L), InodesShared(L)
    PROVE  Grown(C, L, L)
  BY DEF Grown

\* One preparation after another.
LEMMA GrownTwice ==
    ASSUME NEW C, NEW L, NEW M, NEW N, Grown(C, L, M), Grown(C, M, N)
    PROVE  Grown(C, L, N)
  BY DEF Grown, Exists, DirNode

\* recurseMkdir makes directories where there was nothing.
LEMMA RecurseMkdirTree ==
    ASSUME NEW L \in Layer, IsTree(L), NEW p \in Paths
    PROVE  /\ IsTree(RecurseMkdir(L, p))
           /\ \A q \in Paths : \/ RecurseMkdir(L, p)[q] = L[q]
                               \/ /\ ~Exists(L[q]) /\ RecurseMkdir(L, p)[q] = DirNode
                                  /\ q \in Prefixes(p)
  <1> DEFINE M == RecurseMkdir(L, p)
  <1>1. CASE ~ \A q \in Prefixes(p) : L[q].kind \in {"absent", "dir"}
    BY <1>1 DEF RecurseMkdir
  <1>2. CASE \A q \in Prefixes(p) : L[q].kind \in {"absent", "dir"}
    <2>1. \A q \in Paths : M[q] = IF q \in Prefixes(p) /\ ~Exists(L[q]) THEN DirNode ELSE L[q]
      BY <1>2 DEF RecurseMkdir
    <2>2. \A q \in Prefixes(p) : q \in Paths /\ M[q].kind = "dir"
      BY <1>2, <2>1, PathsAssumption DEF Exists, DirNode
    <2>3. M[<<>>] = DirNode
      BY <2>1, PathsAssumption DEF IsTree, Exists, DirNode
    <2> HIDE DEF M
    <2>4. ASSUME NEW q \in Paths \ {<<>>}, Exists(M[q]) PROVE M[Parent(q)].kind = "dir"
      <3>1. Parent(q) \in Above(q) /\ Parent(q) \in Paths
        BY Ancestors
      <3>2. CASE q \in Prefixes(p)
        BY <2>2, <3>1, <3>2, Ancestors
      <3>3. CASE q \notin Prefixes(p)
        <4>1. L[Parent(q)].kind = "dir"
          BY <2>1, <2>4, <3>3 DEF IsTree
        <4>2. QED
          BY <2>1, <3>1, <4>1 DEF Exists
      <3>4. QED
        BY <3>2, <3>3
    <2>5. QED
      BY <2>1, <2>3, <2>4 DEF IsTree, M
  <1>3. QED
    BY <1>1, <1>2

\* The directories above a name are no files of the CD: they can be made.
Reached(C, L, p) == \A q \in Above(p) : Exists(L[q]) \/ C[q].kind # "reg"

\* What exists in one of two trees can be reached.
LEMMA ExistsReached ==
    ASSUME NEW C, NEW L, IsTree(C), IsTree(L), NEW p \in Paths, Exists(MkPath(C, L, p))
    PROVE  Reached(C, L, p)
  <1>1. Exists(L[p]) \/ Exists(C[p])
    BY DEF MkPath, LayerOf, At
  <1>2. CASE Exists(L[p])
    BY <1>2, TreeAncestors DEF Reached, Exists
  <1>3. CASE Exists(C[p])
    BY <1>3, TreeAncestors DEF Reached
  <1>4. QED
    BY <1>1, <1>2, <1>3

\* How the operations prepare rw_tmp for a name: only the name of a directory,
\* or of a link to one, is made itself.
LEMMA MakeDirForGrows ==
    ASSUME NEW C, NEW L, Sound(C, L), NEW p \in Paths, Reached(C, L, p)
    PROVE  /\ Grown(C, L, MakeDirFor(C, L, p))
           /\ ~IsDir(C, L, p) => MakeDirFor(C, L, p)[p] = L[p]
  <1> DEFINE d == GetDir(C, L, p)
             M == RecurseMkdir(L, d)
  <1>1. d \in Paths /\ (d = p \/ (d = Parent(p) /\ p # <<>>))
    BY Ancestors DEF GetDir
  <1>2. Prefixes(d) \subseteq Above(p) \cup {p}
    BY <1>1, Ancestors
  <1>3. ~IsDir(C, L, p) /\ p # <<>> => p \notin Prefixes(d)
    BY Ancestors DEF GetDir
  <1>4. p \in Prefixes(d) /\ ~Exists(L[p]) => C[p].kind # "reg"
    <2>1. SUFFICES ASSUME p \in Prefixes(d), ~Exists(L[p]) PROVE C[p].kind # "reg"
      OBVIOUS
    <2>2. p # <<>>
      BY <2>1 DEF Sound, IsTree, Exists, DirNode
    <2>3. IsDir(C, L, p)
      BY <1>3, <2>1, <2>2
    <2>4. MkPath(C, L, p) = C[p]
      BY <2>1 DEF MkPath, LayerOf, At
    <2>5. HasMode(C[p], "dir") \/ HasMode(C[p], "lnk")
      BY <2>3, <2>4 DEF IsDir
    <2>6. QED
      BY <2>5 DEF HasMode, ModeBits
  <1>5. /\ M \in Layer /\ IsTree(M)
        /\ \A q \in Paths : \/ M[q] = L[q]
                            \/ ~Exists(L[q]) /\ M[q] = DirNode /\ q \in Prefixes(d)
    BY <1>1, RecurseMkdirTree, RecurseMkdirType DEF Sound
  <1> HIDE DEF M
  <1>6. InodesShared(M)
    BY <1>5 DEF InodesShared, Sound, DirNode
  <1>7. \A q \in Paths : \/ M[q] = L[q]
                         \/ ~Exists(L[q]) /\ M[q] = DirNode /\ C[q].kind # "reg"
    BY <1>2, <1>4, <1>5 DEF Reached
  <1>8. ~IsDir(C, L, p) => M[p] = L[p]
    <2>1. CASE p = <<>>
      BY <1>5, <2>1 DEF Sound, IsTree
    <2>2. CASE p # <<>>
      BY <1>3, <1>5, <2>2
    <2>3. QED
      BY <2>1, <2>2
  <1>9. QED
    BY <1>5, <1>6, <1>7, <1>8 DEF Grown, MakeDirFor, M

\* A new file is in a directory, with an inode of its own.
LEMMA NewFileTree ==
    ASSUME NEW L \in Layer, IsTree(L), InodesShared(L),
           NEW p \in Paths, NEW d \in Data, CanCreate(L, p)
    PROVE  /\ NewFile(L, p, d) \in Layer
           /\ IsTree(NewFile(L, p, d)) /\ InodesShared(NewFile(L, p, d))
           /\ NewFile(L, p, d)[p].kind = "reg" /\ NewFile(L, p, d)[p].data = d
           /\ NewFile(L, p, d)[p].to = NoText
           /\ \A q \in Paths \ {p} : NewFile(L, p, d)[q] = L[q]
  <1> DEFINE M == NewFile(L, p, d)
  <1>1. M \in Layer
    BY NewFileType
  <1>2. /\ NextIno(L) \in Inodes /\ \A q \in Paths : L[q].ino # NextIno(L)
    BY DEF CanCreate, NextIno, FreeInodes
  <1>3. /\ M[p] = File(NextIno(L), d)
        /\ \A q \in Paths \ {p} : M[q] = L[q]
    BY DEF NewFile, Put
  <1>4. p # <<>> /\ L[Parent(p)].kind = "dir" /\ ~Exists(L[p])
    BY DEF CanCreate, CanAdd
  <1> HIDE DEF M
  <1>5. IsTree(M)
    <2>1. M[<<>>] = DirNode
      BY <1>3, <1>4, PathsAssumption DEF IsTree
    <2>2. ASSUME NEW q \in Paths \ {<<>>}, Exists(M[q]) PROVE M[Parent(q)].kind = "dir"
      <3>1. Parent(q) \in Paths
        BY Ancestors
      <3>2. L[Parent(q)].kind = "dir"
        BY <1>3, <1>4, <2>2 DEF IsTree
      <3>3. Parent(q) # p
        BY <1>4, <3>2 DEF Exists
      <3>4. QED
        BY <1>3, <3>1, <3>2, <3>3
    <2>3. QED
      BY <2>1, <2>2 DEF IsTree
  <1>6. InodesShared(M)
    BY <1>2, <1>3 DEF InodesShared, File
  <1>7. QED
    BY <1>1, <1>3, <1>5, <1>6 DEF M, File

\* A directory of the CD that rw_tmp lacks is never made a file by copyTmp.
LEMMA NoFileOverDir ==
    ASSUME NEW C, NEW L, Sound(C, L), NEW p \in Paths, ~Exists(L[p]), C[p].kind = "dir"
    PROVE  ~CanCreate(MakeDirFor(C, L, p), p)
  <1>1. MkPath(C, L, p) = C[p]
    BY DEF MkPath, LayerOf, At
  <1>2. IsDir(C, L, p)
    BY <1>1 DEF IsDir, HasMode, Exists
  <1>3. MakeDirFor(C, L, p) = RecurseMkdir(L, p)
    BY <1>2 DEF MakeDirFor, GetDir
  <1>4. CASE \A q \in Prefixes(p) : L[q].kind \in {"absent", "dir"}
    <2>1. Exists(RecurseMkdir(L, p)[p])
      BY <1>4, Ancestors DEF RecurseMkdir, Exists, DirNode
    <2>2. QED
      BY <1>3, <2>1 DEF CanCreate, CanAdd
  <1>5. CASE ~ \A q \in Prefixes(p) : L[q].kind \in {"absent", "dir"}
    <2>1. RecurseMkdir(L, p) = L
      BY <1>5 DEF RecurseMkdir
    <2>2. SUFFICES ASSUME p # <<>>, L[Parent(p)].kind = "dir" PROVE FALSE
      BY <1>3, <2>1 DEF CanCreate, CanAdd
    <2>3. Parent(p) \in Paths /\ Prefixes(p) = Above(Parent(p)) \cup {Parent(p), p}
      BY <2>2, Ancestors
    <2>4. Exists(L[Parent(p)])
      BY <2>2 DEF Exists
    <2>5. \A q \in Above(Parent(p)) : L[q].kind = "dir"
      BY <2>3, <2>4, TreeAncestors DEF Sound
    <2>6. QED
      BY <1>5, <2>2, <2>3, <2>5 DEF Exists
  <1>6. QED
    BY <1>4, <1>5

\* Nothing is followed from a name that is not there.
LEMMA FollowExists ==
    ASSUME NEW C, NEW L, NEW p \in Paths, Follow(C, L, "root", p) # Nowhere
    PROVE  Exists(C[p])
  <1>1. SUFFICES ASSUME C[p].kind = "absent" PROVE Follow(C, L, "root", p) = Nowhere
    BY DEF Exists
  <1> DEFINE end == [layer |-> "root", path |-> p]
  <1>2. At(C, p).kind = "absent" /\ end.layer = "root" /\ end.path = p
    BY <1>1 DEF At
  <1>3. Follow(C, L, "root", p) =
          IF end = Nowhere \/ At(C, p).kind \in {"absent", "lnk"} THEN Nowhere ELSE end
    BY <1>2 DEF Follow
  <1>4. QED
    BY <1>2, <1>3

\* Copying up, for a name whose directories can be made.  Where there is no
\* directory, and no link to one, the name stays as it was or becomes a file.
LEMMA CopyUpGrows ==
    ASSUME NEW C, NEW L, Sound(C, L), NEW p \in Paths, Reached(C, L, p), NEW M \in CopyUp(C, L, p)
    PROVE  /\ Grown(C, L, M)
           /\ ~IsDir(C, L, p) => M[p] = L[p] \/ M[p].kind = "reg"
  <1>1. CASE Exists(L[p])
    BY <1>1, GrownSame DEF CopyUp, Sound
  <1>2. CASE ~Exists(L[p])
    <2> DEFINE L1 == MakeDirFor(C, L, p)
               src == Follow(C, L1, "root", p)
    <2>1. Grown(C, L, L1) /\ (~IsDir(C, L, p) => L1[p] = L[p])
      BY MakeDirForGrows
    <2>2. M \in CopyTmp(C, L, p)
      BY <1>2 DEF CopyUp
    <2>3. CASE src = Nowhere \/ ~CanCreate(L1, p)
      BY <2>1, <2>2, <2>3 DEF CopyTmp
    <2>4. CASE src # Nowhere /\ CanCreate(L1, p)
      <3>1. src.path \in Paths
        BY <2>4, FollowType
      <3>2. CopyOf(C, src.path) \subseteq Data
        BY <3>1, DataAssumption DEF CopyOf, Sound, Layer, Node
      <3>3. C[p].kind # "absent"
        BY <2>4, FollowExists DEF Exists
      <3>4. C[p].kind # "dir"
        BY <1>2, <2>4, NoFileOverDir
      <3> HIDE DEF L1, src
      <3>5. \E d \in Data : M = NewFile(L1, p, d)
        BY <2>2, <2>4, <3>2 DEF CopyTmp, L1, src
      <3>6. PICK d \in Data : M = NewFile(L1, p, d)
        BY <3>5
      <3>7. /\ M \in Layer /\ IsTree(M) /\ InodesShared(M) /\ M[p].kind = "reg"
            /\ \A q \in Paths \ {p} : M[q] = L1[q]
        BY <2>1, <2>4, <3>6, NewFileTree DEF Grown
      <3>8. QED
        BY <1>2, <2>1, <3>3, <3>4, <3>7 DEF Grown
    <2>5. QED
      BY <2>3, <2>4
  <1>3. QED
    BY <1>1, <1>2

\* Growing leads on from where one could begin.
LEMMA GrownSound ==
    ASSUME NEW C, NEW L, NEW M, Sound(C, L), Grown(C, L, M)
    PROVE  /\ Sound(C, M)
           /\ \A p \in Paths : Reached(C, L, p) => Reached(C, M, p)
  <1>1. Sound(C, M)
    BY DEF Sound, Grown
  <1>2. \A q \in Paths : Exists(L[q]) => Exists(M[q])
    BY DEF Grown
  <1>3. QED
    BY <1>1, <1>2, Ancestors DEF Reached

\* Writing a file leaves the tree as it is.
LEMMA SetDataTree ==
    ASSUME NEW L \in Layer, IsTree(L), InodesShared(L), NEW p \in Paths \ {<<>>}, NEW d \in Data,
           Exists(L[p])
    PROVE  /\ SetData(L, p, d) \in Layer
           /\ IsTree(SetData(L, p, d)) /\ InodesShared(SetData(L, p, d))
           /\ SetData(L, p, d)[p].data = d
           /\ \A q \in Paths : /\ SetData(L, p, d)[q].kind = L[q].kind
                               /\ SetData(L, p, d)[q].ino = L[q].ino
                               /\ SetData(L, p, d)[q].to = L[q].to
  <1> DEFINE M == SetData(L, p, d)
  <1>1. M \in Layer
    BY SetDataType
  <1>2. \A q \in Paths : L[q] \in Node
    BY DEF Layer
  <1>3. \A q \in Paths : M[q] = IF q = p \/ (L[p].ino # NoIno /\ L[q].ino = L[p].ino)
                                THEN [L[q] EXCEPT !.data = d] ELSE L[q]
    BY DEF SetData
  <1> HIDE DEF M
  <1>4. \A q \in Paths : /\ M[q].kind = L[q].kind /\ M[q].ino = L[q].ino /\ M[q].to = L[q].to
    BY <1>2, <1>3 DEF Node
  <1>5. M[p].data = d
    BY <1>2, <1>3 DEF Node
  <1>6. IsTree(M)
    <2>1. L[<<>>] = DirNode /\ <<>> \in Paths /\ p # <<>> /\ L[<<>>].ino = NoIno
      BY PathsAssumption DEF IsTree, DirNode
    <2>2. M[<<>>] = DirNode
      BY <1>3, <2>1
    <2>3. \A q \in Paths \ {<<>>} : Exists(M[q]) => M[Parent(q)].kind = "dir"
      BY <1>4, Ancestors DEF IsTree, Exists
    <2>4. QED
      BY <2>2, <2>3 DEF IsTree
  <1>7. InodesShared(M)
    <2>1. SUFFICES ASSUME NEW x \in Paths, NEW y \in Paths, M[x].ino # NoIno
                   PROVE  M[x].kind = "reg" /\ (M[y].ino = M[x].ino => M[y] = M[x])
      BY DEF InodesShared
    <2>2. L[x].ino # NoIno /\ L[x].kind = "reg"
      BY <1>4, <2>1 DEF InodesShared
    <2>3. ASSUME M[y].ino = M[x].ino PROVE M[y] = M[x]
      <3>1. L[y] = L[x]
        BY <1>4, <2>2, <2>3 DEF InodesShared
      <3>2. QED
        BY <1>3, <2>2, <3>1 DEF InodesShared
    <2>4. QED
      BY <1>4, <2>2, <2>3
  <1>8. QED
    BY <1>1, <1>4, <1>5, <1>6, <1>7 DEF M

\* A new entry in a directory: a node that is no file, or one more name of a
\* file.
LEMMA AddTree ==
    ASSUME NEW L \in Layer, IsTree(L), InodesShared(L), NEW p \in Paths, CanAdd(L, p),
           NEW n \in Node, n.ino = NoIno \/ \E t \in Paths : n = L[t]
    PROVE  /\ Put(L, p, n) \in Layer
           /\ IsTree(Put(L, p, n)) /\ InodesShared(Put(L, p, n))
           /\ Put(L, p, n)[p] = n
           /\ \A q \in Paths \ {p} : Put(L, p, n)[q] = L[q]
  <1> DEFINE M == Put(L, p, n)
  <1>1. M \in Layer
    BY PutType
  <1>2. M[p] = n /\ \A q \in Paths \ {p} : M[q] = L[q]
    BY DEF Put
  <1>3. p # <<>> /\ L[Parent(p)].kind = "dir" /\ ~Exists(L[p])
    BY DEF CanAdd
  <1> HIDE DEF M
  <1>4. IsTree(M)
    <2>1. M[<<>>] = DirNode
      BY <1>2, <1>3, PathsAssumption DEF IsTree
    <2>2. ASSUME NEW q \in Paths \ {<<>>}, Exists(M[q]) PROVE M[Parent(q)].kind = "dir"
      <3>1. Parent(q) \in Paths /\ L[Parent(q)].kind = "dir"
        BY <1>2, <1>3, <2>2, Ancestors DEF IsTree
      <3>2. Parent(q) # p
        BY <1>3, <3>1 DEF Exists
      <3>3. QED
        BY <1>2, <3>1, <3>2
    <2>3. QED
      BY <2>1, <2>2 DEF IsTree
  <1>5. InodesShared(M)
    <2>1. SUFFICES ASSUME NEW x \in Paths, NEW y \in Paths, M[x].ino # NoIno
                   PROVE  M[x].kind = "reg" /\ (M[y].ino = M[x].ino => M[y] = M[x])
      BY DEF InodesShared
    <2>2. \A q \in Paths : M[q].ino # NoIno => \E t \in Paths : M[q] = L[t]
      BY <1>2
    <2>3. PICK t \in Paths : M[x] = L[t]
      BY <2>1, <2>2
    <2>4. ASSUME M[y].ino = M[x].ino PROVE M[y] = M[x]
      <3>1. PICK u \in Paths : M[y] = L[u]
        BY <2>1, <2>2, <2>4
      <3>2. QED
        BY <2>1, <2>3, <2>4, <3>1 DEF InodesShared
    <2>5. QED
      BY <2>1, <2>3, <2>4 DEF InodesShared
  <1>6. QED
    BY <1>1, <1>2, <1>4, <1>5 DEF M

\* Removing what is no directory, or an empty one.
LEMMA RemoveTree ==
    ASSUME NEW L \in Layer, IsTree(L), InodesShared(L), NEW p \in Paths \ {<<>>},
           L[p].kind # "dir" \/ Entries(L, p) = {}
    PROVE  /\ Put(L, p, Absent) \in Layer
           /\ IsTree(Put(L, p, Absent)) /\ InodesShared(Put(L, p, Absent))
           /\ Put(L, p, Absent)[p] = Absent
           /\ \A q \in Paths \ {p} : Put(L, p, Absent)[q] = L[q]
  <1> DEFINE M == Put(L, p, Absent)
  <1>1. M \in Layer
    BY PutType, NodeTypes
  <1>2. M[p] = Absent /\ \A q \in Paths \ {p} : M[q] = L[q]
    BY DEF Put
  <1> HIDE DEF M
  <1>3. IsTree(M)
    <2>1. M[<<>>] = DirNode
      BY <1>2, PathsAssumption DEF IsTree
    <2>2. ASSUME NEW q \in Paths \ {<<>>}, Exists(M[q]) PROVE M[Parent(q)].kind = "dir"
      <3>1. Parent(q) \in Paths /\ Exists(L[q]) /\ L[Parent(q)].kind = "dir"
        BY <1>2, <2>2, Ancestors DEF IsTree, Exists, Absent
      <3>2. Parent(q) # p
        BY <3>1 DEF Entries
      <3>3. QED
        BY <1>2, <3>1, <3>2
    <2>3. QED
      BY <2>1, <2>2 DEF IsTree
  <1>4. InodesShared(M)
    BY <1>2 DEF InodesShared, Absent
  <1>5. QED
    BY <1>1, <1>2, <1>3, <1>4 DEF M

\* rename() of what is no directory, onto what is none.
LEMMA RenamedTree ==
    ASSUME NEW L \in Layer, IsTree(L), InodesShared(L),
           NEW old \in Paths \ {<<>>}, NEW new \in Paths \ {<<>>}, old # new,
           CanRename(L, old, new), L[old].kind # "dir"
    PROVE  /\ Renamed(L, old, new) \in Layer
           /\ IsTree(Renamed(L, old, new)) /\ InodesShared(Renamed(L, old, new))
           /\ Renamed(L, old, new)[new] = L[old]
           /\ \A q \in Paths \ {old, new} : Renamed(L, old, new)[q] = L[q]
  <1> DEFINE M == Renamed(L, old, new)
  <1>1. CASE L[old].ino # NoIno /\ L[new].ino = L[old].ino
    BY <1>1 DEF Renamed, InodesShared
  <1>2. CASE ~(L[old].ino # NoIno /\ L[new].ino = L[old].ino)
    <2>1. L[old] \in Node /\ L[new].kind # "dir" /\ L[Parent(new)].kind = "dir"
      BY DEF Layer, CanRename
    <2>2. /\ M[old] = Absent /\ M[new] = L[old]
          /\ \A q \in Paths \ {old, new} : M[q] = L[q]
      BY <1>2 DEF Renamed, Put
    <2>3. M \in Layer
      BY <1>2, <2>1, PutType, NodeTypes DEF Renamed
    <2> HIDE DEF M
    <2>4. IsTree(M)
      <3>1. M[<<>>] = DirNode
        BY <2>2, PathsAssumption DEF IsTree
      <3>2. ASSUME NEW q \in Paths \ {<<>>}, Exists(M[q]) PROVE M[Parent(q)].kind = "dir"
        <4>1. Parent(q) \in Paths /\ q # old /\ L[Parent(q)].kind = "dir"
          BY <2>1, <2>2, <3>2, Ancestors DEF IsTree, Exists, Absent
        <4>2. Parent(q) # old /\ Parent(q) # new
          BY <2>1, <4>1
        <4>3. QED
          BY <2>2, <4>1, <4>2
      <3>3. QED
        BY <3>1, <3>2 DEF IsTree
    <2>5. InodesShared(M)
      <3>1. SUFFICES ASSUME NEW x \in Paths, NEW y \in Paths, M[x].ino # NoIno
                     PROVE  M[x].kind = "reg" /\ (M[y].ino = M[x].ino => M[y] = M[x])
        BY DEF InodesShared
      <3>2. \A q \in Paths : M[q].ino # NoIno => \E t \in Paths : M[q] = L[t]
        BY <2>2 DEF Absent
      <3>3. PICK t \in Paths : M[x] = L[t]
        BY <3>1, <3>2
      <3>4. ASSUME M[y].ino = M[x].ino PROVE M[y] = M[x]
        <4>1. PICK u \in Paths : M[y] = L[u]
          BY <3>1, <3>2, <3>4
        <4>2. QED
          BY <3>1, <3>3, <3>4, <4>1 DEF InodesShared
      <3>5. QED
        BY <3>1, <3>3, <3>4 DEF InodesShared
    <2>6. QED
      BY <2>2, <2>3, <2>4, <2>5 DEF M
  <1>3. QED
    BY <1>1, <1>2

----------------------------------------------------------------------------
(***************************************************************************)
(* What is seen, as an operator of the layers and the whiteouts.           *)
(***************************************************************************)
StatOf(C, L, w, p) == IF IsVisible(w, p) THEN MkPath(C, L, p) ELSE Absent
WalkOf(C, L, w, p) == \A q \in Above(p) : StatOf(C, L, w, q).kind = "dir"
SeenOf(C, L, w, p) == IF WalkOf(C, L, w, p) THEN [StatOf(C, L, w, p) EXCEPT !.ino = NoIno] ELSE Absent
SeesFile(C, L, w, p) == WalkOf(C, L, w, p) /\ StatOf(C, L, w, p).kind = "reg"

\* The open files that have their names are files under those names, in
\* rw_tmp when they are open for writing.
Files(C, L, w, k) ==
    \A f \in Fds : k[f].linked =>
        /\ k[f].open
        /\ SeesFile(C, L, w, k[f].path)
        /\ k[f].acc = "w" => L[k[f].path].kind = "reg"

\* The same, of the variables.
LEMMA SeenIsSeenOf ==
    ASSUME NEW p \in Paths
    PROVE  /\ Stat(p) = StatOf(cd, rw, wo, p) /\ Stat(p)' = StatOf(cd', rw', wo', p)
           /\ Walkable(p) = WalkOf(cd, rw, wo, p) /\ Walkable(p)' = WalkOf(cd', rw', wo', p)
           /\ Seen(p) = SeenOf(cd, rw, wo, p) /\ Seen(p)' = SeenOf(cd', rw', wo', p)
  <1>1. ASSUME NEW q PROVE Stat(q) = StatOf(cd, rw, wo, q) /\ Stat(q)' = StatOf(cd', rw', wo', q)
    BY DEF Stat, StatOf
  <1>2. Walkable(p) = WalkOf(cd, rw, wo, p) /\ Walkable(p)' = WalkOf(cd', rw', wo', p)
    BY <1>1 DEF Walkable, WalkOf
  <1>3. QED
    BY <1>1, <1>2 DEF Seen, SeenOf

\* What is seen under a name is a node; all but its inode is what doStat finds.
LEMMA SeenParts ==
    ASSUME NEW C \in Layer, NEW L \in Layer, NEW w, NEW p \in Paths
    PROVE  /\ StatOf(C, L, w, p) \in Node
           /\ SeenOf(C, L, w, p) \in Node
           /\ SeenOf(C, L, w, p).kind =
                IF WalkOf(C, L, w, p) THEN StatOf(C, L, w, p).kind ELSE "absent"
           /\ SeenOf(C, L, w, p).data =
                IF WalkOf(C, L, w, p) THEN StatOf(C, L, w, p).data ELSE Empty
           /\ SeesFile(C, L, w, p) <=> SeenOf(C, L, w, p).kind = "reg"
  <1>1. StatOf(C, L, w, p) \in Node
    BY NodeTypes DEF StatOf, MkPath, LayerOf, At, Layer
  <1>2. /\ SeenOf(C, L, w, p) \in Node
        /\ SeenOf(C, L, w, p).kind =
             IF WalkOf(C, L, w, p) THEN StatOf(C, L, w, p).kind ELSE "absent"
        /\ SeenOf(C, L, w, p).data =
             IF WalkOf(C, L, w, p) THEN StatOf(C, L, w, p).data ELSE Empty
    <2>1. CASE WalkOf(C, L, w, p)
      BY <1>1, <2>1 DEF SeenOf, Node
    <2>2. CASE ~WalkOf(C, L, w, p)
      BY <2>2, NodeTypes DEF SeenOf, Absent
    <2>3. QED
      BY <2>1, <2>2
  <1>3. QED
    BY <1>1, <1>2 DEF SeesFile

\* A file stays one to the eye when its name and the directories above do.
LEMMA FileStaysSeen ==
    ASSUME NEW C, NEW L, NEW w, NEW C2, NEW L2, NEW w2, NEW p \in Paths, SeesFile(C, L, w, p),
           \A q \in Prefixes(p) : StatOf(C, L, w, q).kind \in {"dir", "reg"} =>
                StatOf(C2, L2, w2, q).kind = StatOf(C, L, w, q).kind
    PROVE  SeesFile(C2, L2, w2, p)
  BY Ancestors DEF SeesFile, WalkOf

\* Directories and files are seen as what they were after rw_tmp has grown.
LEMMA GrownShows ==
    ASSUME NEW C, NEW L, NEW M, Grown(C, L, M), NEW w, NEW q \in Paths,
           StatOf(C, L, w, q).kind \in {"dir", "reg"}
    PROVE  StatOf(C, M, w, q).kind = StatOf(C, L, w, q).kind
  <1>1. IsVisible(w, q)
    BY DEF StatOf, Absent
  <1>2. /\ StatOf(C, L, w, q) = IF Exists(L[q]) THEN L[q] ELSE C[q]
        /\ StatOf(C, M, w, q) = IF Exists(M[q]) THEN M[q] ELSE C[q]
    BY <1>1 DEF StatOf, MkPath, LayerOf, At
  <1>3. QED
    BY <1>2 DEF Grown, Exists, DirNode

\* Growing keeps the open files where they are seen.
LEMMA GrownFiles ==
    ASSUME NEW C, NEW L, NEW M, Grown(C, L, M), NEW w,
           NEW k \in [Fds -> KFile], Files(C, L, w, k)
    PROVE  Files(C, M, w, k)
  <1>1. SUFFICES ASSUME NEW f \in Fds, k[f].linked
                 PROVE  /\ k[f].open
                        /\ SeesFile(C, M, w, k[f].path)
                        /\ k[f].acc = "w" => M[k[f].path].kind = "reg"
    BY DEF Files
  <1> DEFINE p == k[f].path
  <1>2. p \in Paths /\ k[f].open /\ SeesFile(C, L, w, p) /\ (k[f].acc = "w" => L[p].kind = "reg")
    BY <1>1 DEF Files, KFile
  <1> HIDE DEF p
  <1>3. Prefixes(p) \subseteq Paths
    BY <1>2, PathsAssumption
  <1>4. SeesFile(C, M, w, p)
    BY <1>2, <1>3, GrownShows, FileStaysSeen
  <1>5. k[f].acc = "w" => M[p].kind = "reg"
    BY <1>2 DEF Grown, Exists
  <1>6. QED
    BY <1>2, <1>4, <1>5 DEF p

\* A file is still seen when its name and those above it are as they were.
LEMMA OtherFile ==
    ASSUME NEW C, NEW L, NEW M, NEW w, NEW w2, NEW p \in Paths, SeesFile(C, L, w, p),
           \A q \in Prefixes(p) : M[q] = L[q] /\ (Hidden(w2, q) <=> Hidden(w, q))
    PROVE  SeesFile(C, M, w2, p)
  <1>1. Prefixes(p) \subseteq Paths
    BY PathsAssumption
  <1>2. \A q \in Prefixes(p) : StatOf(C, M, w2, q) = StatOf(C, L, w, q)
    BY <1>1 DEF StatOf, IsVisible, MkPath, LayerOf, At
  <1>3. QED
    BY <1>2, FileStaysSeen

----------------------------------------------------------------------------
(***************************************************************************)
(* The invariant: both layers are trees, the CD has the entries it was     *)
(* burnt with (a medium that accepts writes may have other contents), and  *)
(* open files are found by name.                                           *)
(***************************************************************************)
Burnt(C) ==
    \A p \in Paths : /\ C[p].kind = Image[p].kind /\ C[p].ino = NoIno /\ C[p].to = Image[p].to
                     /\ C[p].kind # "reg" => C[p] = Image[p]

TreeInv == Inv /\ Sound(cd, rw) /\ Burnt(cd) /\ Files(cd, rw, wo, kfile)

\* The parts of the types that the steps below use.
LEMMA InvTypes ==
    ASSUME TreeInv
    PROVE  /\ cd \in Layer /\ rw \in Layer /\ wo \in Whiteouts(Paths)
           /\ kfile \in [Fds -> KFile] /\ handles \in [Paths -> Nat] /\ Inv
  BY DEF TreeInv, Inv, TypeOK

\* Initially rw_tmp is empty and nothing is open.
LEMMA InitTree == Init => TreeInv
  <1> SUFFICES ASSUME Init PROVE TreeInv
    OBVIOUS
  <1>1. Inv
    BY InitInv
  <1>2. cd = Image /\ rw = [p \in Paths |-> IF p = <<>> THEN DirNode ELSE Absent]
    BY DEF Init
  <1>3. cd \in Layer /\ rw \in Layer
    BY <1>1 DEF Inv, TypeOK
  <1>4. IsTree(rw) /\ InodesShared(rw)
    BY <1>2, PathsAssumption DEF IsTree, InodesShared, Exists, Absent, DirNode
  <1>5. Burnt(cd) /\ IsTree(cd)
    BY <1>2, ImageAssumption DEF Burnt
  <1>6. Files(cd, rw, wo, kfile)
    BY DEF Init, Files, Closed
  <1>7. QED
    BY <1>1, <1>3, <1>4, <1>5, <1>6 DEF TreeInv, Sound

\* The directories above a name the kernel has walked to can be made.
LEMMA WalkReached ==
    ASSUME TreeInv, NEW p \in Paths, Walkable(p)
    PROVE  Reached(cd, rw, p)
  <1>1. ASSUME NEW q \in Above(p) PROVE Exists(rw[q]) \/ cd[q].kind # "reg"
    <2>1. q \in Paths /\ Stat(q).kind = "dir"
      BY <1>1, Ancestors DEF Walkable
    <2>2. Stat(q) = IF Exists(rw[q]) THEN rw[q] ELSE cd[q]
      BY <2>1 DEF Stat, MkPath, LayerOf, At, Absent
    <2>3. QED
      BY <2>1, <2>2
  <1>2. QED
    BY <1>1 DEF Reached

\* What Seen says of a name, in terms of Stat.
LEMMA SeenKind ==
    ASSUME TreeInv, NEW p \in Paths
    PROVE  /\ Stat(p) \in Node /\ Seen(p) \in Node
           /\ Seen(p).kind = IF Walkable(p) THEN Stat(p).kind ELSE "absent"
           /\ Stat(p) = IF Hidden(wo, p) THEN Absent
                        ELSE IF Exists(rw[p]) THEN rw[p] ELSE cd[p]
  <1>1. Stat(p) = IF Hidden(wo, p) THEN Absent ELSE IF Exists(rw[p]) THEN rw[p] ELSE cd[p]
    BY DEF Stat, IsVisible, MkPath, LayerOf, At
  <1>2. QED
    BY <1>1, InvTypes, SeenIsSeenOf, SeenParts

\* A request that only makes rw_tmp grow.
LEMMA GrowStep ==
    ASSUME TreeInv, NEW M, Grown(cd, rw, M)
    PROVE  Sound(cd, M) /\ Files(cd, M, wo, kfile)
  BY InvTypes, GrownSound, GrownFiles DEF TreeInv

\* A request that fails, or hangs, after that.
LEMMA FailStep ==
    ASSUME TreeInv, NEW M, Grown(cd, rw, M), Fails(M) \/ Hangs(M)
    PROVE  TreeInv'
  <1>1. Inv'
    BY FailsKeepsInv DEF TreeInv, Grown
  <1>2. cd' = cd /\ rw' = M /\ wo' = wo /\ kfile' = kfile
    BY DEF Fails, Hangs
  <1>3. QED
    BY <1>1, <1>2, GrowStep DEF TreeInv

\* A request that, after that, makes an entry for a name nothing had.
LEMMA AddStep ==
    ASSUME TreeInv, NEW M, Grown(cd, rw, M), NEW p \in Paths, Negative(p),
           NEW N \in Layer, IsTree(N), InodesShared(N), \A q \in Paths \ {p} : N[q] = M[q],
           NEW w2 \in Show(p)
    PROVE  Sound(cd, N) /\ Files(cd, N, w2, kfile)
  <1>1. kfile \in [Fds -> KFile] /\ \A q \in Paths \ {p} : Hidden(w2, q) <=> Hidden(wo, q)
    BY InvTypes, VisibleHides
  <1>2. Files(cd, M, wo, kfile)
    BY GrowStep
  <1>3. ASSUME NEW f \in Fds, kfile[f].linked
        PROVE  Prefixes(kfile[f].path) \cap {p} = {}
    <2>1. kfile[f].path \in Paths /\ SeesFile(cd, rw, wo, kfile[f].path)
      BY <1>1, <1>3 DEF TreeInv, Files, KFile
    <2>2. ASSUME NEW q \in Prefixes(kfile[f].path) PROVE q \in Paths /\ Exists(Stat(q))
      <3>1. q \in Paths /\ (q = kfile[f].path \/ q \in Above(kfile[f].path))
        BY <2>1, PathsAssumption, Ancestors
      <3>2. StatOf(cd, rw, wo, q).kind \in {"dir", "reg"}
        BY <2>1, <3>1 DEF SeesFile, WalkOf
      <3>3. QED
        BY <3>1, <3>2, SeenIsSeenOf DEF Exists
    <2>3. QED
      BY <2>2 DEF Negative
  <1>4. \A q \in Paths \ {p} : N[q] = M[q] /\ (Hidden(w2, q) <=> Hidden(wo, q))
    BY <1>1
  <1>5. Files(cd, N, w2, kfile)
    <2>1. SUFFICES ASSUME NEW f \in Fds, kfile[f].linked
                   PROVE  /\ kfile[f].open
                          /\ SeesFile(cd, N, w2, kfile[f].path)
                          /\ kfile[f].acc = "w" => N[kfile[f].path].kind = "reg"
      BY DEF Files
    <2>2. kfile[f].path \in Paths /\ kfile[f].path \in Prefixes(kfile[f].path)
      BY <1>1, <2>1, Ancestors DEF KFile
    <2>3. \A q \in Prefixes(kfile[f].path) : q \in Paths \ {p}
      BY <1>3, <2>1, <2>2, PathsAssumption
    <2>4. SeesFile(cd, M, wo, kfile[f].path) /\ (kfile[f].acc = "w" => M[kfile[f].path].kind = "reg")
      BY <1>2, <2>1 DEF Files
    <2>5. SeesFile(cd, N, w2, kfile[f].path)
      BY <1>4, <2>2, <2>3, <2>4, OtherFile
    <2>6. kfile[f].open /\ N[kfile[f].path] = M[kfile[f].path]
      BY <1>2, <1>4, <2>1, <2>2, <2>3 DEF Files
    <2>7. QED
      BY <2>4, <2>5, <2>6
  <1>6. QED
    BY <1>5 DEF Sound, TreeInv

\* doStat, doReadlink, doRead.
LEMMA QuietTree ==
    ASSUME TreeInv, Inv', UNCHANGED <<cd, rw, wo, kfile>>
    PROVE  TreeInv'
  BY DEF TreeInv

\* doReaddir makes the directory, and those above it, which are seen to be
\* directories.
LEMMA ReaddirGrows ==
    ASSUME TreeInv, NEW d \in Paths, Seen(d).kind = "dir"
    PROVE  Grown(cd, rw, RecurseMkdir(rw, d))
  <1> DEFINE M == RecurseMkdir(rw, d)
  <1>1. /\ M \in Layer /\ IsTree(M)
        /\ \A q \in Paths : \/ M[q] = rw[q]
                            \/ ~Exists(rw[q]) /\ M[q] = DirNode /\ q \in Prefixes(d)
    BY InvTypes, RecurseMkdirTree, RecurseMkdirType DEF TreeInv, Sound
  <1> HIDE DEF M
  <1>2. ASSUME NEW q \in Prefixes(d), ~Exists(rw[q]) PROVE cd[q].kind # "reg"
    <2>1. q \in Paths /\ Stat(q).kind = "dir"
      BY SeenKind, Ancestors DEF Walkable
    <2>2. Stat(q) = cd[q]
      BY <1>2, <2>1, SeenKind DEF Absent
    <2>3. QED
      BY <2>1, <2>2
  <1>3. InodesShared(M)
    BY <1>1 DEF InodesShared, DirNode, TreeInv, Sound
  <1>4. QED
    BY <1>1, <1>2, <1>3 DEF Grown, M

\* Listing a directory mirrors it in rw_tmp, at most, which keeps the tree.
LEMMA ReaddirTree ==
    ASSUME TreeInv, NEW d \in Paths, doReaddir(d)
    PROVE  TreeInv'
  <1>1. Grown(cd, rw, rw') /\ UNCHANGED <<cd, wo, kfile>>
    BY ReaddirGrows DEF doReaddir, Done
  <1>2. Inv'
    BY ReaddirStep DEF TreeInv
  <1>3. QED
    BY <1>1, <1>2, GrowStep DEF TreeInv

\* doMkdir makes a directory where nothing was seen.
LEMMA MkdirTree ==
    ASSUME TreeInv, NEW d \in Paths, doMkdir(d)
    PROVE  TreeInv'
  <1>1. Inv' /\ Grown(cd, rw, rw) /\ Negative(d)
    BY MkdirStep, GrownSame, InvTypes DEF TreeInv, Sound, doMkdir
  <1>2. CASE Fails(rw)
    BY <1>1, <1>2, FailStep
  <1>3. CASE /\ CanAdd(rw, d) /\ Done(Put(rw, d, DirNode), Show(d))
             /\ UNCHANGED <<cd, handles, kfile>>
    <2>1. /\ rw' \in Layer /\ IsTree(rw') /\ InodesShared(rw')
          /\ \A q \in Paths \ {d} : rw'[q] = rw[q]
      <3>1. DirNode \in Node /\ DirNode.ino = NoIno
        BY NodeTypes DEF DirNode
      <3>2. QED
        BY <1>3, <3>1, AddTree, InvTypes DEF TreeInv, Sound, Done
    <2>2. wo' \in Show(d)
      BY <1>3 DEF Done
    <2>3. Sound(cd, rw') /\ Files(cd, rw', wo', kfile)
      BY <1>1, <2>1, <2>2, AddStep
    <2>4. QED
      BY <1>1, <1>3, <2>3 DEF TreeInv, Done
  <1>4. QED
    BY <1>2, <1>3 DEF doMkdir

\* doCreate makes the parents, then a file where nothing was seen.
LEMMA CreateTree ==
    ASSUME TreeInv, NEW p \in Paths, doCreate(p)
    PROVE  TreeInv'
  <1> DEFINE M == MakeDirFor(cd, rw, p)
  <1>1. Inv' /\ Negative(p) /\ Reached(cd, rw, p)
    BY CreateStep, WalkReached DEF TreeInv, doCreate, Negative
  <1>2. Grown(cd, rw, M)
    BY <1>1, MakeDirForGrows DEF TreeInv
  <1>3. \/ Fails(M)
        \/ /\ CanCreate(M, p) /\ Done(NewFile(M, p, Empty), Show(p))
           /\ UNCHANGED <<cd, handles, kfile>>
    BY DEF doCreate
  <1> HIDE DEF M
  <1>4. CASE Fails(M)
    BY <1>2, <1>4, FailStep
  <1>5. CASE /\ CanCreate(M, p) /\ Done(NewFile(M, p, Empty), Show(p))
             /\ UNCHANGED <<cd, handles, kfile>>
    <2>1. /\ rw' \in Layer /\ IsTree(rw') /\ InodesShared(rw')
          /\ \A q \in Paths \ {p} : rw'[q] = M[q]
      BY <1>2, <1>5, NewFileTree, DataAssumption DEF Grown, Done
    <2>2. wo' \in Show(p)
      BY <1>5 DEF Done
    <2>3. Sound(cd, rw') /\ Files(cd, rw', wo', kfile)
      BY <1>1, <1>2, <2>1, <2>2, AddStep
    <2>4. QED
      BY <1>1, <1>5, <2>3 DEF TreeInv, Done
  <1>6. QED
    BY <1>3, <1>4, <1>5

\* The directories doLinkAll makes for a new name and its target.
LEMMA MadeForGrows ==
    ASSUME TreeInv, NEW l \in Paths, NEW t \in Paths, Walkable(l)
    PROVE  Grown(cd, rw, MadeFor(l, t))
  <1> DEFINE L1 == MakeDirFor(cd, rw, l)
             L2 == MadeFor(l, t)
  <1>1. Grown(cd, rw, L1) /\ Sound(cd, L1)
    BY WalkReached, MakeDirForGrows, GrownSound DEF TreeInv
  <1>2. L2 = IF Exists(MkPath(cd, L1, t)) /\ ~IsDir(cd, L1, t) THEN MakeDirFor(cd, L1, t) ELSE L1
    BY DEF MadeFor
  <1> HIDE DEF L1, L2
  <1>3. CASE Exists(MkPath(cd, L1, t)) /\ ~IsDir(cd, L1, t)
    <2>1. Reached(cd, L1, t)
      BY <1>1, <1>3, ExistsReached DEF Sound
    <2>2. Grown(cd, L1, L2)
      BY <1>1, <1>2, <1>3, <2>1, MakeDirForGrows
    <2>3. QED
      BY <1>1, <2>2, GrownTwice DEF L2
  <1>4. CASE ~(Exists(MkPath(cd, L1, t)) /\ ~IsDir(cd, L1, t))
    BY <1>1, <1>2, <1>4 DEF L2
  <1>5. QED
    BY <1>3, <1>4

\* What doLinkAll prepares for a new name and its target.
LEMMA TargetGrows ==
    ASSUME TreeInv, NEW l \in Paths, NEW t \in Paths, Walkable(l), NEW M \in Target(l, t)
    PROVE  Grown(cd, rw, M)
  <1> DEFINE L == MadeFor(l, t)
  <1>1. Grown(cd, rw, L) /\ Sound(cd, L)
    BY MadeForGrows, GrowStep
  <1> HIDE DEF L
  <1>2. CASE Exists(cd[t])
    <2>1. Reached(cd, L, t)
      <3>1. cd[t].kind # "absent" /\ IsTree(cd)
        BY <1>2 DEF Exists, TreeInv, Sound
      <3>2. QED
        BY <1>2, <3>1, TreeAncestors DEF Reached
    <2>2. M \in CopyUp(cd, L, t)
      BY <1>2 DEF Target, L
    <2>3. Grown(cd, L, M)
      BY <1>1, <2>1, <2>2, CopyUpGrows
    <2>4. QED
      BY <1>1, <2>3, GrownTwice
  <1>3. CASE ~Exists(cd[t])
    BY <1>1, <1>3 DEF Target, L
  <1>4. QED
    BY <1>2, <1>3

\* doLink makes one more name of a file, or of a link.
LEMMA LinkTree ==
    ASSUME TreeInv, NEW t \in Paths, NEW l \in Paths, doLink(t, l)
    PROVE  TreeInv'
  <1>1. Inv' /\ Negative(l) /\ Walkable(l)
    BY LinkStep DEF TreeInv, doLink, Negative
  <1>2. PICK M \in Target(l, t) :
          \/ Hangs(M) \/ Fails(M)
          \/ /\ CanAdd(M, l) /\ Done(Put(M, l, M[t]), Show(l))
             /\ UNCHANGED <<cd, handles, kfile>>
    BY DEF doLink
  <1>3. Grown(cd, rw, M)
    BY <1>1, TargetGrows
  <1>4. CASE Hangs(M) \/ Fails(M)
    BY <1>3, <1>4, FailStep
  <1>5. CASE /\ CanAdd(M, l) /\ Done(Put(M, l, M[t]), Show(l))
             /\ UNCHANGED <<cd, handles, kfile>>
    <2>1. M \in Layer /\ IsTree(M) /\ InodesShared(M) /\ M[t] \in Node
      BY <1>3 DEF Grown, Layer
    <2>2. /\ rw' \in Layer /\ IsTree(rw') /\ InodesShared(rw')
          /\ \A q \in Paths \ {l} : rw'[q] = M[q]
      BY <1>5, <2>1, AddTree DEF Done
    <2>3. wo' \in Show(l)
      BY <1>5 DEF Done
    <2>4. Sound(cd, rw') /\ Files(cd, rw', wo', kfile)
      BY <1>1, <1>3, <2>2, <2>3, AddStep
    <2>5. QED
      BY <1>1, <1>5, <2>4 DEF TreeInv, Done
  <1>6. QED
    BY <1>2, <1>4, <1>5

\* doSymlink makes a link, of any text.
LEMMA SymlinkTree ==
    ASSUME TreeInv, NEW text \in Texts, NEW l \in Paths, doSymlink(text, l)
    PROVE  TreeInv'
  <1>1. Inv' /\ Negative(l) /\ Walkable(l) /\ Grown(cd, rw, rw)
    BY SymlinkStep, GrownSame, InvTypes DEF TreeInv, Sound, doSymlink, Negative
  <1>2. text \in [form : {"rel", "abs"}, path : Paths]
    BY RequestsAssumption
  <1>3. \/ Fails(rw)
        \/ \E M \in Target(l, text.path) :
             \/ Hangs(M) \/ Fails(M)
             \/ /\ CanAdd(M, l) /\ Done(Put(M, l, Link(TextOf(M, text))), Show(l))
                /\ UNCHANGED <<cd, handles, kfile>>
    BY DEF doSymlink
  <1>4. CASE Fails(rw)
    BY <1>1, <1>4, FailStep
  <1>5. ASSUME NEW M \in Target(l, text.path),
               \/ Hangs(M) \/ Fails(M)
               \/ /\ CanAdd(M, l) /\ Done(Put(M, l, Link(TextOf(M, text))), Show(l))
                  /\ UNCHANGED <<cd, handles, kfile>>
        PROVE  TreeInv'
    <2>1. Grown(cd, rw, M)
      BY <1>1, <1>2, TargetGrows
    <2>2. CASE Hangs(M) \/ Fails(M)
      BY <2>1, <2>2, FailStep
    <2>3. CASE /\ CanAdd(M, l) /\ Done(Put(M, l, Link(TextOf(M, text))), Show(l))
               /\ UNCHANGED <<cd, handles, kfile>>
      <3>1. TextOf(M, text) \in Text
        BY <1>2 DEF TextOf, Text
      <3>2. Link(TextOf(M, text)) \in Node /\ Link(TextOf(M, text)).ino = NoIno
        BY <3>1, NodeTypes DEF Link
      <3>3. /\ rw' \in Layer /\ IsTree(rw') /\ InodesShared(rw')
            /\ \A q \in Paths \ {l} : rw'[q] = M[q]
        BY <2>1, <2>3, <3>2, AddTree DEF Done, Grown
      <3>4. wo' \in Show(l)
        BY <2>3 DEF Done
      <3>5. Sound(cd, rw') /\ Files(cd, rw', wo', kfile)
        BY <1>1, <2>1, <3>3, <3>4, AddStep
      <3>6. QED
        BY <1>1, <2>3, <3>5 DEF TreeInv, Done
    <2>4. QED
      BY <1>5, <2>2, <2>3
  <1>6. QED
    BY <1>3, <1>4, <1>5

\* Files keep their places when no kind changes and no name is hidden.
LEMMA SameKindsSee ==
    ASSUME NEW C, NEW L, NEW w, NEW C2, NEW L2, NEW w2, NEW p \in Paths, SeesFile(C, L, w, p),
           \A q \in Paths : /\ C2[q].kind = C[q].kind /\ L2[q].kind = L[q].kind
                            /\ Hidden(w2, q) => Hidden(w, q)
    PROVE  SeesFile(C2, L2, w2, p)
  <1>1. ASSUME NEW q \in Prefixes(p), StatOf(C, L, w, q).kind \in {"dir", "reg"}
        PROVE  StatOf(C2, L2, w2, q).kind = StatOf(C, L, w, q).kind
    <2>1. q \in Paths /\ ~Hidden(w, q)
      BY <1>1, PathsAssumption DEF StatOf, IsVisible, Absent
    <2>2. /\ StatOf(C, L, w, q) = IF Exists(L[q]) THEN L[q] ELSE C[q]
          /\ StatOf(C2, L2, w2, q) = IF Exists(L2[q]) THEN L2[q] ELSE C2[q]
      BY <2>1 DEF StatOf, IsVisible, MkPath, LayerOf, At
    <2>3. QED
      BY <2>1, <2>2 DEF Exists
  <1>2. QED
    BY <1>1, FileStaysSeen

\* Open files stay reachable when kinds stay and no name is newly hidden.
LEMMA SameKindsFiles ==
    ASSUME NEW C, NEW L, NEW w, NEW C2, NEW L2, NEW w2,
           NEW k \in [Fds -> KFile], Files(C, L, w, k),
           \A q \in Paths : /\ C2[q].kind = C[q].kind /\ L2[q].kind = L[q].kind
                            /\ Hidden(w2, q) => Hidden(w, q)
    PROVE  Files(C2, L2, w2, k)
  <1>1. SUFFICES ASSUME NEW f \in Fds, k[f].linked
                 PROVE  /\ k[f].open
                        /\ SeesFile(C2, L2, w2, k[f].path)
                        /\ k[f].acc = "w" => L2[k[f].path].kind = "reg"
    BY DEF Files
  <1>2. /\ k[f].path \in Paths /\ k[f].open /\ SeesFile(C, L, w, k[f].path)
        /\ k[f].acc = "w" => L[k[f].path].kind = "reg"
    BY <1>1 DEF Files, KFile
  <1>3. SeesFile(C2, L2, w2, k[f].path)
    BY <1>2, SameKindsSee
  <1>4. QED
    BY <1>2, <1>3

\* Growing keeps a file seen.
LEMMA GrownSees ==
    ASSUME NEW C, NEW L, NEW M, Grown(C, L, M), NEW w, NEW p \in Paths, SeesFile(C, L, w, p)
    PROVE  SeesFile(C, M, w, p)
  <1>1. Prefixes(p) \subseteq Paths
    BY PathsAssumption
  <1>2. QED
    BY <1>1, GrownShows, FileStaysSeen

\* doOpen: what it makes of rw_tmp for a file that is seen.
LEMMA ToOpenGrows ==
    ASSUME TreeInv, NEW p \in Paths, Seen(p).kind = "reg",
           NEW acc, NEW creat \in BOOLEAN, NEW M \in ToOpen(p, acc, creat)
    PROVE  /\ Grown(cd, rw, M)
           /\ CanCreate(M, p) => Grown(cd, rw, NewFile(M, p, Empty))
  <1>1. Walkable(p) /\ Stat(p).kind = "reg" /\ Reached(cd, rw, p)
    BY SeenKind, WalkReached
  <1>2. Grown(cd, rw, M)
    <2>1. M = MakeDirFor(cd, rw, p) \/ M \in CopyUp(cd, rw, p) \/ M = rw
      BY DEF ToOpen
    <2>2. QED
      BY <1>1, <2>1, MakeDirForGrows, CopyUpGrows, GrownSame, InvTypes DEF TreeInv, Sound
  <1>3. ASSUME CanCreate(M, p) PROVE Grown(cd, rw, NewFile(M, p, Empty))
    <2> DEFINE N == NewFile(M, p, Empty)
    <2>1. /\ N \in Layer /\ IsTree(N) /\ InodesShared(N) /\ N[p].kind = "reg"
          /\ \A q \in Paths \ {p} : N[q] = M[q]
      BY <1>2, <1>3, NewFileTree, DataAssumption DEF Grown
    <2> HIDE DEF N
    <2>2. ~Exists(M[p])
      BY <1>3 DEF CanCreate, CanAdd
    <2>3. ~Exists(rw[p])
      BY <1>2, <2>2 DEF Grown
    <2>4. cd[p].kind = "reg"
      BY <1>1, <2>3, SeenKind DEF Absent
    <2>5. Grown(cd, rw, N)
      BY <1>2, <2>1, <2>3, <2>4 DEF Grown
    <2>6. QED
      BY <2>5 DEF N
  <1>4. QED
    BY <1>2, <1>3

\* The three cases of what is opened: a new file, a truncated one, one as it is.
LEMMA OpenedFile ==
    ASSUME TreeInv, NEW p \in Paths, Seen(p).kind = "reg",
           NEW acc \in {"r", "w"}, NEW creat \in BOOLEAN, NEW trunc \in BOOLEAN, trunc => acc = "w",
           NEW M \in ToOpen(p, acc, creat), NEW N,
           \/ CanCreate(M, p) /\ N = NewFile(M, p, Empty)
           \/ /\ (IF creat \/ acc = "w" THEN M[p] ELSE MkPath(cd, M, p)).kind = "reg"
              /\ N = M \/ (trunc /\ N = SetData(M, p, Empty))
    PROVE  /\ Sound(cd, N) /\ Files(cd, N, wo, kfile) /\ SeesFile(cd, N, wo, p)
           /\ acc = "w" => N[p].kind = "reg"
  <1>1. Grown(cd, rw, M) /\ (CanCreate(M, p) => Grown(cd, rw, NewFile(M, p, Empty)))
    BY ToOpenGrows
  <1>2. SeesFile(cd, rw, wo, p) /\ Files(cd, rw, wo, kfile) /\ kfile \in [Fds -> KFile]
    BY InvTypes, SeenIsSeenOf, SeenParts DEF TreeInv
  <1>3. CASE CanCreate(M, p) /\ N = NewFile(M, p, Empty)
    <2>1. Grown(cd, rw, N)
      BY <1>1, <1>3
    <2>2. M \in Layer /\ IsTree(M) /\ InodesShared(M) /\ Empty \in Data
      BY <1>1, DataAssumption DEF Grown
    <2>3. N[p].kind = "reg"
      BY <1>3, <2>2, NewFileTree
    <2>4. QED
      BY <1>2, <2>1, <2>3, GrowStep, GrownSees
  <1>4. CASE /\ (IF creat \/ acc = "w" THEN M[p] ELSE MkPath(cd, M, p)).kind = "reg"
             /\ N = M
    BY <1>1, <1>2, <1>4, GrowStep, GrownSees
  <1>5. CASE /\ (IF creat \/ acc = "w" THEN M[p] ELSE MkPath(cd, M, p)).kind = "reg"
             /\ trunc /\ N = SetData(M, p, Empty)
    <2>1. N = SetData(M, p, Empty) /\ M[p].kind = "reg"
      BY <1>5
    <2>2. M \in Layer /\ IsTree(M) /\ InodesShared(M) /\ Exists(M[p]) /\ p # <<>>
      BY <1>1, <2>1 DEF Grown, IsTree, DirNode, Exists
    <2>3. /\ N \in Layer /\ IsTree(N) /\ InodesShared(N)
          /\ \A q \in Paths : N[q].kind = M[q].kind
      BY <2>1, <2>2, SetDataTree, DataAssumption
    <2>4. Files(cd, M, wo, kfile) /\ SeesFile(cd, M, wo, p)
      BY <1>1, <1>2, GrowStep, GrownSees
    <2>5. Files(cd, N, wo, kfile) /\ SeesFile(cd, N, wo, p)
      BY <1>2, <2>3, <2>4, SameKindsFiles, SameKindsSee
    <2>6. QED
      BY <2>1, <2>3, <2>5 DEF Sound, TreeInv
  <1>6. QED
    BY <1>3, <1>4, <1>5

\* doOpen copies, makes or truncates, and opens what it found.
LEMMA OpenTree ==
    ASSUME TreeInv, NEW p \in Paths, NEW acc \in {"r", "w"}, NEW creat \in BOOLEAN,
           NEW trunc \in BOOLEAN, doOpen(p, acc, creat, trunc)
    PROVE  TreeInv'
  <1> DEFINE new(M) == creat /\ CanCreate(M, p)
             W == IF creat THEN Show(p) ELSE {wo}
             N(M) == CASE new(M) -> NewFile(M, p, Empty)
                       [] trunc /\ ~new(M) -> SetData(M, p, Empty)
                       [] OTHER -> M
             fd == CHOOSE f \in FreeFd : TRUE
             node(M) == IF creat \/ acc = "w" THEN M[p] ELSE MkPath(cd, M, p)
  <1>1. Inv' /\ Seen(p).kind = "reg" /\ (trunc => acc = "w")
    BY OpenStep DEF TreeInv, doOpen
  <1>2. \A w \in W : \A q \in Paths : Hidden(w, q) => Hidden(wo, q)
    BY InvTypes, VisibleHides
  <1>3. kfile \in [Fds -> KFile]
    BY InvTypes
  <1>4. fd \in Fds
    BY DEF doOpen, FreeFd
  <1>5. PICK M \in ToOpen(p, acc, creat) :
           \/ /\ node(M).kind = "reg" \/ new(M)
              /\ rw' = N(M) /\ wo' \in W /\ cd' = cd
              /\ kfile' = [kfile EXCEPT ![fd] = Opened(p, acc)]
           \/ Fails(M)
    BY DEF doOpen, Done
  <1> HIDE DEF W, fd
  <1>6. CASE Fails(M)
    BY <1>1, <1>6, ToOpenGrows, FailStep
  <1>7. CASE ~Fails(M)
    <2>1. \/ CanCreate(M, p) /\ rw' = NewFile(M, p, Empty)
          \/ node(M).kind = "reg" /\ (rw' = M \/ (trunc /\ rw' = SetData(M, p, Empty)))
      BY <1>5, <1>7
    <2>2. /\ Sound(cd, rw') /\ Files(cd, rw', wo, kfile) /\ SeesFile(cd, rw', wo, p)
          /\ acc = "w" => rw'[p].kind = "reg"
      BY <1>1, <2>1, OpenedFile
    <2>3. Files(cd, rw', wo', kfile) /\ SeesFile(cd, rw', wo', p)
      BY <1>2, <1>3, <1>5, <1>7, <2>2, SameKindsFiles, SameKindsSee
    <2>4. Files(cd, rw', wo', kfile')
      <3>1. SUFFICES ASSUME NEW f \in Fds, kfile'[f].linked
                     PROVE  /\ kfile'[f].open
                            /\ SeesFile(cd, rw', wo', kfile'[f].path)
                            /\ kfile'[f].acc = "w" => rw'[kfile'[f].path].kind = "reg"
        BY DEF Files
      <3>2. CASE f = fd
        <4>1. kfile'[f] = Opened(p, acc)
          BY <1>3, <1>5, <1>7, <3>2
        <4>2. QED
          BY <2>2, <2>3, <4>1 DEF Opened
      <3>3. CASE f # fd
        <4>1. kfile'[f] = kfile[f]
          BY <1>3, <1>5, <1>7, <3>3
        <4>2. QED
          BY <2>3, <3>1, <4>1 DEF Files
      <3>4. QED
        BY <3>2, <3>3
    <2>5. QED
      BY <1>1, <1>5, <1>7, <2>2, <2>4 DEF TreeInv
  <1>8. QED
    BY <1>6, <1>7

\* doRelease closes a file and leaves the rest.
LEMMA ReleaseTree ==
    ASSUME TreeInv, NEW f \in Fds, doRelease(f)
    PROVE  TreeInv'
  <1>1. Inv'
    BY ReleaseStep DEF TreeInv
  <1>2. kfile' = [kfile EXCEPT ![f] = Closed] /\ UNCHANGED <<cd, rw, wo>>
    BY DEF doRelease
  <1>3. \A g \in Fds : kfile'[g].linked => kfile'[g] = kfile[g]
    BY <1>2, InvTypes DEF Closed
  <1>4. QED
    BY <1>1, <1>2, <1>3 DEF TreeInv, Files

\* doWrite writes a file where its name leads: contents are all it changes.
LEMMA WriteTree ==
    ASSUME TreeInv, NEW f \in Fds, NEW d \in Data, doWrite(f, d)
    PROVE  TreeInv'
  <1> DEFINE end == Reopened(f)
  <1>1. Inv'
    BY WriteStep DEF TreeInv
  <1>2. UNCHANGED <<wo, kfile>>
    BY DEF doWrite
  <1>3. InodesShared(cd) /\ IsTree(cd) /\ cd \in Layer
    BY DEF TreeInv, Sound, Burnt, InodesShared
  <1>4. PICK e \in Data :
          \/ UNCHANGED <<cd, rw>>
          \/ /\ end # Nowhere /\ end.layer = "tmp" /\ rw[end.path].kind = "reg"
             /\ rw' = SetData(rw, end.path, e) /\ cd' = cd
          \/ /\ end # Nowhere /\ end.layer = "root" /\ cd[end.path].kind = "reg"
             /\ cd' = SetData(cd, end.path, e) /\ rw' = rw
    BY WrittenData DEF doWrite, NodeOf
  <1>5. end # Nowhere => end.path \in Paths
    BY FollowType DEF Reopened
  <1> HIDE DEF end
  <1>6. /\ Sound(cd', rw')
        /\ \A q \in Paths : /\ cd'[q].kind = cd[q].kind /\ cd'[q].ino = cd[q].ino
                            /\ cd'[q].to = cd[q].to /\ rw'[q].kind = rw[q].kind
    <2>1. CASE UNCHANGED <<cd, rw>>
      BY <2>1 DEF TreeInv
    <2>2. CASE /\ end # Nowhere /\ rw[end.path].kind = "reg"
               /\ rw' = SetData(rw, end.path, e) /\ cd' = cd
      <3>1. end.path \in Paths \ {<<>>} /\ Exists(rw[end.path])
        BY <1>5, <2>2 DEF TreeInv, Sound, IsTree, DirNode, Exists
      <3>2. QED
        BY <2>2, <3>1, SetDataTree DEF TreeInv, Sound
    <2>3. CASE /\ end # Nowhere /\ cd[end.path].kind = "reg"
               /\ cd' = SetData(cd, end.path, e) /\ rw' = rw
      <3>1. end.path \in Paths \ {<<>>} /\ Exists(cd[end.path])
        BY <1>3, <1>5, <2>3 DEF IsTree, DirNode, Exists
      <3>2. QED
        BY <1>3, <2>3, <3>1, SetDataTree DEF TreeInv, Sound
    <2>4. QED
      BY <1>4, <2>1, <2>2, <2>3
  <1>7. Files(cd', rw', wo, kfile)
    BY <1>6, InvTypes, SameKindsFiles DEF TreeInv
  <1>8. Burnt(cd')
    <2>1. \A q \in Paths : cd'[q] # cd[q] => cd[q].kind = "reg"
      BY <1>3, <1>4, <1>5 DEF SetData, TreeInv, Burnt
    <2>2. QED
      BY <1>6, <2>1 DEF Burnt, TreeInv
  <1>9. QED
    BY <1>1, <1>2, <1>6, <1>7, <1>8 DEF TreeInv

\* doSetattr copies up, and may shrink the file.
LEMMA SetattrTree ==
    ASSUME TreeInv, NEW p \in Paths, NEW shrink \in BOOLEAN, doSetattr(p, shrink)
    PROVE  TreeInv'
  <1>1. Inv' /\ Walkable(p) /\ (shrink => Seen(p).kind = "reg")
    BY SetattrStep DEF TreeInv, doSetattr, Present, Seen, Exists, Absent
  <1>2. PICK M \in CopyUp(cd, rw, p) :
          \/ Hangs(M) \/ Fails(M)
          \/ /\ Exists(M[p]) /\ Done(IF shrink THEN SetData(M, p, Empty) ELSE M, {wo})
             /\ UNCHANGED <<cd, handles, kfile>>
    BY DEF doSetattr
  <1>3. Grown(cd, rw, M)
    BY <1>1, WalkReached, CopyUpGrows DEF TreeInv
  <1>4. Sound(cd, M) /\ Files(cd, M, wo, kfile)
    BY <1>3, GrowStep
  <1>5. CASE Hangs(M) \/ Fails(M)
    BY <1>3, <1>5, FailStep
  <1>6. CASE ~shrink /\ Done(M, {wo}) /\ UNCHANGED <<cd, handles, kfile>>
    BY <1>1, <1>4, <1>6 DEF TreeInv, Done
  <1>7. CASE shrink /\ Exists(M[p]) /\ Done(SetData(M, p, Empty), {wo}) /\ UNCHANGED <<cd, handles, kfile>>
    <2>1. p # <<>>
      BY <1>1, <1>7, SeenKind DEF TreeInv, Sound, IsTree, DirNode, Exists, Absent
    <2>2. /\ Sound(cd, rw')
          /\ \A q \in Paths : rw'[q].kind = M[q].kind
      BY <1>4, <1>7, <2>1, SetDataTree, DataAssumption DEF Sound, Done
    <2>3. Files(cd, rw', wo, kfile)
      BY <1>4, <2>2, InvTypes, SameKindsFiles
    <2>4. QED
      BY <1>1, <1>7, <2>2, <2>3 DEF TreeInv, Done
  <1>8. QED
    BY <1>2, <1>5, <1>6, <1>7

\* With nothing open, a reconnection has no file to lose.
LEMMA RemountTree ==
    ASSUME TreeInv, Remount
    PROVE  TreeInv'
  <1>1. Inv' /\ UNCHANGED <<cd, rw, kfile>>
    BY RemountStep DEF TreeInv, Remount
  <1>2. \A f \in Fds : ~kfile[f].linked
    BY DEF Remount, FreeFd, IsOpen, TreeInv, Files
  <1>3. QED
    BY <1>1, <1>2 DEF TreeInv, Files

\* doRmdir removes a directory no open file is below.
LEMMA RmdirTree ==
    ASSUME TreeInv, NEW d \in Paths, doRmdir(d)
    PROVE  TreeInv'
  <1>1. Inv' /\ d # <<>> /\ Seen(d).kind = "dir" /\ UNCHANGED <<cd, kfile>>
    BY RmdirStep DEF TreeInv, doRmdir
  <1>2. \A q \in Paths \ {d} : Hidden(wo', q) <=> Hidden(wo, q)
    BY InvTypes, VisibleHides DEF doRmdir
  <1>3. /\ Sound(cd, rw')
        /\ \A q \in Paths \ {d} : rw'[q] = rw[q]
    <2>1. CASE Exists(rw[d]) /\ Entries(rw, d) # {}
      BY <2>1 DEF doRmdir, TreeInv
    <2>2. CASE ~(Exists(rw[d]) /\ Entries(rw, d) # {})
      <3>1. rw' = Put(rw, d, Absent)
        BY <2>2 DEF doRmdir
      <3>2. rw[d].kind # "dir" \/ Entries(rw, d) = {}
        BY <2>2 DEF Exists
      <3>3. QED
        BY <1>1, <3>1, <3>2, RemoveTree DEF TreeInv, Sound
    <2>3. QED
      BY <2>1, <2>2
  <1>4. Files(cd, rw', wo', kfile)
    <2>1. SUFFICES ASSUME NEW f \in Fds, kfile[f].linked
                   PROVE  /\ kfile[f].open
                          /\ SeesFile(cd, rw', wo', kfile[f].path)
                          /\ kfile[f].acc = "w" => rw'[kfile[f].path].kind = "reg"
      BY DEF Files
    <2>2. /\ kfile[f].path \in Paths /\ kfile[f].open /\ SeesFile(cd, rw, wo, kfile[f].path)
          /\ kfile[f].acc = "w" => rw[kfile[f].path].kind = "reg"
      BY <2>1, InvTypes DEF TreeInv, Files, KFile
    <2>3. d \notin Prefixes(kfile[f].path)
      BY <2>2, PrefixTest DEF doRmdir, IsOpen
    <2>4. kfile[f].path # d /\ \A q \in Prefixes(kfile[f].path) : q \in Paths \ {d}
      BY <2>2, <2>3, Ancestors, PathsAssumption
    <2>5. SeesFile(cd, rw', wo', kfile[f].path)
      BY <1>2, <1>3, <2>2, <2>4, OtherFile
    <2>6. QED
      BY <1>3, <2>2, <2>4, <2>5
  <1>5. QED
    BY <1>1, <1>3, <1>4 DEF TreeInv

\* doUnlink removes the name of a file; those open under it are orphans.
LEMMA UnlinkTree ==
    ASSUME TreeInv, NEW p \in Paths, doUnlink(p)
    PROVE  TreeInv'
  <1>1. /\ Inv' /\ Seen(p).kind \in FileKinds /\ cd' = cd
        /\ rw' = Put(rw, p, Absent) /\ kfile' = Orphan(p)
    BY UnlinkStep DEF TreeInv, doUnlink, Done
  <1>2. \A q \in Paths \ {p} : Hidden(wo', q) <=> Hidden(wo, q)
    BY InvTypes, VisibleHides DEF doUnlink, Done
  <1>3. Stat(p).kind \in FileKinds
    BY <1>1, SeenKind DEF FileKinds
  <1>4. p # <<>> /\ rw[p].kind # "dir"
    <2>1. rw[p].kind # "dir"
      BY <1>3, SeenKind DEF Exists, Absent, FileKinds
    <2>2. QED
      BY <2>1 DEF TreeInv, Sound, IsTree, DirNode
  <1>5. Sound(cd, rw') /\ \A q \in Paths \ {p} : rw'[q] = rw[q]
    BY <1>1, <1>4, RemoveTree DEF TreeInv, Sound
  <1>6. Files(cd, rw', wo', kfile')
    <2>1. SUFFICES ASSUME NEW f \in Fds, kfile'[f].linked
                   PROVE  /\ kfile'[f].open
                          /\ SeesFile(cd, rw', wo', kfile'[f].path)
                          /\ kfile'[f].acc = "w" => rw'[kfile'[f].path].kind = "reg"
      BY DEF Files
    <2>2. kfile[f] \in KFile
      BY InvTypes
    <2>3. kfile'[f] = kfile[f] /\ kfile[f].linked /\ kfile[f].path # p
      BY <1>1, <2>1, <2>2 DEF Orphan, KFile
    <2>4. /\ kfile[f].path \in Paths /\ kfile[f].open /\ SeesFile(cd, rw, wo, kfile[f].path)
          /\ kfile[f].acc = "w" => rw[kfile[f].path].kind = "reg"
      BY <2>2, <2>3 DEF TreeInv, Files, KFile
    <2>5. p \notin Above(kfile[f].path)
      BY <1>3, <2>4, SeenIsSeenOf DEF SeesFile, WalkOf, FileKinds
    <2>6. \A q \in Prefixes(kfile[f].path) : q \in Paths \ {p}
      BY <2>3, <2>4, <2>5, Ancestors, PathsAssumption
    <2>7. SeesFile(cd, rw', wo', kfile[f].path)
      BY <1>2, <1>5, <2>4, <2>6, OtherFile
    <2>8. QED
      BY <1>5, <2>3, <2>4, <2>7
  <1>7. QED
    BY <1>1, <1>5, <1>6 DEF TreeInv

\* What doRename has asked before it moves: both names are walked to, and
\* neither is a directory.
LEMMA RenameBefore ==
    ASSUME TreeInv, NEW old \in Paths, NEW new \in Paths, doRename(old, new), ~IsDir(cd, rw, old)
    PROVE  /\ old # new /\ old # <<>> /\ new # <<>>
           /\ Walkable(old) /\ Exists(Stat(old)) /\ Stat(old).kind # "dir"
           /\ ~Hidden(wo, old) /\ rw[old].kind # "dir"
           /\ Walkable(new) /\ Stat(new).kind # "dir"
  <1>1. old # new /\ old # <<>> /\ new # <<>> /\ Exists(Seen(old))
    BY DEF doRename, Negative, Present
  <1>2. Walkable(old) /\ Exists(Stat(old)) /\ ~Hidden(wo, old)
    BY <1>1, SeenKind DEF Exists, Absent
  <1>3. MkPath(cd, rw, old) = IF Exists(rw[old]) THEN rw[old] ELSE cd[old]
    BY DEF MkPath, LayerOf, At
  <1>4. MkPath(cd, rw, old).kind # "dir"
    BY DEF IsDir, HasMode, Exists
  <1>5. Stat(old).kind # "dir" /\ rw[old].kind # "dir"
    BY <1>2, <1>3, <1>4, SeenKind DEF Exists
  <1>6. Walkable(new) /\ Stat(new).kind # "dir"
    <2>1. CASE Negative(new)
      BY <2>1 DEF Negative, Exists
    <2>2. CASE Present(new) /\ (Seen(new).kind = "dir" <=> Seen(old).kind = "dir")
      BY <1>2, <1>5, <2>2, SeenKind DEF Present, Exists
    <2>3. QED
      BY <2>1, <2>2 DEF doRename
  <1>7. QED
    BY <1>1, <1>2, <1>5, <1>6

\* Of the two calls of setVisible, each is seen at its own name.
LEMMA HideOldShowNewHides ==
    ASSUME TreeInv, NEW old \in Paths, NEW new \in Paths, NEW u \in HideOldShowNew(old, new)
    PROVE  /\ ~Hidden(u, new)
           /\ old # new => Hidden(u, old)
           /\ \A q \in Paths \ {old, new} : Hidden(u, q) <=> Hidden(wo, q)
  <1>1. PICK w \in Hide(old) : u \in SetVisibleEnds(w, new, TRUE, DiskMayFill)
    BY DEF HideOldShowNew
  <1>2. w \in Whiteouts(Paths) /\ Kept(w, DiskMayFill) /\ DiskMayFill \in BOOLEAN
    BY InvTypes, VisibleKept, DataAssumption DEF AllKept
  <1>3. \A q : Hidden(w, q) <=> q = old \/ Hidden(wo, q)
    BY InvTypes, VisibleHides
  <1>4. ASSUME NEW v \in BOOLEAN, u \in SetVisibleEnds(w, new, v, DiskMayFill)
        PROVE  \A q : Hidden(u, q) <=> IF q = new THEN ~v ELSE Hidden(w, q)
    BY <1>2, <1>4, SetVisibleEndsHide
  <1>5. \A q : Hidden(u, q) <=> q # new /\ Hidden(w, q)
    BY <1>1, <1>4
  <1>6. QED
    BY <1>3, <1>5

\* The new name of a moved file is seen: the directories above it stay.
LEMMA MovedSees ==
    ASSUME TreeInv, NEW old \in Paths, NEW new \in Paths, doRename(old, new), ~IsDir(cd, rw, old),
           NEW M, Grown(cd, rw, M), NEW N, \A q \in Paths \ {old, new} : N[q] = M[q],
           N[new].kind = "reg",
           NEW w2, ~Hidden(w2, new), \A q \in Paths \ {old, new} : Hidden(w2, q) <=> Hidden(wo, q)
    PROVE  SeesFile(cd, N, w2, new)
  <1>1. ASSUME NEW q \in Above(new) PROVE StatOf(cd, N, w2, q).kind = "dir"
    <2>1. q \in Paths /\ q # new /\ Stat(q).kind = "dir"
      BY RenameBefore, Ancestors DEF Walkable
    <2>2. q # old
      BY <2>1, RenameBefore
    <2>3. StatOf(cd, M, wo, q).kind = "dir"
      BY <2>1, SeenIsSeenOf, GrownShows
    <2>4. N[q] = M[q] /\ (Hidden(w2, q) <=> Hidden(wo, q))
      BY <2>1, <2>2
    <2>5. QED
      BY <2>1, <2>3, <2>4 DEF StatOf, IsVisible, MkPath, LayerOf, At
  <1>2. StatOf(cd, N, w2, new).kind = "reg"
    BY DEF StatOf, IsVisible, MkPath, LayerOf, At, Exists
  <1>3. QED
    BY <1>1, <1>2 DEF SeesFile, WalkOf

\* doRename moves the name in rw_tmp, hides the old one and shows the new one.
LEMMA RenameTree ==
    ASSUME TreeInv, NEW old \in Paths, NEW new \in Paths, doRename(old, new)
    PROVE  TreeInv'
  <1>1. Inv' /\ Grown(cd, rw, rw) /\ kfile \in [Fds -> KFile]
    BY RenameStep, GrownSame, InvTypes DEF TreeInv, Sound
  <1>2. CASE Fails(rw)
    BY <1>1, <1>2, FailStep
  <1>3. CASE ~Fails(rw)
    <2>1. ~IsDir(cd, rw, old)
      BY <1>3 DEF doRename
    <2>2. PICK M \in CopyUp(cd, rw, old) :
            \/ Hangs(M) \/ Fails(M)
            \/ /\ CanRename(M, old, new) /\ Done(Renamed(M, old, new), HideOldShowNew(old, new))
               /\ kfile' = Move(old, new) /\ UNCHANGED <<cd, handles>>
      BY <1>3 DEF doRename
    <2>3. Grown(cd, rw, M) /\ M[old].kind # "dir"
      BY <2>1, RenameBefore, WalkReached, CopyUpGrows DEF TreeInv
    <2>4. CASE Hangs(M) \/ Fails(M)
      BY <2>3, <2>4, FailStep
    <2>5. CASE /\ CanRename(M, old, new) /\ Done(Renamed(M, old, new), HideOldShowNew(old, new))
               /\ kfile' = Move(old, new) /\ UNCHANGED <<cd, handles>>
      <3>1. /\ Sound(cd, rw') /\ rw'[new] = M[old]
            /\ \A q \in Paths \ {old, new} : rw'[q] = M[q]
        <4>1. M \in Layer /\ IsTree(M) /\ InodesShared(M)
          BY <2>3 DEF Grown
        <4>2. QED
          BY <2>1, <2>3, <2>5, <4>1, RenameBefore, RenamedTree DEF Done, TreeInv, Sound
      <3>2. /\ ~Hidden(wo', new)
            /\ \A q \in Paths \ {old, new} : Hidden(wo', q) <=> Hidden(wo, q)
        BY <2>5, HideOldShowNewHides DEF Done
      <3>3. Files(cd, M, wo, kfile)
        BY <2>3, GrowStep
      <3>4. ASSUME NEW f \in Fds, kfile'[f].linked
            PROVE  /\ kfile'[f].open
                   /\ SeesFile(cd, rw', wo', kfile'[f].path)
                   /\ kfile'[f].acc = "w" => rw'[kfile'[f].path].kind = "reg"
        <4>1. /\ kfile[f].path \in Paths /\ kfile[f].linked /\ kfile[f].open
              /\ kfile'[f].acc = kfile[f].acc /\ kfile'[f].open = kfile[f].open
              /\ \/ kfile[f].path = old /\ kfile'[f].path = new
                 \/ kfile[f].path \notin {old, new} /\ kfile'[f].path = kfile[f].path
          <5>1. kfile[f] \in KFile
            BY <1>1
          <5>2. old # new
            BY <2>1, RenameBefore
          <5>3. kfile[f].linked
            BY <2>5, <3>4 DEF Move
          <5>4. kfile'[f] = CASE kfile[f].path = old -> [kfile[f] EXCEPT !.path = new]
                              [] kfile[f].path = new -> [kfile[f] EXCEPT !.linked = FALSE]
                              [] OTHER -> kfile[f]
            BY <2>5, <5>3 DEF Move
          <5>5. kfile[f].open
            BY <3>3, <5>3 DEF Files
          <5>6. QED
            BY <3>4, <5>1, <5>2, <5>3, <5>4, <5>5 DEF KFile
        <4>2. /\ SeesFile(cd, M, wo, kfile[f].path) /\ SeesFile(cd, rw, wo, kfile[f].path)
              /\ kfile[f].acc = "w" => M[kfile[f].path].kind = "reg"
          BY <3>3, <4>1 DEF Files, TreeInv
        <4>3. CASE kfile[f].path = old /\ kfile'[f].path = new
          <5>1. M[old].kind = "reg"
            <6>1. StatOf(cd, M, wo, old).kind = "reg" /\ Exists(M[old])
              BY <2>5, <4>2, <4>3 DEF SeesFile, CanRename
            <6>2. QED
              BY <6>1 DEF StatOf, MkPath, LayerOf, At, Absent
          <5>2. SeesFile(cd, rw', wo', new)
            BY <2>1, <2>3, <3>1, <3>2, <5>1, MovedSees
          <5>3. QED
            BY <3>1, <4>1, <4>3, <5>1, <5>2
        <4>4. CASE kfile[f].path \notin {old, new} /\ kfile'[f].path = kfile[f].path
          <5>1. old \notin Above(kfile[f].path) /\ new \notin Above(kfile[f].path)
            BY <2>1, <4>2, RenameBefore, SeenIsSeenOf DEF SeesFile, WalkOf
          <5>2. \A q \in Prefixes(kfile[f].path) : q \in Paths \ {old, new}
            BY <4>1, <4>4, <5>1, Ancestors, PathsAssumption
          <5>3. kfile[f].path \in Prefixes(kfile[f].path)
            BY <4>1, Ancestors
          <5>4. SeesFile(cd, rw', wo', kfile[f].path)
            BY <3>1, <3>2, <4>1, <4>2, <5>2, OtherFile
          <5>5. QED
            BY <3>1, <4>1, <4>2, <4>4, <5>2, <5>3, <5>4
        <4>5. QED
          BY <4>1, <4>3, <4>4
      <3>5. Files(cd, rw', wo', kfile')
        BY <3>4 DEF Files
      <3>6. QED
        BY <1>1, <2>5, <3>1, <3>5 DEF TreeInv
    <2>6. QED
      BY <2>2, <2>4, <2>5
  <1>4. QED
    BY <1>2, <1>3

\* Every step keeps the invariant: one case for each request.
LEMMA NextTree == TreeInv /\ [Next]_vars => TreeInv'
  <1> SUFFICES ASSUME TreeInv, [Next]_vars PROVE TreeInv'
    OBVIOUS
  <1>1. CASE UNCHANGED vars
    BY <1>1, NextInv DEF vars, TreeInv
  <1>2. ASSUME NEW p \in Paths, doStat(p) \/ doReadlink(p) PROVE TreeInv'
    BY <1>2, StatStep, QuietTree DEF TreeInv, doStat, doReadlink
  <1>3. ASSUME NEW p \in Paths,
               \/ doReaddir(p) \/ doMkdir(p) \/ doRmdir(p) \/ doUnlink(p) \/ doCreate(p)
               \/ \E shrink \in BOOLEAN : doSetattr(p, shrink)
               \/ \E acc \in {"r", "w"}, creat, trunc \in BOOLEAN : doOpen(p, acc, creat, trunc)
               \/ \E q \in Paths : doRename(p, q) \/ doLink(p, q)
               \/ \E text \in Texts : doSymlink(text, p)
        PROVE  TreeInv'
    BY <1>3, ReaddirTree, MkdirTree, RmdirTree, UnlinkTree, CreateTree, SetattrTree, OpenTree,
       RenameTree, LinkTree, SymlinkTree
  <1>4. ASSUME NEW f \in Fds, doRead(f) PROVE TreeInv'
    BY <1>4, ReadStep, QuietTree DEF TreeInv, doRead
  <1>5. ASSUME NEW f \in Fds, doRelease(f) \/ \E d \in Data : doWrite(f, d) PROVE TreeInv'
    BY <1>5, ReleaseTree, WriteTree
  <1>6. CASE Remount
    BY <1>6, RemountTree
  <1>7. QED
    BY <1>1, <1>2, <1>3, <1>4, <1>5, <1>6 DEF Next

\* doRead and doWrite, which open a file again by name, find every open file
\* that still has its name, in rw_tmp when it is open for writing.
THEOREM OpenFilesAreReachable == Spec => []OpenFilesReachable
  <1>1. TreeInv => OpenFilesReachable
    <2>1. SUFFICES ASSUME TreeInv, NEW f \in Fds, kfile[f].linked
                   PROVE  /\ Seen(kfile[f].path).kind = "reg"
                          /\ kfile[f].acc = "w" => rw[kfile[f].path].kind = "reg"
      BY DEF OpenFilesReachable
    <2>2. /\ kfile[f].path \in Paths /\ SeesFile(cd, rw, wo, kfile[f].path)
          /\ kfile[f].acc = "w" => rw[kfile[f].path].kind = "reg"
      BY <2>1, InvTypes DEF TreeInv, Files, KFile
    <2>3. QED
      BY <2>1, <2>2, InvTypes, SeenIsSeenOf, SeenParts
  <1>2. QED
    BY InitTree, NextTree, <1>1, PTL DEF Spec

----------------------------------------------------------------------------
(***************************************************************************)
(* What follows from the invariant.                                        *)
(***************************************************************************)

\* doReaddir lists what doStat finds: an entry of the CD is in a directory of
\* the CD, so that merging the two directories misses none.
LEMMA ListsWhatIsThere ==
    ASSUME TreeInv, NEW d \in Paths, Seen(d).kind = "dir"
    PROVE  Listing(d) = {p \in Paths : p # <<>> /\ Parent(p) = d /\ Present(p)}
  <1>1. Walkable(d) /\ Stat(d).kind = "dir" /\ ~Hidden(wo, d)
    BY SeenKind DEF Absent
  <1>2. ASSUME NEW p \in Paths, p # <<>>, Parent(p) = d
        PROVE  /\ Present(p) <=> ~Hidden(wo, p) /\ (Exists(rw[p]) \/ Exists(cd[p]))
               /\ Exists(cd[p]) => HasMode(cd[d], "dir")
    <2>1. Walkable(p)
      BY <1>1, <1>2, Ancestors DEF Walkable
    <2>2. Present(p) <=> Exists(Stat(p))
      BY <2>1, SeenKind DEF Present, Exists
    <2>3. Exists(cd[p]) => cd[d].kind = "dir"
      BY <1>2 DEF TreeInv, Sound, IsTree
    <2>4. QED
      BY <2>2, <2>3, SeenKind DEF Exists, Absent, HasMode
  <1>3. ASSUME NEW p
        PROVE  p \in Listing(d) <=> p \in Paths /\ p # <<>> /\ Parent(p) = d /\ Present(p)
    <2>1. CASE ~(p \in Paths /\ p # <<>> /\ Parent(p) = d)
      BY <2>1 DEF Listing, Entries
    <2>2. CASE p \in Paths /\ p # <<>> /\ Parent(p) = d
      <3>1. /\ p \in Entries(rw, d) <=> Exists(rw[p])
            /\ p \in Entries(cd, d) <=> Exists(cd[p])
        BY <2>2 DEF Entries
      <3>2. p \in Listing(d) <=>
              \/ Exists(rw[p]) /\ ~Hidden(wo, p)
              \/ HasMode(cd[d], "dir") /\ Exists(cd[p]) /\ ~Exists(rw[p]) /\ ~Hidden(wo, p)
        BY <1>1, <3>1 DEF Listing, IsVisible
      <3>3. QED
        BY <1>2, <2>2, <3>2
    <2>3. QED
      BY <2>1, <2>2
  <1>4. QED
    BY <1>3

\* doReaddir and doStat agree on what a directory holds.
THEOREM ListingsAgree == Spec => []ListingAgreesWithStat
  <1>1. TreeInv => ListingAgreesWithStat
    BY ListsWhatIsThere DEF ListingAgreesWithStat
  <1>2. QED
    BY InitTree, NextTree, <1>1, PTL DEF Spec

\* A file that has its name and is open for writing is opened again in rw_tmp.
LEMMA ReopenedInTmp ==
    ASSUME TreeInv, NEW f \in Fds, kfile[f].linked, kfile[f].acc = "w"
    PROVE  /\ kfile[f].path \in Paths /\ rw[kfile[f].path].kind = "reg"
           /\ SeesFile(cd, rw, wo, kfile[f].path)
           /\ Reopened(f) = [layer |-> "tmp", path |-> kfile[f].path]
           /\ Reopened(f) # Nowhere /\ NodeOf(Reopened(f)).kind = "reg"
  <1> DEFINE p == kfile[f].path
             end == [layer |-> "tmp", path |-> p]
  <1>1. p \in Paths /\ rw[p].kind = "reg" /\ SeesFile(cd, rw, wo, p)
    BY InvTypes DEF TreeInv, Files, KFile
  <1>2. Reopened(f) = Follow(cd, rw, LayerOf(cd, rw, p), p)
    BY DEF Reopened
  <1> HIDE DEF p
  <1>3. LayerOf(cd, rw, p) = "tmp" /\ At(rw, p) = rw[p]
    BY <1>1 DEF LayerOf, At, Exists
  <1>4. end # Nowhere /\ end.layer = "tmp" /\ end.path = p
    BY DEF Nowhere
  <1>5. Follow(cd, rw, "tmp", p) = end
    BY <1>1, <1>3, <1>4 DEF Follow
  <1>6. QED
    BY <1>1, <1>2, <1>3, <1>4, <1>5 DEF p, NodeOf

\* A write to a file that has its name goes to rw_tmp and not to the CD.
LEMMA WriteInTmp ==
    ASSUME TreeInv, NEW f \in Fds, NEW d \in Data, doWrite(f, d), kfile[f].linked
    PROVE  /\ UNCHANGED <<cd, wo, kfile>>
           /\ \/ reply' = "OK" /\ \E e \in Written(d) : rw' = SetData(rw, kfile[f].path, e)
              \/ DiskMayFill /\ reply' = "ERROR" /\ rw' = rw
  <1> DEFINE p == kfile[f].path
  <1>1. kfile[f].acc = "w" /\ UNCHANGED <<wo, kfile>>
    BY DEF doWrite
  <1>2. /\ Reopened(f) = [layer |-> "tmp", path |-> p]
        /\ Reopened(f) # Nowhere /\ NodeOf(Reopened(f)).kind = "reg"
    BY <1>1, ReopenedInTmp
  <1>3. Reopened(f).layer = "tmp" /\ Reopened(f).path = p
    BY <1>2
  <1>4. QED
    BY <1>1, <1>2, <1>3 DEF doWrite

\* What is left in it shows under the name.
LEMMA WriteIsSeen ==
    ASSUME TreeInv, NEW f \in Fds, kfile[f].linked, kfile[f].acc = "w", NEW e \in Data,
           UNCHANGED <<cd, wo, kfile>>, rw' = SetData(rw, kfile[f].path, e)
    PROVE  Seen(kfile[f].path)'.data = e
  <1> DEFINE p == kfile[f].path
  <1>1. p \in Paths /\ rw[p].kind = "reg" /\ SeesFile(cd, rw, wo, p)
    BY ReopenedInTmp
  <1>2. rw' = SetData(rw, p, e)
    OBVIOUS
  <1> HIDE DEF p
  <1>3. rw' \in Layer /\ rw'[p].data = e /\ \A q \in Paths : rw'[q].kind = rw[q].kind
    <2>1. p # <<>> /\ Exists(rw[p])
      BY <1>1 DEF TreeInv, Sound, IsTree, DirNode, Exists
    <2>2. QED
      BY <1>1, <1>2, <2>1, SetDataTree DEF TreeInv, Sound
  <1>4. SeesFile(cd, rw', wo, p)
    BY <1>1, <1>3, SameKindsSee
  <1>5. SeenOf(cd, rw', wo, p).data = e
    <2>1. StatOf(cd, rw', wo, p) = rw'[p]
      BY <1>1, <1>3, <1>4 DEF SeesFile, StatOf, MkPath, LayerOf, At, Exists, Absent
    <2>2. QED
      BY <1>1, <1>3, <1>4, <2>1, InvTypes, SeenParts DEF SeesFile
  <1>6. Seen(p)' = SeenOf(cd', rw', wo', p')
    BY DEF Seen, Walkable, Stat, SeenOf, WalkOf, StatOf
  <1>7. p' = p
    BY DEF p
  <1>8. Seen(p)'.data = e
    BY <1>5, <1>6, <1>7
  <1>9. QED
    BY <1>8 DEF p

\* What is written to a file that still has its name is what that name shows,
\* torn or not done at all when the disk is full.
THEOREM WritesShow == Spec => WritesAreSeen
  <1>1. ASSUME TreeInv, NEW f \in Fds, NEW d \in Data, doWrite(f, d), kfile[f].linked
        PROVE  \/ reply' = "OK" /\ Seen(kfile[f].path)'.data = d
               \/ DiskMayFill /\ reply' = "OK" /\ Seen(kfile[f].path)'.data = Torn
               \/ DiskMayFill /\ reply' = "ERROR" /\ View' = View
    <2>1. UNCHANGED <<cd, wo, kfile>> /\ kfile[f].acc = "w"
      BY <1>1, WriteInTmp DEF doWrite
    <2>2. CASE reply' = "OK" /\ \E e \in Written(d) : rw' = SetData(rw, kfile[f].path, e)
      <3>1. PICK e \in Written(d) : rw' = SetData(rw, kfile[f].path, e)
        BY <2>2
      <3>2. Seen(kfile[f].path)'.data = e
        BY <1>1, <2>1, <3>1, WrittenData, WriteIsSeen
      <3>3. e = d \/ (DiskMayFill /\ e = Torn)
        BY DEF Written
      <3>4. QED
        BY <2>2, <3>2, <3>3
    <2>3. CASE DiskMayFill /\ reply' = "ERROR" /\ rw' = rw
      BY <2>1, <2>3 DEF View, Seen, Walkable, Stat
    <2>4. QED
      BY <1>1, <2>2, <2>3, WriteInTmp
  <1>2. TreeInv /\ [Next]_vars =>
          [\A f \in Fds, d \in Data : (doWrite(f, d) /\ kfile[f].linked) =>
              \/ reply' = "OK" /\ Seen(kfile[f].path)'.data = d
              \/ DiskMayFill /\ reply' = "OK" /\ Seen(kfile[f].path)'.data = Torn
              \/ DiskMayFill /\ reply' = "ERROR" /\ View' = View]_vars
    BY <1>1
  <1>3. QED
    BY InitTree, NextTree, <1>2, PTL DEF Spec, WritesAreSeen

\* No request but a write changes the CD.
LEMMA OnlyWritesTouchCD ==
    ASSUME [Next]_vars, cd' # cd
    PROVE  \E f \in Fds, d \in Data : doWrite(f, d)
  <1>1. ASSUME NEW p \in Paths,
               \/ doStat(p) \/ doReadlink(p) \/ doReaddir(p)
               \/ doMkdir(p) \/ doRmdir(p) \/ doUnlink(p) \/ doCreate(p)
        PROVE  cd' = cd
    BY <1>1 DEF doStat, doReadlink, doReaddir, doMkdir, doRmdir, doUnlink, doCreate, Fails
  <1>2. ASSUME NEW p \in Paths, NEW shrink \in BOOLEAN, doSetattr(p, shrink)
        PROVE  cd' = cd
    BY <1>2 DEF doSetattr, Fails, Hangs
  <1>3. ASSUME NEW p \in Paths, NEW acc \in {"r", "w"}, NEW creat \in BOOLEAN, NEW trunc \in BOOLEAN,
               doOpen(p, acc, creat, trunc)
        PROVE  cd' = cd
    BY <1>3 DEF doOpen, Fails
  <1>4. ASSUME NEW p \in Paths, NEW q \in Paths, doRename(p, q) \/ doLink(p, q)
        PROVE  cd' = cd
    BY <1>4 DEF doRename, doLink, Fails, Hangs
  <1>5. ASSUME NEW p \in Paths, NEW text \in Texts, doSymlink(text, p)
        PROVE  cd' = cd
    BY <1>5 DEF doSymlink, Fails, Hangs
  <1>6. ASSUME NEW f \in Fds, doRelease(f) \/ doRead(f) PROVE cd' = cd
    BY <1>6 DEF doRelease, doRead
  <1>7. Remount \/ UNCHANGED vars => cd' = cd
    BY DEF Remount, vars
  <1>8. QED
    BY <1>1, <1>2, <1>3, <1>4, <1>5, <1>6, <1>7 DEF Next

\* The CD is written only through a file whose name was removed: no other
\* request touches it, and a file that has its name is written in rw_tmp.
THEOREM CDWrittenByUnlinkedOnly == Spec => OnlyUnlinkedFilesReachRoot
  <1>1. ASSUME TreeInv, [Next]_vars, cd' # cd
        PROVE  \E f \in Fds, d \in Data : doWrite(f, d) /\ ~kfile[f].linked
    <2>1. PICK f \in Fds, d \in Data : doWrite(f, d)
      BY <1>1, OnlyWritesTouchCD
    <2>2. ~kfile[f].linked
      BY <1>1, <2>1, WriteInTmp
    <2>3. QED
      BY <2>1, <2>2
  <1>2. TreeInv /\ [Next]_vars =>
          [cd' # cd => \E f \in Fds, d \in Data : doWrite(f, d) /\ ~kfile[f].linked]_vars
    BY <1>1
  <1>3. QED
    BY InitTree, NextTree, <1>2, PTL DEF Spec, OnlyUnlinkedFilesReachRoot

\* A link of the CD leads to a place of the CD, whatever is in rw_tmp; no text
\* burnt on it is a path into a layer.
LEMMA FollowOnCD ==
    ASSUME NEW C, Burnt(C), NEW p \in Paths, NEW L, NEW M
    PROVE  /\ Follow(C, L, "root", p) = Follow(C, M, "root", p)
           /\ Follow(C, L, "root", p) # Nowhere => Follow(C, L, "root", p).layer = "root"
  <1>1. At(C, p) = C[p] /\ C[p].to.form \in {"none", "rel", "abs"}
    BY ImageAssumption DEF At, Burnt
  <1> DEFINE t == C[p].to
             end == IF C[p].kind # "lnk" THEN [layer |-> "root", path |-> p]
                    ELSE IF t.form = "rel" THEN [layer |-> "root", path |-> Parent(p) \o t.path]
                    ELSE Nowhere
             val == IF end = Nowhere \/ At(C, end.path).kind \in {"absent", "lnk"}
                    THEN Nowhere ELSE end
  <1>2. end = Nowhere \/ end.layer = "root"
    OBVIOUS
  <1>3. ASSUME NEW X PROVE Follow(C, X, "root", p) = val
    <2>1. CASE C[p].kind # "lnk"
      BY <1>1, <2>1 DEF Follow, Nowhere
    <2>2. CASE C[p].kind = "lnk" /\ t.form = "rel"
      BY <1>1, <2>2 DEF Follow, Nowhere
    <2>3. CASE C[p].kind = "lnk" /\ t.form \in {"none", "abs"}
      BY <1>1, <2>3 DEF Follow, Nowhere
    <2>4. QED
      BY <1>1, <2>1, <2>2, <2>3
  <1>4. val # Nowhere => val.layer = "root"
    BY <1>2
  <1> HIDE DEF val
  <1>5. Follow(C, L, "root", p) = val /\ Follow(C, M, "root", p) = val
    BY <1>3
  <1>6. QED
    BY <1>4, <1>5

\* Where copying up hangs: at what has no end on the CD, and never at a
\* directory; it has made a file of the name in rw_tmp by then.
LEMMA HangsThere ==
    ASSUME TreeInv, NEW L, Grown(cd, rw, L), NEW p \in Paths, CopyUpHangs(cd, L, p),
           NEW M \in CopyUp(cd, L, p)
    PROVE  /\ cd[p].kind # "dir" /\ Follow(cd, rw, "root", p).layer = "root"
           /\ NeverEnds(cd, Follow(cd, rw, "root", p).path)
           /\ Exists(M[p]) /\ ~Exists(rw[p])
  <1> DEFINE L1 == MakeDirFor(cd, L, p)
             src == Follow(cd, L1, "root", p)
  <1>1. ~Exists(L[p]) /\ src # Nowhere /\ CanCreate(L1, p) /\ NeverEnds(cd, src.path)
    BY DEF CopyUpHangs, CopyHangs
  <1>2. Sound(cd, L) /\ Burnt(cd)
    BY GrowStep DEF TreeInv
  <1>3. Follow(cd, rw, "root", p) = src /\ src.layer = "root"
    BY <1>1, <1>2, FollowOnCD
  <1>4. cd[p].kind # "dir"
    BY <1>1, <1>2, NoFileOverDir
  <1>5. Exists(M[p])
    <2>1. PICK d \in CopyOf(cd, src.path) : M = NewFile(L1, p, d)
      BY <1>1 DEF CopyUp, CopyTmp
    <2>2. QED
      BY <2>1 DEF NewFile, Put, File, Exists
  <1>6. ~Exists(rw[p])
    BY <1>1 DEF Grown
  <1>7. QED
    BY <1>1, <1>3, <1>4, <1>5, <1>6

\* For doLinkAll: the target, at which it copies up after it made directories.
LEMMA TargetHangsThere ==
    ASSUME TreeInv, NEW l \in Paths, NEW t \in Paths, Walkable(l), TargetHangs(l, t),
           NEW M \in Target(l, t)
    PROVE  /\ cd[t].kind # "dir" /\ Follow(cd, rw, "root", t).layer = "root"
           /\ NeverEnds(cd, Follow(cd, rw, "root", t).path)
           /\ Exists(M[t]) /\ ~Exists(rw[t])
  <1>1. Exists(cd[t]) /\ CopyUpHangs(cd, MadeFor(l, t), t) /\ M \in CopyUp(cd, MadeFor(l, t), t)
    BY DEF TargetHangs, Target
  <1>2. Grown(cd, rw, MadeFor(l, t))
    BY MadeForGrows
  <1>3. QED
    BY <1>1, <1>2, HangsThere

\* A file that has its name is opened again as a regular file.
LEMMA LinkedIsRegular ==
    ASSUME TreeInv, NEW f \in Fds, kfile[f].linked, Reopened(f) # Nowhere
    PROVE  NodeOf(Reopened(f)).kind = "reg"
  <1> DEFINE p == kfile[f].path
             layer == LayerOf(cd, rw, p)
             end == [layer |-> layer, path |-> p]
             n == At(IF layer = "tmp" THEN rw ELSE cd, p)
  <1>1. p \in Paths /\ SeesFile(cd, rw, wo, p)
    BY InvTypes DEF TreeInv, Files, KFile
  <1>2. Reopened(f) = Follow(cd, rw, layer, p)
    BY DEF Reopened
  <1>3. n.kind = "reg"
    BY <1>1 DEF SeesFile, StatOf, MkPath, Absent
  <1> HIDE DEF p, layer
  <1>4. end.layer = layer /\ end.path = p
    OBVIOUS
  <1>5. Follow(cd, rw, layer, p) = end \/ Follow(cd, rw, layer, p) = Nowhere
    BY <1>3, <1>4 DEF Follow
  <1>6. NodeOf(end) = n
    BY <1>1, <1>4 DEF NodeOf, At
  <1>7. QED
    BY <1>2, <1>3, <1>5, <1>6

\* A read or a write goes unanswered only at a device or a pipe, which a file
\* that has its name does not lead to.
LEMMA ReadHangs ==
    ASSUME TreeInv, NEW f \in Fds, "none" \in ReadEnds(Reopened(f))
    PROVE  ~kfile[f].linked /\ NodeOf(Reopened(f)).kind \in {"chr", "blk", "fifo"}
  BY LinkedIsRegular DEF ReadEnds

\* A request goes unanswered only where it copies up what has no end, or reads
\* or writes a device or a pipe that the removed name of its file leads to now.
THEOREM OnlyEndlessHang == Spec => HangsOnlyWithoutEnd
  <1> DEFINE HangsAt(p) ==
               LET src == Follow(cd, rw, "root", p) IN
               /\ cd[p].kind # "dir" /\ ~Exists(rw[p]) /\ Exists(rw[p])'
               /\ src.layer = "root" /\ NeverEnds(cd, src.path)
             ReadsAt(f) == /\ IsOpen(f) /\ ~kfile[f].linked
                           /\ NodeOf(Reopened(f)).kind \in {"chr", "blk", "fifo"}
  <1>1. ASSUME TreeInv, NEW p \in Paths, NEW shrink \in BOOLEAN, doSetattr(p, shrink), reply' = "none"
        PROVE  HangsAt(p)
    <2>1. PICK M \in CopyUp(cd, rw, p) : CopyUpHangs(cd, rw, p) /\ rw' = M
      BY <1>1 DEF doSetattr, Hangs, Fails, Done
    <2>2. Grown(cd, rw, rw)
      BY <1>1, GrownSame, InvTypes DEF TreeInv, Sound
    <2>3. QED
      BY <1>1, <2>1, <2>2, HangsThere
  <1>2. ASSUME TreeInv, NEW p \in Paths, NEW q \in Paths, doRename(p, q), reply' = "none"
        PROVE  HangsAt(p)
    <2>1. PICK M \in CopyUp(cd, rw, p) : CopyUpHangs(cd, rw, p) /\ rw' = M
      BY <1>2 DEF doRename, Hangs, Fails, Done
    <2>2. Grown(cd, rw, rw)
      BY <1>2, GrownSame, InvTypes DEF TreeInv, Sound
    <2>3. QED
      BY <1>2, <2>1, <2>2, HangsThere
  <1>3. ASSUME TreeInv, NEW t \in Paths, NEW l \in Paths, doLink(t, l), reply' = "none"
        PROVE  HangsAt(t)
    <2>1. Walkable(l)
      BY <1>3 DEF doLink, Negative
    <2>2. PICK M \in Target(l, t) : TargetHangs(l, t) /\ rw' = M
      BY <1>3 DEF doLink, Hangs, Fails, Done
    <2>3. QED
      BY <1>3, <2>1, <2>2, TargetHangsThere
  <1>4. ASSUME TreeInv, NEW text \in Texts, NEW l \in Paths, doSymlink(text, l), reply' = "none"
        PROVE  text.path \in Paths /\ HangsAt(text.path)
    <2>1. Walkable(l) /\ text.path \in Paths
      BY <1>4, RequestsAssumption DEF doSymlink, Negative
    <2>2. PICK M \in Target(l, text.path) : TargetHangs(l, text.path) /\ rw' = M
      BY <1>4 DEF doSymlink, Hangs, Fails, Done
    <2>3. QED
      BY <1>4, <2>1, <2>2, TargetHangsThere
  <1>5. ASSUME TreeInv, NEW f \in Fds, doRelease(f) \/ doRead(f) \/ \E d \in Data : doWrite(f, d),
               reply' = "none"
        PROVE  ReadsAt(f)
    <2>1. IsOpen(f) /\ "none" \in ReadEnds(Reopened(f))
      BY <1>5 DEF doRelease, doRead, doWrite
    <2>2. QED
      BY <1>5, <2>1, ReadHangs
  <1> HIDE DEF HangsAt, ReadsAt
  <1>6. ASSUME TreeInv, Next, reply' = "none" PROVE (\E p \in Paths : HangsAt(p)) \/ (\E f \in Fds : ReadsAt(f))
    <2>1. ASSUME NEW p \in Paths,
                 \/ doStat(p) \/ doReadlink(p) \/ doReaddir(p)
                 \/ doMkdir(p) \/ doRmdir(p) \/ doUnlink(p) \/ doCreate(p)
          PROVE  FALSE
      BY <1>6, <2>1 DEF doStat, doReadlink, doReaddir, doMkdir, doRmdir, doUnlink, doCreate, Fails, Done
    <2>2. ASSUME NEW p \in Paths, NEW acc \in {"r", "w"}, NEW creat \in BOOLEAN,
                 NEW trunc \in BOOLEAN, doOpen(p, acc, creat, trunc)
          PROVE  FALSE
      BY <1>6, <2>2 DEF doOpen, Fails, Done
    <2>3. ~Remount
      BY <1>6 DEF Remount
    <2>4. QED
      BY <1>1, <1>2, <1>3, <1>4, <1>5, <1>6, <2>1, <2>2, <2>3 DEF Next
  <1>7. TreeInv /\ [Next]_vars =>
          [reply' = "none" =>
            \/ \E p \in Paths :
                  LET src == Follow(cd, rw, "root", p) IN
                  /\ cd[p].kind # "dir" /\ ~Exists(rw[p]) /\ Exists(rw[p])'
                  /\ src.layer = "root" /\ NeverEnds(cd, src.path)
            \/ \E f \in Fds : /\ IsOpen(f) /\ ~kfile[f].linked
                              /\ NodeOf(Reopened(f)).kind \in {"chr", "blk", "fifo"}]_vars
    BY <1>6 DEF HangsAt, ReadsAt
  <1>8. QED
    BY InitTree, NextTree, <1>7, PTL DEF Spec, HangsOnlyWithoutEnd

----------------------------------------------------------------------------
(***************************************************************************)
(* What a request changes of what users see of LiveCDFS, for any CD image, *)
(* links and devices included, full disk or not: nothing but the names it  *)
(* is about.  Where copies are faithful -- the CD holds files and          *)
(* directories only, and the disk does not fill while copying -- what the  *)
(* daemon does besides shows nowhere.                                      *)
(***************************************************************************)

----------------------------------------------------------------------------
(***************************************************************************)
(* Lemmas: how a change of the layers shows.                               *)
(***************************************************************************)

\* A node as users see it: they are not shown which inode it has.
Face(n) == [n EXCEPT !.ino = NoIno]
FaceOf(C, L, w, p) == Face(StatOf(C, L, w, p))

\* The face of a name is a node of the same kind, and what is seen of it.
LEMMA FaceParts ==
    ASSUME NEW C \in Layer, NEW L \in Layer, NEW w, NEW p \in Paths
    PROVE  /\ FaceOf(C, L, w, p) \in Node
           /\ FaceOf(C, L, w, p).kind = StatOf(C, L, w, p).kind
           /\ SeenOf(C, L, w, p) = IF WalkOf(C, L, w, p) THEN FaceOf(C, L, w, p) ELSE Absent
           /\ StatOf(C, L, w, p) = IF Hidden(w, p) THEN Absent
                                   ELSE IF Exists(L[p]) THEN L[p] ELSE C[p]
  <1>1. StatOf(C, L, w, p) \in Node
    BY SeenParts
  <1>2. /\ FaceOf(C, L, w, p) \in Node
        /\ FaceOf(C, L, w, p).kind = StatOf(C, L, w, p).kind
    BY <1>1 DEF FaceOf, Face, Node
  <1>3. SeenOf(C, L, w, p) = IF WalkOf(C, L, w, p) THEN FaceOf(C, L, w, p) ELSE Absent
    BY DEF SeenOf, FaceOf, Face
  <1>4. QED
    BY <1>2, <1>3 DEF StatOf, IsVisible, MkPath, LayerOf, At

\* A name is seen as it was when it and the names above it have their faces.
LEMMA SameFaces ==
    ASSUME NEW C \in Layer, NEW L \in Layer, NEW w, NEW C2 \in Layer, NEW L2 \in Layer, NEW w2,
           NEW p \in Paths, \A q \in Prefixes(p) : FaceOf(C2, L2, w2, q) = FaceOf(C, L, w, q)
    PROVE  SeenOf(C2, L2, w2, p) = SeenOf(C, L, w, p)
  <1>1. \A q \in Above(p) : q \in Paths /\ q \in Prefixes(p)
    BY Ancestors
  <1>2. \A q \in Above(p) : StatOf(C2, L2, w2, q).kind = StatOf(C, L, w, q).kind
    BY <1>1, FaceParts
  <1>3. WalkOf(C2, L2, w2, p) <=> WalkOf(C, L, w, p)
    BY <1>2 DEF WalkOf
  <1>4. FaceOf(C2, L2, w2, p) = FaceOf(C, L, w, p)
    BY Ancestors
  <1>5. QED
    BY <1>3, <1>4, FaceParts

\* A name is seen as it was when nothing happened to it or to a name above it.
LEMMA ElsewhereSame ==
    ASSUME NEW C \in Layer, NEW L \in Layer, NEW w, NEW L2 \in Layer, NEW w2, NEW d,
           \A q \in Paths \ {d} : L2[q] = L[q] /\ (Hidden(w2, q) <=> Hidden(w, q)),
           NEW p \in Paths, d \notin Prefixes(p)
    PROVE  SeenOf(C, L2, w2, p) = SeenOf(C, L, w, p)
  <1>1. \A q \in Prefixes(p) : q \in Paths \ {d}
    BY PathsAssumption
  <1>2. \A q \in Prefixes(p) : StatOf(C, L2, w2, q) = StatOf(C, L, w, q)
    BY <1>1, FaceParts
  <1>3. QED
    BY <1>2, SameFaces DEF FaceOf

\* A change at names that are no directories does not show below them: what is
\* below was not seen, and is not seen, or not there, after it.
LEMMA ChangesAt ==
    ASSUME NEW C \in Layer, NEW L \in Layer, NEW w, NEW C2 \in Layer, NEW L2 \in Layer, NEW w2,
           NEW S \in SUBSET Paths,
           \A q \in Paths \ S : FaceOf(C2, L2, w2, q) = FaceOf(C, L, w, q),
           \A q \in S : StatOf(C, L, w, q).kind # "dir",
           NEW p \in Paths \ S,
           \A q \in S \cap Above(p) :
                StatOf(C2, L2, w2, q).kind = "dir" => FaceOf(C2, L2, w2, p) = Absent
    PROVE  SeenOf(C2, L2, w2, p) = SeenOf(C, L, w, p)
  <1>1. CASE S \cap Above(p) = {}
    <2>1. \A q \in Prefixes(p) : q \in Paths \ S
      BY <1>1, Ancestors, PathsAssumption
    <2>2. QED
      BY <2>1, SameFaces
  <1>2. CASE S \cap Above(p) # {}
    <2>1. PICK q \in S \cap Above(p) : TRUE
      BY <1>2
    <2>2. SeenOf(C, L, w, p) = Absent
      BY <2>1, FaceParts DEF WalkOf
    <2>3. SeenOf(C2, L2, w2, p) = Absent
      <3>1. CASE StatOf(C2, L2, w2, q).kind = "dir"
        BY <2>1, <3>1, FaceParts
      <3>2. CASE StatOf(C2, L2, w2, q).kind # "dir"
        BY <2>1, <3>2, FaceParts DEF WalkOf
      <3>3. QED
        BY <3>1, <3>2
    <2>4. QED
      BY <2>2, <2>3
  <1>3. QED
    BY <1>1, <1>2

\* Outside S, what was made in rw_tmp are directories the CD has.
OnlyAt(C, L, M, S) == \A q \in Paths \ S : M[q] # L[q] => C[q].kind = "dir"

\* A directory of the CD made in rw_tmp keeps its face.
LEMMA GrownFace ==
    ASSUME NEW C \in Layer, NEW L \in Layer, Burnt(C), NEW M, Grown(C, L, M), NEW w,
           NEW q \in Paths, M[q] # L[q] => C[q].kind = "dir"
    PROVE  FaceOf(C, M, w, q) = FaceOf(C, L, w, q)
  <1>1. M \in Layer
    BY DEF Grown
  <1>2. CASE M[q] = L[q]
    BY <1>1, <1>2, FaceParts DEF FaceOf
  <1>3. CASE M[q] # L[q]
    <2>1. C[q] = DirNode
      BY <1>3, ImageAssumption DEF Burnt
    <2>2. ~Exists(L[q]) /\ M[q] = DirNode
      BY <1>3, <2>1 DEF Grown, DirNode
    <2>3. StatOf(C, M, w, q) = StatOf(C, L, w, q)
      BY <1>1, <2>1, <2>2, FaceParts
    <2>4. QED
      BY <2>3 DEF FaceOf
  <1>4. QED
    BY <1>2, <1>3

\* Growing that makes more than directories of the CD at names in S only shows
\* at those names only.
LEMMA GrownChanges ==
    ASSUME NEW C, NEW L, Sound(C, L), Burnt(C), NEW M, Grown(C, L, M), NEW w,
           NEW S \in SUBSET Paths, OnlyAt(C, L, M, S), NEW p \in Paths \ S
    PROVE  SeenOf(C, M, w, p) = SeenOf(C, L, w, p)
  <1>1. C \in Layer /\ L \in Layer /\ M \in Layer /\ IsTree(C) /\ IsTree(L)
    BY DEF Sound, Grown
  <1> DEFINE T == {q \in S : StatOf(C, L, w, q).kind # "dir"}
  <1>2. ASSUME NEW q \in Paths \ T PROVE FaceOf(C, M, w, q) = FaceOf(C, L, w, q)
    <2>1. CASE q \notin S
      BY <1>1, <2>1, GrownFace DEF OnlyAt
    <2>2. CASE StatOf(C, L, w, q).kind = "dir"
      <3>1. ~Hidden(w, q) /\ (~Exists(L[q]) => C[q].kind = "dir")
        BY <1>1, <2>2, FaceParts DEF Absent
      <3>2. M[q] # L[q] => C[q].kind = "dir"
        BY <3>1 DEF Grown
      <3>3. QED
        BY <1>1, <3>2, GrownFace
    <2>3. QED
      BY <2>1, <2>2
  <1>3. ASSUME NEW q \in T \cap Above(p), StatOf(C, M, w, q).kind = "dir"
        PROVE  FaceOf(C, M, w, p) = Absent
    <2>1. /\ ~Hidden(w, q) /\ q \in Paths
          /\ StatOf(C, L, w, q) = IF Exists(L[q]) THEN L[q] ELSE C[q]
          /\ StatOf(C, M, w, q) = IF Exists(M[q]) THEN M[q] ELSE C[q]
      BY <1>1, <1>3, FaceParts DEF Absent
    <2>2. ~Exists(L[q]) /\ C[q].kind # "dir"
      BY <1>3, <2>1 DEF Grown, Exists, DirNode
    <2>3. ~Exists(L[p]) /\ ~Exists(C[p])
      BY <1>1, <1>3, <2>2, TreeAncestors DEF Exists
    <2>4. ~Exists(M[p])
      BY <2>3 DEF OnlyAt, Exists
    <2>5. C[p] = Absent
      BY <2>3, ImageAssumption DEF Burnt, Exists
    <2>6. StatOf(C, M, w, p) = Absent
      BY <1>1, <2>4, <2>5, FaceParts
    <2>7. QED
      BY <2>6 DEF FaceOf, Face, Absent
  <1>4. T \in SUBSET Paths /\ p \in Paths \ T /\ \A q \in T : StatOf(C, L, w, q).kind # "dir"
    OBVIOUS
  <1> HIDE DEF T
  <1>5. QED
    BY <1>1, <1>2, <1>3, <1>4, ChangesAt

----------------------------------------------------------------------------
(***************************************************************************)
(* Lemmas: where the preparations of rw_tmp show.                          *)
(***************************************************************************)

\* The directories above a name are in rw_tmp or on the CD.
ReachedDir(C, L, p) == \A q \in Above(p) : Exists(L[q]) \/ C[q].kind = "dir"

\* What is reached by directories is reached.
LEMMA ReachedDirReached ==
    ASSUME NEW C, NEW L, NEW p, ReachedDir(C, L, p)
    PROVE  Reached(C, L, p)
  BY DEF ReachedDir, Reached

\* A name that the kernel walked to is reached by directories.
LEMMA WalkReachedDir ==
    ASSUME TreeInv, NEW p \in Paths, Walkable(p)
    PROVE  ReachedDir(cd, rw, p)
  <1>1. ASSUME NEW q \in Above(p) PROVE Exists(rw[q]) \/ cd[q].kind = "dir"
    <2>1. q \in Paths /\ Stat(q).kind = "dir"
      BY <1>1, Ancestors DEF Walkable
    <2>2. QED
      BY <2>1, SeenKind DEF Absent
  <1>2. QED
    BY <1>1 DEF ReachedDir

\* A name that is in rw_tmp or on the CD is reached by directories there.
LEMMA ExistsReachedDir ==
    ASSUME NEW C, NEW L, IsTree(C), IsTree(L), NEW p \in Paths, Exists(L[p]) \/ Exists(C[p])
    PROVE  ReachedDir(C, L, p)
  <1>1. CASE Exists(L[p])
    BY <1>1, TreeAncestors DEF ReachedDir, Exists
  <1>2. CASE Exists(C[p])
    BY <1>2, TreeAncestors DEF ReachedDir
  <1>3. QED
    BY <1>1, <1>2

\* Making the directory for a name, or the one it is.
LEMMA MakeDirForOnly ==
    ASSUME NEW C, NEW L, Sound(C, L), NEW p \in Paths, ReachedDir(C, L, p)
    PROVE  /\ OnlyAt(C, L, MakeDirFor(C, L, p), {p})
           /\ ~IsDir(C, L, p) => OnlyAt(C, L, MakeDirFor(C, L, p), {})
           /\ \A q \in Paths : MakeDirFor(C, L, p)[q] # L[q] => MakeDirFor(C, L, p)[q] = DirNode
  <1> DEFINE d == GetDir(C, L, p)
             M == RecurseMkdir(L, d)
  <1>1. d \in Paths /\ (d = p \/ (d = Parent(p) /\ p # <<>>))
    BY Ancestors DEF GetDir
  <1>2. Prefixes(d) \subseteq Above(p) \cup {p}
    BY <1>1, Ancestors
  <1>3. \A q \in Paths : \/ M[q] = L[q]
                         \/ ~Exists(L[q]) /\ M[q] = DirNode /\ q \in Prefixes(d)
    BY <1>1, RecurseMkdirTree DEF Sound
  <1>4. M = MakeDirFor(C, L, p)
    BY DEF MakeDirFor
  <1> HIDE DEF M, d
  <1>5. \A q \in Paths \ {p} : M[q] # L[q] => C[q].kind = "dir"
    BY <1>2, <1>3 DEF ReachedDir
  <1>6. ~IsDir(C, L, p) => M[p] = L[p]
    BY <1>4, ReachedDirReached, MakeDirForGrows
  <1>7. QED
    BY <1>3, <1>4, <1>5, <1>6 DEF OnlyAt

\* Copying a name up.
LEMMA CopyUpOnly ==
    ASSUME NEW C, NEW L, Sound(C, L), NEW p \in Paths, ReachedDir(C, L, p), NEW M \in CopyUp(C, L, p)
    PROVE  OnlyAt(C, L, M, {p})
  <1> DEFINE L1 == MakeDirFor(C, L, p)
  <1>1. CASE Exists(L[p])
    BY <1>1 DEF CopyUp, OnlyAt
  <1>2. CASE ~Exists(L[p])
    <2>1. M = L1 \/ \E d : M = NewFile(L1, p, d)
      BY <1>2 DEF CopyUp, CopyTmp
    <2>2. \A q \in Paths \ {p} : M[q] = L1[q]
      BY <2>1 DEF NewFile, Put
    <2>3. OnlyAt(C, L, L1, {p})
      BY MakeDirForOnly
    <2>4. QED
      BY <2>2, <2>3 DEF OnlyAt
  <1>3. QED
    BY <1>1, <1>2

\* A copy is no second name of anything: names that share an inode after the
\* preparations shared it before.
LEMMA OldInode ==
    ASSUME NEW C, NEW L, Sound(C, L), NEW p \in Paths, ReachedDir(C, L, p),
           NEW M, M = MakeDirFor(C, L, p) \/ M \in CopyUp(C, L, p),
           NEW q \in Paths \ {p}, M[q].ino # NoIno, M[q].ino = M[p].ino
    PROVE  L[q].ino = M[q].ino /\ L[p].ino = M[q].ino
  <1> DEFINE L1 == MakeDirFor(C, L, p)
  <1>1. \A x \in Paths : L1[x].ino # NoIno => L1[x] = L[x]
    <2>1. \A x \in Paths : L1[x] # L[x] => L1[x] = DirNode
      BY MakeDirForOnly
    <2>2. DirNode.ino = NoIno
      BY DEF DirNode
    <2>3. QED
      BY <2>1, <2>2
  <1>2. M = L \/ M = L1 \/ (CanCreate(L1, p) /\ \E d : M = NewFile(L1, p, d))
    BY DEF CopyUp, CopyTmp
  <1> HIDE DEF L1
  <1>3. CASE M = L
    BY <1>3
  <1>4. CASE M = L1
    BY <1>1, <1>4
  <1>5. CASE CanCreate(L1, p) /\ \E d : M = NewFile(L1, p, d)
    <2>1. M[q] = L1[q] /\ M[p].ino = NextIno(L1)
      BY <1>5 DEF NewFile, Put, File
    <2>2. L1[q].ino # NextIno(L1)
      BY <1>5 DEF CanCreate, NextIno, FreeInodes
    <2>3. QED
      BY <2>1, <2>2
  <1>6. QED
    BY <1>2, <1>3, <1>4, <1>5

\* What doLinkAll prepares shows at the new name and at the target only.
LEMMA TargetOnly ==
    ASSUME TreeInv, NEW l \in Paths, NEW t \in Paths, Walkable(l), NEW M \in Target(l, t)
    PROVE  OnlyAt(cd, rw, M, {l, t})
  <1> DEFINE L1 == MakeDirFor(cd, rw, l)
             L2 == MadeFor(l, t)
  <1>1. Grown(cd, rw, L1) /\ Sound(cd, L1) /\ OnlyAt(cd, rw, L1, {l})
    BY WalkReachedDir, ReachedDirReached, MakeDirForGrows, MakeDirForOnly, GrowStep DEF TreeInv
  <1>2. L2 = IF Exists(MkPath(cd, L1, t)) /\ ~IsDir(cd, L1, t) THEN MakeDirFor(cd, L1, t) ELSE L1
    BY DEF MadeFor
  <1>3. Sound(cd, L2)
    BY MadeForGrows, GrowStep
  <1> HIDE DEF L1, L2
  <1>4. OnlyAt(cd, L1, L2, {})
    <2>1. CASE Exists(MkPath(cd, L1, t)) /\ ~IsDir(cd, L1, t)
      <3>1. Exists(L1[t]) \/ Exists(cd[t])
        BY <2>1 DEF MkPath, LayerOf, At
      <3>2. ReachedDir(cd, L1, t)
        BY <1>1, <3>1, ExistsReachedDir DEF Sound
      <3>3. QED
        BY <1>1, <1>2, <2>1, <3>2, MakeDirForOnly
    <2>2. CASE ~(Exists(MkPath(cd, L1, t)) /\ ~IsDir(cd, L1, t))
      BY <1>2, <2>2 DEF OnlyAt
    <2>3. QED
      BY <2>1, <2>2
  <1>5. OnlyAt(cd, L2, M, {t})
    <2>1. CASE Exists(cd[t])
      <3>1. M \in CopyUp(cd, L2, t)
        BY <2>1 DEF Target, L2
      <3>2. ReachedDir(cd, L2, t)
        BY <1>3, <2>1, ExistsReachedDir DEF Sound
      <3>3. QED
        BY <1>3, <3>1, <3>2, CopyUpOnly
    <2>2. CASE ~Exists(cd[t])
      BY <2>2 DEF Target, L2, OnlyAt
    <2>3. QED
      BY <2>1, <2>2
  <1>6. QED
    BY <1>1, <1>4, <1>5 DEF OnlyAt

----------------------------------------------------------------------------
(***************************************************************************)
(* What each request shows, and where.                                     *)
(***************************************************************************)

\* A change of rw_tmp below the whiteouts as they are, in terms of Seen.
LEMMA GrowShows ==
    ASSUME TreeInv, NEW M, Grown(cd, rw, M), NEW S \in SUBSET Paths, OnlyAt(cd, rw, M, S),
           rw' = M, UNCHANGED <<cd, wo>>, NEW p \in Paths \ S
    PROVE  Seen(p)' = Seen(p)
  <1>1. SeenOf(cd, M, wo, p) = SeenOf(cd, rw, wo, p)
    BY GrownChanges DEF TreeInv
  <1>2. QED
    BY <1>1, SeenIsSeenOf

\* A request that fails, or hangs, after the preparations.
LEMMA FailShows ==
    ASSUME TreeInv, NEW M, Grown(cd, rw, M), NEW S \in SUBSET Paths, OnlyAt(cd, rw, M, S),
           Fails(M) \/ Hangs(M), NEW p \in Paths \ S
    PROVE  Seen(p)' = Seen(p)
  BY GrowShows DEF Fails, Hangs

\* After the preparations, names T change that were no directories, and are
\* none after it.
Ends(M, T) ==
    /\ rw' \in Layer /\ cd' = cd
    /\ \A q \in Paths \ T : rw'[q] = M[q] /\ (Hidden(wo', q) <=> Hidden(wo, q))
    /\ \A q \in T : /\ StatOf(cd, M, wo, q).kind # "dir"
                    /\ StatOf(cd, rw', wo', q).kind # "dir"

\* A request that ends so shows where its preparations do and at these names.
LEMMA EndShows ==
    ASSUME TreeInv, NEW M, Grown(cd, rw, M), NEW S \in SUBSET Paths, OnlyAt(cd, rw, M, S),
           NEW T \in SUBSET Paths, Ends(M, T), NEW p \in Paths, p \notin S, p \notin T
    PROVE  Seen(p)' = Seen(p)
  <1> DEFINE N == rw'
             w2 == wo'
  <1>1. /\ cd \in Layer /\ rw \in Layer /\ M \in Layer /\ N \in Layer
        /\ \A q \in Paths \ T : N[q] = M[q] /\ (Hidden(w2, q) <=> Hidden(wo, q))
        /\ \A q \in T : StatOf(cd, M, wo, q).kind # "dir" /\ StatOf(cd, N, w2, q).kind # "dir"
        /\ cd' = cd
    BY InvTypes DEF Grown, Ends
  <1> HIDE DEF N, w2
  <1>2. SeenOf(cd, M, wo, p) = SeenOf(cd, rw, wo, p)
    BY GrownChanges DEF TreeInv
  <1>3. ASSUME NEW q \in Paths \ T
        PROVE  FaceOf(cd, N, w2, q) = FaceOf(cd, M, wo, q)
    <2>1. N[q] = M[q] /\ (Hidden(w2, q) <=> Hidden(wo, q))
      BY <1>1
    <2>2. StatOf(cd, N, w2, q) = StatOf(cd, M, wo, q)
      BY <1>1, <2>1, FaceParts
    <2>3. QED
      BY <2>2 DEF FaceOf
  <1>4. SeenOf(cd, N, w2, p) = SeenOf(cd, M, wo, p)
    BY <1>1, <1>3, ChangesAt
  <1>5. QED
    BY <1>1, <1>2, <1>4, SeenIsSeenOf DEF N, w2

\* A request that, after the preparations, makes a file or a link where nothing
\* was seen.
LEMMA AddShows ==
    ASSUME TreeInv, NEW M, Grown(cd, rw, M), NEW S \in SUBSET Paths, OnlyAt(cd, rw, M, S),
           NEW n \in Paths, Negative(n), ~Exists(M[n]),
           rw' \in Layer, \A q \in Paths \ {n} : rw'[q] = M[q], rw'[n].kind \in {"reg", "lnk"},
           cd' = cd, wo' \in Show(n), NEW p \in Paths \ S, p # n
    PROVE  Seen(p)' = Seen(p)
  <1> DEFINE N == rw'
             w2 == wo'
             T == {n}
  <1>1. cd \in Layer /\ M \in Layer /\ N \in Layer
    BY InvTypes DEF Grown
  <1>2. \A q : Hidden(w2, q) <=> IF q = n THEN FALSE ELSE Hidden(wo, q)
    BY InvTypes, VisibleHides
  <1>3. N[n].kind \in {"reg", "lnk"}
    OBVIOUS
  <1> HIDE DEF N, w2
  <1>4. StatOf(cd, M, wo, n).kind # "dir"
    <2>1. StatOf(cd, M, wo, n) = IF Hidden(wo, n) THEN Absent ELSE cd[n]
      BY <1>1, FaceParts
    <2>2. ~Exists(rw[n])
      BY DEF Grown
    <2>3. ~Hidden(wo, n) => ~Exists(cd[n])
      BY <2>2, SeenKind DEF Negative
    <2>4. QED
      BY <2>1, <2>3 DEF Exists, Absent
  <1>5. StatOf(cd, N, w2, n).kind # "dir"
    BY <1>1, <1>2, <1>3, FaceParts DEF Exists
  <1>6. T \in SUBSET Paths /\ p \notin T /\ p \notin S /\ Ends(M, T)
    BY <1>2, <1>4, <1>5 DEF N, w2, Ends
  <1> HIDE DEF T
  <1>7. QED
    BY <1>6, EndShows

\* doReaddir shows nothing.
LEMMA ReaddirShows ==
    ASSUME TreeInv, NEW d \in Paths, doReaddir(d), NEW p \in Paths
    PROVE  Seen(p)' = Seen(p)
  <1>1. /\ Seen(d).kind = "dir" /\ rw' = RecurseMkdir(rw, d) /\ UNCHANGED <<cd, wo>>
        /\ Grown(cd, rw, RecurseMkdir(rw, d))
    BY ReaddirGrows DEF doReaddir, Done
  <1>2. OnlyAt(cd, rw, RecurseMkdir(rw, d), {})
    <2>1. \A q \in Paths : RecurseMkdir(rw, d)[q] # rw[q] => ~Exists(rw[q]) /\ q \in Prefixes(d)
      BY RecurseMkdirTree, InvTypes DEF TreeInv, Sound
    <2>2. \A q \in Prefixes(d) : Stat(q).kind = "dir"
      BY <1>1, SeenKind, Ancestors DEF Walkable
    <2>3. \A q \in Paths : RecurseMkdir(rw, d)[q] # rw[q] => cd[q].kind = "dir"
      BY <2>1, <2>2, SeenKind DEF Absent
    <2>4. QED
      BY <2>3 DEF OnlyAt
  <1>3. QED
    BY <1>1, <1>2, GrowShows

\* doMkdir shows at the name it makes and below.
LEMMA MkdirShows ==
    ASSUME TreeInv, NEW d \in Paths, doMkdir(d), NEW p \in Paths, d \notin Prefixes(p)
    PROVE  Seen(p)' = Seen(p)
  <1>1. cd \in Layer /\ rw \in Layer /\ Put(rw, d, DirNode) \in Layer
    BY InvTypes, PutType, NodeTypes
  <1>2. cd' = cd /\ (rw' = rw \/ rw' = Put(rw, d, DirNode))
    BY DEF doMkdir, Done, Fails
  <1>3. wo' = wo \/ wo' \in Show(d)
    BY DEF doMkdir, Done, Fails
  <1> DEFINE N == rw'
             w2 == wo'
  <1>4. \A q \in Paths \ {d} : N[q] = rw[q] /\ (Hidden(w2, q) <=> Hidden(wo, q))
    BY <1>2, <1>3, InvTypes, VisibleHides DEF Put
  <1>5. N \in Layer
    BY <1>1, <1>2
  <1> HIDE DEF N, w2
  <1>6. SeenOf(cd, N, w2, p) = SeenOf(cd, rw, wo, p)
    BY <1>1, <1>4, <1>5, ElsewhereSame
  <1>7. QED
    BY <1>2, <1>6, SeenIsSeenOf DEF N, w2

\* doRmdir shows at the name it removes and below.
LEMMA RmdirShows ==
    ASSUME TreeInv, NEW d \in Paths, doRmdir(d), NEW p \in Paths, d \notin Prefixes(p)
    PROVE  Seen(p)' = Seen(p)
  <1>1. cd \in Layer /\ rw \in Layer /\ rw' \in Layer /\ cd' = cd
    BY InvTypes, PutType, NodeTypes DEF doRmdir
  <1>2. \A q \in Paths \ {d} : rw'[q] = rw[q] /\ (Hidden(wo', q) <=> Hidden(wo, q))
    BY InvTypes, VisibleHides DEF doRmdir, Put
  <1>3. SeenOf(cd, rw', wo', p) = SeenOf(cd, rw, wo, p)
    BY <1>1, <1>2, ElsewhereSame
  <1>4. QED
    BY <1>1, <1>3, SeenIsSeenOf

\* doCreate shows at the name it makes.
LEMMA CreateShows ==
    ASSUME TreeInv, NEW n \in Paths, doCreate(n), NEW p \in Paths, p # n
    PROVE  Seen(p)' = Seen(p)
  <1> DEFINE M == MakeDirFor(cd, rw, n)
  <1>1. Negative(n) /\ ReachedDir(cd, rw, n)
    BY WalkReachedDir DEF doCreate, Negative
  <1>2. Grown(cd, rw, M) /\ OnlyAt(cd, rw, M, {n})
    BY <1>1, ReachedDirReached, MakeDirForGrows, MakeDirForOnly DEF TreeInv
  <1>3. \/ Fails(M)
        \/ /\ CanCreate(M, n) /\ Done(NewFile(M, n, Empty), Show(n))
           /\ cd' = cd
    BY DEF doCreate
  <1> HIDE DEF M
  <1>4. CASE Fails(M)
    BY <1>2, <1>4, FailShows
  <1>5. CASE /\ CanCreate(M, n) /\ Done(NewFile(M, n, Empty), Show(n))
             /\ cd' = cd
    <2>1. /\ rw' \in Layer /\ rw'[n].kind = "reg" /\ ~Exists(M[n])
          /\ \A q \in Paths \ {n} : rw'[q] = M[q]
      BY <1>2, <1>5, NewFileTree, DataAssumption DEF Grown, Done, CanCreate, CanAdd
    <2>2. QED
      BY <1>1, <1>2, <1>5, <2>1, AddShows DEF Done
  <1>6. QED
    BY <1>3, <1>4, <1>5

\* doLink shows at its two names.
LEMMA LinkShows ==
    ASSUME TreeInv, NEW t \in Paths, NEW l \in Paths, doLink(t, l),
           NEW p \in Paths, p # t, p # l
    PROVE  Seen(p)' = Seen(p)
  <1>1. Negative(l) /\ Walkable(l)
    BY DEF doLink, Negative
  <1>2. PICK M \in Target(l, t) :
          \/ Hangs(M) \/ Fails(M)
          \/ /\ M[t].kind \in {"reg", "lnk"} /\ CanAdd(M, l) /\ cd' = cd
             /\ Done(Put(M, l, M[t]), Show(l))
    BY DEF doLink
  <1>3. Grown(cd, rw, M) /\ OnlyAt(cd, rw, M, {l, t})
    BY <1>1, TargetGrows, TargetOnly
  <1>4. CASE Hangs(M) \/ Fails(M)
    BY <1>3, <1>4, FailShows
  <1>5. CASE /\ M[t].kind \in {"reg", "lnk"} /\ CanAdd(M, l) /\ cd' = cd
             /\ Done(Put(M, l, M[t]), Show(l))
    <2>1. M \in Layer /\ M[t] \in Node /\ rw' = Put(M, l, M[t]) /\ ~Exists(M[l])
      BY <1>3, <1>5 DEF Grown, Layer, Done, CanAdd
    <2>2. /\ rw' \in Layer /\ rw'[l].kind \in {"reg", "lnk"}
          /\ \A q \in Paths \ {l} : rw'[q] = M[q]
      BY <1>5, <2>1, PutType DEF Put
    <2> DEFINE S == {l, t}
    <2>3. /\ S \in SUBSET Paths /\ p \in Paths \ S /\ OnlyAt(cd, rw, M, S)
          /\ wo' \in Show(l)
      BY <1>3, <1>5 DEF Done
    <2> HIDE DEF S
    <2>4. QED
      BY <1>1, <1>3, <1>5, <2>1, <2>2, <2>3, AddShows
  <1>6. QED
    BY <1>2, <1>4, <1>5

\* doSymlink shows at the link it makes and at the name its text is taken for.
LEMMA SymlinkShows ==
    ASSUME TreeInv, NEW text \in Texts, NEW l \in Paths, doSymlink(text, l),
           NEW p \in Paths, p # text.path, p # l
    PROVE  Seen(p)' = Seen(p)
  <1>1. Negative(l) /\ Walkable(l) /\ Grown(cd, rw, rw) /\ OnlyAt(cd, rw, rw, {})
    BY GrownSame, InvTypes DEF TreeInv, Sound, doSymlink, Negative, OnlyAt
  <1>2. text \in [form : {"rel", "abs"}, path : Paths]
    BY RequestsAssumption
  <1>3. \/ Fails(rw)
        \/ \E M \in Target(l, text.path) :
             \/ Hangs(M) \/ Fails(M)
             \/ /\ CanAdd(M, l) /\ cd' = cd
                /\ Done(Put(M, l, Link(TextOf(M, text))), Show(l))
    BY DEF doSymlink
  <1>4. CASE Fails(rw)
    BY <1>1, <1>4, FailShows
  <1>5. ASSUME NEW M \in Target(l, text.path),
               \/ Hangs(M) \/ Fails(M)
               \/ /\ CanAdd(M, l) /\ cd' = cd
                  /\ Done(Put(M, l, Link(TextOf(M, text))), Show(l))
        PROVE  Seen(p)' = Seen(p)
    <2>1. Grown(cd, rw, M) /\ OnlyAt(cd, rw, M, {l, text.path})
      BY <1>1, <1>2, TargetGrows, TargetOnly
    <2>2. CASE Hangs(M) \/ Fails(M)
      BY <1>2, <2>1, <2>2, FailShows
    <2>3. CASE /\ CanAdd(M, l) /\ cd' = cd
               /\ Done(Put(M, l, Link(TextOf(M, text))), Show(l))
      <3>1. TextOf(M, text) \in Text
        BY <1>2 DEF TextOf, Text
      <3>2. Link(TextOf(M, text)) \in Node /\ Link(TextOf(M, text)).kind = "lnk"
        BY <3>1, NodeTypes DEF Link
      <3>3. M \in Layer /\ ~Exists(M[l]) /\ rw' = Put(M, l, Link(TextOf(M, text)))
        BY <2>1, <2>3 DEF Grown, Done, CanAdd
      <3> HIDE DEF Link
      <3>4. /\ rw' \in Layer /\ rw'[l].kind = "lnk"
            /\ \A q \in Paths \ {l} : rw'[q] = M[q]
        BY <3>2, <3>3, PutType DEF Put
      <3> DEFINE S == {l, text.path}
      <3>5. /\ S \in SUBSET Paths /\ p \in Paths \ S /\ OnlyAt(cd, rw, M, S)
            /\ wo' \in Show(l)
        BY <1>2, <2>1, <2>3 DEF Done
      <3> HIDE DEF S
      <3>6. QED
        BY <1>1, <2>1, <2>3, <3>3, <3>4, <3>5, AddShows
    <2>4. QED
      BY <1>5, <2>2, <2>3
  <1>6. QED
    BY <1>3, <1>4, <1>5

\* doUnlink shows at the name it removes.
LEMMA UnlinkShows ==
    ASSUME TreeInv, NEW n \in Paths, doUnlink(n), NEW p \in Paths, p # n
    PROVE  Seen(p)' = Seen(p)
  <1> DEFINE N == rw'
             w2 == wo'
             T == {n}
  <1>1. /\ cd' = cd /\ rw' = Put(rw, n, Absent)
        /\ wo' \in IF Exists(cd[n]) THEN Hide(n) ELSE {wo}
        /\ Stat(n).kind \notin {"absent", "dir"}
    BY SeenKind DEF doUnlink, Done, FileKinds
  <1>2. cd \in Layer /\ rw \in Layer /\ N \in Layer /\ N[n] = Absent
    BY <1>1, InvTypes, PutType, NodeTypes DEF Put
  <1>3. /\ \A q \in Paths \ T : N[q] = rw[q] /\ (Hidden(w2, q) <=> Hidden(wo, q))
        /\ Exists(cd[n]) => Hidden(w2, n)
    BY <1>1, InvTypes, VisibleHides DEF Put
  <1> HIDE DEF N, w2
  <1>4. StatOf(cd, rw, wo, n).kind # "dir"
    BY <1>1, SeenIsSeenOf
  <1>5. StatOf(cd, N, w2, n).kind # "dir"
    BY <1>2, <1>3, FaceParts DEF Absent, Exists
  <1>6. Grown(cd, rw, rw) /\ OnlyAt(cd, rw, rw, T)
    BY GrownSame, InvTypes DEF TreeInv, Sound, OnlyAt
  <1>7. T \in SUBSET Paths /\ p \notin T /\ Ends(rw, T)
    BY <1>1, <1>2, <1>3, <1>4, <1>5 DEF N, w2, Ends
  <1> HIDE DEF T
  <1>8. QED
    BY <1>6, <1>7, EndShows

\* doRename shows at its two names.
LEMMA RenameShows ==
    ASSUME TreeInv, NEW old \in Paths, NEW new \in Paths, doRename(old, new),
           NEW p \in Paths, p # old, p # new
    PROVE  Seen(p)' = Seen(p)
  <1>1. Grown(cd, rw, rw) /\ OnlyAt(cd, rw, rw, {})
    BY GrownSame, InvTypes DEF TreeInv, Sound, OnlyAt
  <1>2. CASE Fails(rw)
    BY <1>1, <1>2, FailShows
  <1>3. CASE ~Fails(rw)
    <2>1. ~IsDir(cd, rw, old)
      BY <1>3 DEF doRename
    <2>2. PICK M \in CopyUp(cd, rw, old) :
            \/ Hangs(M) \/ Fails(M)
            \/ /\ CanRename(M, old, new) /\ cd' = cd
               /\ Done(Renamed(M, old, new), HideOldShowNew(old, new))
      BY <1>3 DEF doRename
    <2>3. Grown(cd, rw, M) /\ M[old].kind # "dir" /\ OnlyAt(cd, rw, M, {old})
      BY <2>1, RenameBefore, WalkReached, WalkReachedDir, CopyUpGrows, CopyUpOnly DEF TreeInv
    <2>4. CASE Hangs(M) \/ Fails(M)
      BY <2>3, <2>4, FailShows
    <2>5. CASE /\ CanRename(M, old, new) /\ cd' = cd
               /\ Done(Renamed(M, old, new), HideOldShowNew(old, new))
      <3> DEFINE N == rw'
                 w2 == wo'
                 T == {old, new}
      <3>1. cd \in Layer /\ M \in Layer /\ IsTree(M) /\ InodesShared(M)
        BY <2>3, InvTypes DEF Grown
      <3>2. /\ N \in Layer /\ N[new] = M[old]
            /\ \A q \in Paths \ T : N[q] = M[q]
        BY <2>1, <2>3, <2>5, <3>1, RenameBefore, RenamedTree DEF Done
      <3>3. /\ ~Hidden(w2, new) /\ Hidden(w2, old)
            /\ \A q \in Paths \ T : Hidden(w2, q) <=> Hidden(wo, q)
        BY <2>1, <2>5, HideOldShowNewHides, RenameBefore DEF Done
      <3> HIDE DEF N, w2
      <3>4. /\ StatOf(cd, N, w2, old).kind # "dir"
            /\ StatOf(cd, N, w2, new).kind # "dir"
        BY <2>3, <2>5, <3>1, <3>2, <3>3, FaceParts DEF Absent, CanRename
      <3>5. /\ StatOf(cd, rw, wo, old).kind # "dir" /\ ~Hidden(wo, old)
            /\ StatOf(cd, rw, wo, new).kind # "dir"
        BY <2>1, RenameBefore, SeenIsSeenOf
      <3>6. StatOf(cd, M, wo, old).kind # "dir"
        BY <2>3, <2>5, <3>1, FaceParts DEF Absent, CanRename
      <3>7. StatOf(cd, M, wo, new).kind # "dir"
        <4>1. M[new].kind # "dir"
          BY <2>5 DEF CanRename
        <4>2. Exists(rw[new]) => M[new] = rw[new]
          BY <2>3 DEF Grown
        <4>3. QED
          BY <3>1, <3>5, <4>1, <4>2, InvTypes, FaceParts DEF Exists
      <3>8. T \in SUBSET Paths /\ p \notin T /\ OnlyAt(cd, rw, M, T)
        BY <2>3 DEF OnlyAt
      <3>9. Ends(M, T)
        BY <2>5, <3>2, <3>3, <3>4, <3>6, <3>7 DEF N, w2, Ends
      <3> HIDE DEF T
      <3>10. QED
        BY <2>3, <3>8, <3>9, EndShows
    <2>6. QED
      BY <2>2, <2>4, <2>5
  <1>4. QED
    BY <1>2, <1>3

\* Contents written elsewhere do not show under a name.
LEMMA ContentsElsewhere ==
    ASSUME NEW C \in Layer, NEW L \in Layer, NEW w, NEW C2 \in Layer, NEW L2 \in Layer, NEW w2,
           \A q \in Paths : /\ C2[q].kind = C[q].kind /\ L2[q].kind = L[q].kind
                            /\ Hidden(w2, q) <=> Hidden(w, q),
           NEW p \in Paths, C2[p] = C[p], L2[p] = L[p]
    PROVE  SeenOf(C2, L2, w2, p) = SeenOf(C, L, w, p)
  <1>1. ASSUME NEW q \in Paths
        PROVE  StatOf(C2, L2, w2, q).kind = StatOf(C, L, w, q).kind
    BY FaceParts DEF Exists
  <1>2. WalkOf(C2, L2, w2, p) <=> WalkOf(C, L, w, p)
    BY <1>1, Ancestors DEF WalkOf
  <1>3. StatOf(C2, L2, w2, p) = StatOf(C, L, w, p)
    BY FaceParts
  <1>4. QED
    BY <1>2, <1>3, FaceParts DEF FaceOf

\* A request that, after the preparations for p, writes the file p shows at the
\* names of that file.
LEMMA FileShows ==
    ASSUME TreeInv, NEW p \in Paths, ReachedDir(cd, rw, p),
           NEW M, M = MakeDirFor(cd, rw, p) \/ M \in CopyUp(cd, rw, p), Grown(cd, rw, M),
           NEW d \in Data, Exists(M[p]), p # <<>>, rw' = SetData(M, p, d), cd' = cd,
           \A q \in Paths : Hidden(wo', q) <=> Hidden(wo, q),
           NEW x \in Paths, ~SameFile(x, p)
    PROVE  Seen(x)' = Seen(x)
  <1> DEFINE N == rw'
             w2 == wo'
  <1>1. cd \in Layer /\ rw \in Layer /\ M \in Layer /\ IsTree(M) /\ InodesShared(M)
    BY InvTypes DEF Grown
  <1>2. /\ N \in Layer /\ \A q \in Paths : N[q].kind = M[q].kind
        /\ \A q \in Paths : Hidden(w2, q) <=> Hidden(wo, q)
    BY <1>1, SetDataTree
  <1>3. x # p /\ x \in Paths \ {p}
    BY DEF SameFile
  <1>4. ~(M[p].ino # NoIno /\ M[x].ino = M[p].ino)
    <2>1. SUFFICES ASSUME M[p].ino # NoIno, M[x].ino = M[p].ino PROVE FALSE
      OBVIOUS
    <2>2. M[x].ino # NoIno /\ Sound(cd, rw)
      BY <2>1 DEF TreeInv
    <2>3. rw[x].ino = M[x].ino /\ rw[p].ino = M[x].ino
      BY <1>3, <2>1, <2>2, OldInode
    <2>4. QED
      BY <2>2, <2>3 DEF SameFile
  <1>5. N[x] = M[x]
    BY <1>3, <1>4 DEF SetData
  <1>6. OnlyAt(cd, rw, M, {p})
    BY MakeDirForOnly, CopyUpOnly DEF TreeInv
  <1> HIDE DEF N, w2
  <1>7. SeenOf(cd, M, wo, x) = SeenOf(cd, rw, wo, x)
    BY <1>3, <1>6, GrownChanges DEF TreeInv
  <1>8. SeenOf(cd, N, w2, x) = SeenOf(cd, M, wo, x)
    BY <1>1, <1>2, <1>5, ContentsElsewhere
  <1>9. QED
    BY <1>7, <1>8, SeenIsSeenOf DEF N, w2

\* doSetattr shows at its name, and at the names of the same file when it
\* shrinks it.
LEMMA SetattrShows ==
    ASSUME TreeInv, NEW p \in Paths, NEW shrink \in BOOLEAN, doSetattr(p, shrink),
           NEW x \in Paths, x # p, ~(shrink /\ SameFile(x, p))
    PROVE  Seen(x)' = Seen(x)
  <1>1. Walkable(p) /\ (shrink => Seen(p).kind = "reg")
    BY DEF doSetattr, Present, Seen, Exists, Absent
  <1>2. PICK M \in CopyUp(cd, rw, p) :
          \/ Hangs(M) \/ Fails(M)
          \/ /\ Exists(M[p]) /\ Done(IF shrink THEN SetData(M, p, Empty) ELSE M, {wo})
             /\ cd' = cd
    BY DEF doSetattr
  <1>3. /\ Grown(cd, rw, M) /\ ReachedDir(cd, rw, p)
        /\ OnlyAt(cd, rw, M, {p}) /\ x \notin {p}
    BY <1>1, WalkReached, CopyUpGrows, WalkReachedDir, CopyUpOnly DEF TreeInv
  <1>4. CASE Hangs(M) \/ Fails(M)
    BY <1>3, <1>4, FailShows
  <1>5. CASE ~shrink /\ Done(M, {wo}) /\ cd' = cd
    BY <1>3, <1>5, GrowShows DEF Done
  <1>6. CASE shrink /\ Exists(M[p]) /\ Done(SetData(M, p, Empty), {wo}) /\ cd' = cd
    <2>1. p # <<>>
      BY <1>1, <1>6, SeenKind DEF TreeInv, Sound, IsTree, DirNode, Exists, Absent
    <2>2. /\ rw' = SetData(M, p, Empty) /\ Empty \in Data /\ ~SameFile(x, p)
          /\ \A q \in Paths : Hidden(wo', q) <=> Hidden(wo, q)
      BY <1>6, DataAssumption DEF Done
    <2>3. QED
      BY <1>2, <1>3, <1>6, <2>1, <2>2, FileShows
  <1>7. QED
    BY <1>2, <1>4, <1>5, <1>6

\* doOpen shows at its name, unless it opens what is there for reading, and at
\* the names of the same file when it truncates it.
LEMMA OpenShows ==
    ASSUME TreeInv, NEW p \in Paths, NEW acc \in {"r", "w"}, NEW creat \in BOOLEAN,
           NEW trunc \in BOOLEAN, doOpen(p, acc, creat, trunc),
           NEW x \in Paths, (acc = "r" /\ ~creat) \/ x # p, ~(trunc /\ SameFile(x, p))
    PROVE  Seen(x)' = Seen(x)
  <1> DEFINE W == IF creat THEN Show(p) ELSE {wo}
  <1>1. /\ Seen(p).kind = "reg" /\ (trunc => acc = "w")
        /\ Walkable(p) /\ Stat(p).kind = "reg" /\ p # <<>>
    <2>1. Seen(p).kind = "reg" /\ (trunc => acc = "w")
      BY DEF doOpen
    <2>2. Walkable(p) /\ Stat(p).kind = "reg"
      BY <2>1, SeenKind
    <2>3. rw[<<>>].kind = "dir"
      BY DEF TreeInv, Sound, IsTree, DirNode
    <2>4. QED
      BY <2>1, <2>2, <2>3, SeenKind DEF Absent, Exists
  <1>2. \A u \in W : \A q \in Paths : Hidden(u, q) <=> Hidden(wo, q)
    <2>1. ~Hidden(wo, p)
      BY <1>1, SeenKind DEF Absent
    <2>2. \A u \in Show(p) : \A q : Hidden(u, q) <=> q # p /\ Hidden(wo, q)
      BY InvTypes, VisibleHides
    <2>3. QED
      BY <2>1, <2>2
  <1>3. PICK M \in ToOpen(p, acc, creat) :
           \/ /\ creat /\ CanCreate(M, p) /\ rw' = NewFile(M, p, Empty)
              /\ wo' \in W /\ cd' = cd
           \/ /\ (IF creat \/ acc = "w" THEN M[p] ELSE MkPath(cd, M, p)).kind = "reg"
              /\ rw' = M \/ (trunc /\ rw' = SetData(M, p, Empty))
              /\ wo' \in W /\ cd' = cd
           \/ Fails(M)
    BY DEF doOpen, Done
  <1> HIDE DEF W
  <1>4. /\ Grown(cd, rw, M) /\ ReachedDir(cd, rw, p)
        /\ CanCreate(M, p) => Grown(cd, rw, NewFile(M, p, Empty))
    BY <1>1, ToOpenGrows, WalkReachedDir
  <1>5. M = rw \/ M = MakeDirFor(cd, rw, p) \/ M \in CopyUp(cd, rw, p)
    BY DEF ToOpen
  <1>6. OnlyAt(cd, rw, M, {p})
    BY <1>4, <1>5, MakeDirForOnly, CopyUpOnly DEF TreeInv, OnlyAt
  <1>7. ASSUME NEW N, Grown(cd, rw, N), OnlyAt(cd, rw, N, {p}), rw' = N, cd' = cd, x # p,
               \A q \in Paths : Hidden(wo', q) <=> Hidden(wo, q)
        PROVE  Seen(x)' = Seen(x)
    <2> DEFINE v == wo'
    <2>1. N \in Layer /\ cd \in Layer /\ \A q \in Paths : Hidden(v, q) <=> Hidden(wo, q)
      BY <1>7, InvTypes DEF Grown
    <2> HIDE DEF v
    <2>2. SeenOf(cd, N, wo, x) = SeenOf(cd, rw, wo, x)
      BY <1>7, GrownChanges DEF TreeInv
    <2>3. SeenOf(cd, N, v, x) = SeenOf(cd, N, wo, x)
      BY <2>1, ContentsElsewhere
    <2>4. QED
      BY <1>7, <2>2, <2>3, SeenIsSeenOf DEF v
  <1>8. CASE Fails(M)
    <2>1. CASE x # p
      BY <1>4, <1>6, <1>8, <2>1, FailShows
    <2>2. CASE acc = "r" /\ ~creat
      <3>1. M = rw
        BY <2>2 DEF ToOpen
      <3>2. UNCHANGED <<cd, rw, wo>>
        BY <1>8, <3>1 DEF Fails
      <3>3. QED
        BY <3>2, SeenIsSeenOf
    <2>3. QED
      BY <2>1, <2>2
  <1>9. CASE creat /\ CanCreate(M, p) /\ rw' = NewFile(M, p, Empty) /\ wo' \in W /\ cd' = cd
    <2> DEFINE N == NewFile(M, p, Empty)
    <2>1. \A q \in Paths \ {p} : N[q] = M[q]
      BY DEF NewFile, Put
    <2>2. OnlyAt(cd, rw, N, {p}) /\ Grown(cd, rw, N)
      BY <1>4, <1>6, <1>9, <2>1 DEF OnlyAt
    <2> HIDE DEF N
    <2>3. QED
      BY <1>2, <1>7, <1>9, <2>2 DEF N
  <1>10. CASE rw' = M /\ wo' \in W /\ cd' = cd
    <2>1. CASE x # p
      BY <1>2, <1>4, <1>6, <1>7, <1>10, <2>1
    <2>2. CASE acc = "r" /\ ~creat
      <3>1. M = rw /\ W = {wo}
        BY <2>2 DEF ToOpen, W
      <3>2. UNCHANGED <<cd, rw, wo>>
        BY <1>10, <3>1
      <3>3. QED
        BY <3>2, SeenIsSeenOf
    <2>3. QED
      BY <2>1, <2>2
  <1>11. CASE /\ (IF creat \/ acc = "w" THEN M[p] ELSE MkPath(cd, M, p)).kind = "reg"
              /\ trunc /\ rw' = SetData(M, p, Empty) /\ wo' \in W /\ cd' = cd
    <2>1. /\ Exists(M[p]) /\ Empty \in Data /\ ~SameFile(x, p)
          /\ \A q \in Paths : Hidden(wo', q) <=> Hidden(wo, q)
      BY <1>1, <1>2, <1>11, DataAssumption DEF Exists
    <2>2. M = MakeDirFor(cd, rw, p) \/ M \in CopyUp(cd, rw, p)
      <3>1. CASE M = rw
        BY <2>1, <3>1 DEF CopyUp
      <3>2. QED
        BY <1>5, <3>1
    <2>3. QED
      BY <1>1, <1>4, <1>11, <2>1, <2>2, FileShows
  <1>12. QED
    BY <1>3, <1>8, <1>9, <1>10, <1>11

\* doWrite shows at the names of the file it writes: that of the name, or for
\* a file whose name is gone whatever its name leads to.
LEMMA WriteShows ==
    ASSUME TreeInv, NEW f \in Fds, NEW d \in Data, doWrite(f, d), NEW x \in Paths,
           ~SameFile(x, kfile[f].path), kfile[f].linked \/ ~SameFile(x, Reopened(f).path)
    PROVE  Seen(x)' = Seen(x)
  <1> DEFINE end == Reopened(f)
             N == rw'
             D == cd'
  <1>1. PICK e \in Data :
          /\ wo' = wo
          /\ \/ UNCHANGED <<cd, rw>>
             \/ /\ end # Nowhere /\ end.layer = "tmp" /\ rw[end.path].kind = "reg"
                /\ rw' = SetData(rw, end.path, e) /\ cd' = cd
             \/ /\ end # Nowhere /\ end.layer = "root" /\ cd[end.path].kind = "reg"
                /\ cd' = SetData(cd, end.path, e) /\ rw' = rw
    BY WrittenData DEF doWrite, NodeOf
  <1>2. end # Nowhere => end.path \in Paths
    BY FollowType DEF Reopened
  <1>3. ~SameFile(x, end.path)
    <2>1. CASE kfile[f].linked
      <3>1. kfile[f].acc = "w"
        BY DEF doWrite
      <3>2. end.path = kfile[f].path
        BY <2>1, <3>1, ReopenedInTmp
      <3>3. QED
        BY <3>2
    <2>2. CASE ~kfile[f].linked
      BY <2>2
    <2>3. QED
      BY <2>1, <2>2
  <1> HIDE DEF end
  <1>4. x # end.path /\ ~(rw[end.path].ino # NoIno /\ rw[x].ino = rw[end.path].ino)
    BY <1>3 DEF SameFile
  <1>5. InodesShared(cd) /\ IsTree(cd) /\ cd \in Layer /\ \A q \in Paths : cd[q].ino = NoIno
    BY DEF TreeInv, Sound, Burnt, InodesShared
  <1>6. CASE UNCHANGED <<cd, rw>>
    BY <1>1, <1>6, SeenIsSeenOf
  <1>7. CASE /\ end # Nowhere /\ rw[end.path].kind = "reg"
             /\ rw' = SetData(rw, end.path, e) /\ cd' = cd
    <2>1. end.path \in Paths \ {<<>>} /\ Exists(rw[end.path])
      BY <1>2, <1>7 DEF TreeInv, Sound, IsTree, DirNode, Exists
    <2>2. N \in Layer /\ \A q \in Paths : N[q].kind = rw[q].kind
      BY <1>7, <2>1, SetDataTree DEF TreeInv, Sound
    <2>3. N[x] = rw[x]
      BY <1>4, <1>7 DEF SetData
    <2> HIDE DEF N
    <2>4. SeenOf(cd, N, wo, x) = SeenOf(cd, rw, wo, x)
      BY <2>2, <2>3, InvTypes, ContentsElsewhere
    <2>5. QED
      BY <1>1, <1>7, <2>4, SeenIsSeenOf DEF N
  <1>8. CASE /\ end # Nowhere /\ cd[end.path].kind = "reg"
             /\ cd' = SetData(cd, end.path, e) /\ rw' = rw
    <2>1. end.path \in Paths \ {<<>>} /\ Exists(cd[end.path])
      BY <1>2, <1>5, <1>8 DEF IsTree, DirNode, Exists
    <2>2. D \in Layer /\ \A q \in Paths : D[q].kind = cd[q].kind
      BY <1>5, <1>8, <2>1, SetDataTree
    <2>3. D[x] = cd[x]
      BY <1>2, <1>4, <1>5, <1>8 DEF SetData
    <2> HIDE DEF D
    <2>4. SeenOf(D, rw, wo, x) = SeenOf(cd, rw, wo, x)
      BY <2>2, <2>3, InvTypes, ContentsElsewhere
    <2>5. QED
      BY <1>1, <1>8, <2>4, SeenIsSeenOf DEF D
  <1>9. QED
    BY <1>1, <1>6, <1>7, <1>8

----------------------------------------------------------------------------
(***************************************************************************)
(* Names other than those of the request.                                  *)
(***************************************************************************)

\* Requests that change neither layer nor the whiteouts show nothing.
LEMMA QuietShows ==
    ASSUME UNCHANGED <<cd, rw, wo>>, NEW p \in Paths
    PROVE  Seen(p)' = Seen(p)
  BY SeenIsSeenOf

\* Every change of what users see is explained, one case for each request.
LEMMA NextExplained ==
    ASSUME TreeInv, [Next]_vars, NEW p \in Paths, Seen(p)' # Seen(p)
    PROVE  Explained(p)
  <1>1. CASE UNCHANGED vars
    BY <1>1, QuietShows DEF vars
  <1>2. ASSUME NEW n \in Paths, doStat(n) \/ doReadlink(n) PROVE Explained(p)
    BY <1>2, QuietShows DEF doStat, doReadlink
  <1>3. ASSUME NEW n \in Paths, doReaddir(n) PROVE Explained(p)
    BY <1>3, ReaddirShows
  <1>4. ASSUME NEW n \in Paths, doMkdir(n) \/ doRmdir(n) PROVE Explained(p)
    <2>1. n \in Above(p) \cup {p}
      BY <1>4, MkdirShows, RmdirShows, Ancestors
    <2>2. QED
      BY <1>4, <2>1 DEF Explained
  <1>5. ASSUME NEW n \in Paths, doUnlink(n) \/ doCreate(n) PROVE Explained(p)
    BY <1>5, UnlinkShows, CreateShows DEF Explained
  <1>6. ASSUME NEW n \in Paths, NEW shrink \in BOOLEAN, doSetattr(n, shrink)
        PROVE  Explained(p)
    <2>1. n = p \/ (shrink /\ SameFile(p, n))
      BY <1>6, SetattrShows
    <2>2. n = p => SameFile(p, n)
      BY DEF SameFile
    <2>3. CASE shrink
      BY <1>6, <2>1, <2>2, <2>3 DEF Explained
    <2>4. CASE ~shrink
      BY <1>6, <2>1, <2>4 DEF Explained
    <2>5. QED
      BY <2>3, <2>4
  <1>7. ASSUME NEW n \in Paths, NEW acc \in {"r", "w"}, NEW creat \in BOOLEAN,
               NEW trunc \in BOOLEAN, doOpen(n, acc, creat, trunc)
        PROVE  Explained(p)
    <2>1. ~((acc = "r" /\ ~creat) \/ p # n) \/ (trunc /\ SameFile(p, n))
      BY <1>7, OpenShows
    <2>2. n = p => SameFile(p, n)
      BY DEF SameFile
    <2>3. trunc => acc = "w"
      BY <1>7 DEF doOpen
    <2>4. CASE acc = "w"
      BY <1>7, <2>1, <2>2, <2>4 DEF Explained
    <2>5. CASE acc = "r"
      <3>1. creat = TRUE /\ trunc = FALSE /\ n = p
        BY <2>1, <2>3, <2>5
      <3>2. QED
        BY <1>7, <2>5, <3>1 DEF Explained
    <2>6. QED
      BY <2>4, <2>5
  <1>8. ASSUME NEW n \in Paths, NEW q \in Paths, doRename(n, q) \/ doLink(n, q)
        PROVE  Explained(p)
    <2>1. p = n \/ p = q
      BY <1>8, RenameShows, LinkShows
    <2>2. QED
      BY <1>8, <2>1 DEF Explained
  <1>9. ASSUME NEW n \in Paths, NEW text \in Texts, doSymlink(text, n) PROVE Explained(p)
    <2>1. p = n \/ p = text.path
      BY <1>9, SymlinkShows
    <2>2. QED
      BY <1>9, <2>1 DEF Explained
  <1>10. ASSUME NEW f \in Fds, doRelease(f) \/ doRead(f) PROVE Explained(p)
    BY <1>10, QuietShows DEF doRelease, doRead
  <1>11. ASSUME NEW f \in Fds, NEW d \in Data, doWrite(f, d) PROVE Explained(p)
    <2>1. SameFile(p, kfile[f].path) \/ (~kfile[f].linked /\ SameFile(p, Reopened(f).path))
      BY <1>11, WriteShows
    <2>2. QED
      BY <1>11, <2>1 DEF Explained
  <1>12. CASE Remount
    BY <1>12 DEF Explained
  <1>13. QED
    BY <1>1, <1>2, <1>3, <1>4, <1>5, <1>6, <1>7, <1>8, <1>9, <1>10, <1>11, <1>12 DEF Next

\* What a user sees under a name changes only by a request for that name, for a
\* directory above it, or for the file it is a name of: the directories made
\* and the files copied on the way show nowhere else.
THEOREM OnlyNamedChanges == Spec => OnlyNamedChange
  <1>1. TreeInv /\ [Next]_vars =>
            [\A p \in Paths : Seen(p)' # Seen(p) => Explained(p)]_vars
    BY NextExplained
  <1>2. QED
    BY InitTree, NextTree, <1>1, PTL DEF Spec, OnlyNamedChange

----------------------------------------------------------------------------
(***************************************************************************)
(* Where copies are faithful: the disk does not fill while copying, and    *)
(* the CD holds directories and regular files only.  (A link of the CD is  *)
(* copied as the file it leads to, a device as its content.)               *)
(***************************************************************************)
CopiesFaithful ==
    /\ ~DiskMayFill /\ Endless = {}
    /\ \A p \in Paths : /\ Image[p].kind \in {"absent", "dir", "reg"}
                        /\ Image[p].kind = "reg" => Image[p].to = NoText

\* What was made in rw_tmp looks like what the CD has under its name.
Alike(C, L, M) ==
    \A q \in Paths : M[q] = L[q] \/ (~Exists(L[q]) /\ Face(M[q]) = Face(C[q]))

\* One preparation after another.
LEMMA AlikeTwice ==
    ASSUME NEW C, NEW L, NEW M, NEW N, Alike(C, L, M), Alike(C, M, N), Grown(C, L, M)
    PROVE  Alike(C, L, N)
  BY DEF Alike, Grown

\* What is alike shows nothing.
LEMMA AlikeFaces ==
    ASSUME NEW C \in Layer, NEW L \in Layer, NEW M \in Layer, Alike(C, L, M), NEW w, NEW p \in Paths
    PROVE  FaceOf(C, M, w, p) = FaceOf(C, L, w, p)
  <1>1. /\ StatOf(C, L, w, p) = IF Hidden(w, p) THEN Absent ELSE IF Exists(L[p]) THEN L[p] ELSE C[p]
        /\ StatOf(C, M, w, p) = IF Hidden(w, p) THEN Absent ELSE IF Exists(M[p]) THEN M[p] ELSE C[p]
    BY FaceParts
  <1>2. M[p] = L[p] \/ (~Exists(L[p]) /\ Face(M[p]) = Face(C[p]))
    BY DEF Alike
  <1> HIDE DEF Face
  <1>3. QED
    BY <1>1, <1>2 DEF FaceOf

\* A request that only prepares rw_tmp, alike, shows nothing.
LEMMA AlikeShows ==
    ASSUME TreeInv, NEW M \in Layer, Alike(cd, rw, M), rw' = M, UNCHANGED <<cd, wo>>
    PROVE  View' = View
  <1>1. ASSUME NEW p \in Paths PROVE Seen(p)' = Seen(p)
    <2>1. \A q \in Prefixes(p) : FaceOf(cd, M, wo, q) = FaceOf(cd, rw, wo, q)
      BY InvTypes, AlikeFaces, PathsAssumption
    <2>2. SeenOf(cd, M, wo, p) = SeenOf(cd, rw, wo, p)
      BY <2>1, InvTypes, SameFaces
    <2>3. QED
      BY <2>2, SeenIsSeenOf
  <1>2. QED
    BY <1>1 DEF View

\* The directories made for a name are alike.
LEMMA MakeDirForAlike ==
    ASSUME CopiesFaithful, NEW C, NEW L, Sound(C, L), Burnt(C), NEW p \in Paths, ReachedDir(C, L, p)
    PROVE  Alike(C, L, MakeDirFor(C, L, p))
  <1> DEFINE M == MakeDirFor(C, L, p)
  <1>1. Grown(C, L, M) /\ OnlyAt(C, L, M, {p}) /\ (~IsDir(C, L, p) => M[p] = L[p])
    BY ReachedDirReached, MakeDirForGrows, MakeDirForOnly
  <1>2. \A q \in Paths : M[q] = L[q] \/ (~Exists(L[q]) /\ M[q] = DirNode)
    BY MakeDirForOnly, <1>1 DEF Grown
  <1> HIDE DEF M
  <1>3. \A q \in Paths : M[q] # L[q] => C[q].kind = "dir"
    <2>1. SUFFICES ASSUME M[p] # L[p] PROVE C[p].kind = "dir"
      BY <1>1 DEF OnlyAt
    <2>2. IsDir(C, L, p) /\ ~Exists(L[p])
      BY <1>1, <1>2, <2>1
    <2>3. MkPath(C, L, p) = C[p]
      BY <2>2 DEF MkPath, LayerOf, At
    <2>4. C[p].kind \in {"absent", "dir", "reg"}
      BY DEF CopiesFaithful, Burnt
    <2>5. QED
      BY <2>2, <2>3, <2>4 DEF IsDir, HasMode, ModeBits, Exists
  <1>4. \A q \in Paths : C[q].kind = "dir" => C[q] = DirNode
    BY ImageAssumption DEF Burnt
  <1>5. QED
    BY <1>2, <1>3, <1>4 DEF Alike, M

\* Copying up makes a copy that is alike.
LEMMA CopyUpAlike ==
    ASSUME CopiesFaithful, NEW C, NEW L, Sound(C, L), Burnt(C), NEW p \in Paths,
           ReachedDir(C, L, p), NEW M \in CopyUp(C, L, p)
    PROVE  Alike(C, L, M)
  <1> DEFINE L1 == MakeDirFor(C, L, p)
             src == Follow(C, L1, "root", p)
  <1>1. Alike(C, L, L1) /\ Grown(C, L, L1)
    BY MakeDirForAlike, ReachedDirReached, MakeDirForGrows
  <1>2. CASE M = L \/ M = L1
    BY <1>1, <1>2 DEF Alike
  <1>3. CASE M # L /\ M # L1
    <2>1. /\ ~Exists(L[p]) /\ CanCreate(L1, p) /\ src # Nowhere
          /\ \E d \in CopyOf(C, src.path) : M = NewFile(L1, p, d)
      BY <1>3 DEF CopyUp, CopyTmp
    <2>2. C[p].kind = "reg" /\ C[p].to = NoText
      <3>1. Exists(C[p])
        BY <2>1, FollowExists
      <3>2. C[p].kind # "dir"
        BY <2>1, NoFileOverDir
      <3>3. QED
        BY <3>1, <3>2 DEF Burnt, CopiesFaithful, Exists
    <2>3. src = [layer |-> "root", path |-> p]
      BY <2>1, <2>2 DEF Follow, At
    <2>4. M = NewFile(L1, p, C[p].data)
      <3>1. src.path = p
        BY <2>3
      <3>2. CopyOf(C, p) = {C[p].data}
        BY <2>2 DEF CopyOf, CopiesFaithful
      <3>3. QED
        BY <2>1, <3>1, <3>2
    <2> HIDE DEF L1, src
    <2>5. M[p] = File(NextIno(L1), C[p].data) /\ \A q \in Paths \ {p} : M[q] = L1[q]
      BY <2>4 DEF NewFile, Put
    <2>6. C[p] \in Node
      BY DEF Sound, Layer
    <2>7. Face(M[p]) = Face(C[p])
      BY <2>2, <2>5, <2>6 DEF Face, File, Node
    <2>8. QED
      BY <1>1, <2>1, <2>5, <2>7 DEF Alike
  <1>4. QED
    BY <1>2, <1>3

\* What doLinkAll prepares is alike.
LEMMA TargetAlike ==
    ASSUME CopiesFaithful, TreeInv, NEW l \in Paths, NEW t \in Paths, Walkable(l), NEW M \in Target(l, t)
    PROVE  Alike(cd, rw, M)
  <1> DEFINE L1 == MakeDirFor(cd, rw, l)
             L2 == MadeFor(l, t)
  <1>1. Grown(cd, rw, L1) /\ Sound(cd, L1) /\ Alike(cd, rw, L1) /\ Burnt(cd)
    BY WalkReachedDir, ReachedDirReached, MakeDirForGrows, MakeDirForAlike, GrowStep DEF TreeInv
  <1>2. L2 = IF Exists(MkPath(cd, L1, t)) /\ ~IsDir(cd, L1, t) THEN MakeDirFor(cd, L1, t) ELSE L1
    BY DEF MadeFor
  <1>3. Sound(cd, L2) /\ Grown(cd, rw, L2)
    BY MadeForGrows, GrowStep
  <1> HIDE DEF L1, L2
  <1>4. Alike(cd, rw, L2)
    <2>1. CASE Exists(MkPath(cd, L1, t)) /\ ~IsDir(cd, L1, t)
      <3>1. Exists(L1[t]) \/ Exists(cd[t])
        BY <2>1 DEF MkPath, LayerOf, At
      <3>2. ReachedDir(cd, L1, t)
        BY <1>1, <3>1, ExistsReachedDir DEF Sound
      <3>3. Alike(cd, L1, L2)
        BY <1>1, <1>2, <2>1, <3>2, MakeDirForAlike
      <3>4. QED
        BY <1>1, <3>3, AlikeTwice
    <2>2. CASE ~(Exists(MkPath(cd, L1, t)) /\ ~IsDir(cd, L1, t))
      BY <1>1, <1>2, <2>2
    <2>3. QED
      BY <2>1, <2>2
  <1>5. CASE Exists(cd[t])
    <2>1. M \in CopyUp(cd, L2, t)
      BY <1>5 DEF Target, L2
    <2>2. ReachedDir(cd, L2, t)
      BY <1>3, <1>5, ExistsReachedDir DEF Sound
    <2>3. Alike(cd, L2, M)
      BY <1>1, <1>3, <2>1, <2>2, CopyUpAlike
    <2>4. QED
      BY <1>3, <1>4, <2>3, AlikeTwice
  <1>6. CASE ~Exists(cd[t])
    BY <1>4, <1>6 DEF Target, L2
  <1>7. QED
    BY <1>5, <1>6

\* What doOpen makes before the file is opened is alike.
LEMMA ToOpenAlike ==
    ASSUME CopiesFaithful, TreeInv, NEW p \in Paths, Seen(p).kind = "reg",
           NEW acc, NEW creat \in BOOLEAN, NEW M \in ToOpen(p, acc, creat)
    PROVE  M \in Layer /\ Alike(cd, rw, M)
  <1>1. Grown(cd, rw, M) /\ ReachedDir(cd, rw, p)
    BY ToOpenGrows, WalkReachedDir, SeenKind
  <1>2. M = rw \/ M = MakeDirFor(cd, rw, p) \/ M \in CopyUp(cd, rw, p)
    BY DEF ToOpen
  <1>3. Alike(cd, rw, rw)
    BY DEF Alike
  <1>4. QED
    BY <1>1, <1>2, <1>3, MakeDirForAlike, CopyUpAlike DEF TreeInv, Grown

\* Copying a name up that users see is alike.
LEMMA SeenCopyAlike ==
    ASSUME CopiesFaithful, TreeInv, NEW p \in Paths, Walkable(p), NEW M \in CopyUp(cd, rw, p)
    PROVE  M \in Layer /\ Grown(cd, rw, M) /\ Alike(cd, rw, M)
  BY WalkReached, CopyUpGrows, WalkReachedDir, CopyUpAlike DEF TreeInv, Grown

\* A request that fails after preparations that are alike shows nothing.
LEMMA FailsAlike ==
    ASSUME TreeInv, NEW M \in Layer, Alike(cd, rw, M), Fails(M)
    PROVE  View' = View
  BY AlikeShows DEF Fails

\* Nothing shows where nothing changes.
LEMMA QuietView ==
    ASSUME UNCHANGED <<cd, rw, wo>>
    PROVE  View' = View
  BY QuietShows DEF View

\* An error shows nothing: one case for each request that may fail.
LEMMA NextErrors ==
    ASSUME CopiesFaithful, TreeInv, [Next]_vars, reply' = "ERROR", ~ \E d \in Paths : doRmdir(d)
    PROVE  View' = View
  <1>1. ASSUME NEW p \in Paths,
               \/ doStat(p) \/ doReadlink(p) \/ doReaddir(p) \/ doMkdir(p) \/ doUnlink(p)
        PROVE  View' = View
    BY <1>1, QuietView DEF doStat, doReadlink, doReaddir, doMkdir, doUnlink, Done, Fails
  <1>2. ASSUME NEW p \in Paths, doCreate(p) PROVE View' = View
    <2>1. Fails(MakeDirFor(cd, rw, p)) /\ Walkable(p)
      BY <1>2 DEF doCreate, Done, Negative
    <2>2. /\ Grown(cd, rw, MakeDirFor(cd, rw, p))
          /\ Alike(cd, rw, MakeDirFor(cd, rw, p))
      BY <2>1, WalkReachedDir, ReachedDirReached, MakeDirForGrows, MakeDirForAlike DEF TreeInv
    <2>3. QED
      BY <2>1, <2>2, FailsAlike DEF Grown
  <1>3. ASSUME NEW p \in Paths, NEW shrink \in BOOLEAN, doSetattr(p, shrink) PROVE View' = View
    <2>1. PICK M \in CopyUp(cd, rw, p) : Fails(M)
      BY <1>3 DEF doSetattr, Done, Hangs
    <2>2. Walkable(p)
      BY <1>3 DEF doSetattr, Present, Seen, Exists, Absent
    <2>3. QED
      BY <2>1, <2>2, SeenCopyAlike, FailsAlike
  <1>4. ASSUME NEW p \in Paths, NEW acc \in {"r", "w"}, NEW creat \in BOOLEAN,
               NEW trunc \in BOOLEAN, doOpen(p, acc, creat, trunc)
        PROVE  View' = View
    <2>1. PICK M \in ToOpen(p, acc, creat) : Fails(M)
      BY <1>4 DEF doOpen, Done
    <2>2. Seen(p).kind = "reg"
      BY <1>4 DEF doOpen
    <2>3. QED
      BY <2>1, <2>2, ToOpenAlike, FailsAlike
  <1>5. ASSUME NEW p \in Paths, NEW q \in Paths, doRename(p, q) PROVE View' = View
    <2>1. Fails(rw) \/ \E M \in CopyUp(cd, rw, p) : Fails(M)
      BY <1>5 DEF doRename, Done, Hangs
    <2>2. Walkable(p)
      BY <1>5 DEF doRename, Present, Seen, Exists, Absent
    <2>3. Alike(cd, rw, rw) /\ rw \in Layer
      BY InvTypes DEF Alike
    <2>4. QED
      BY <2>1, <2>2, <2>3, SeenCopyAlike, FailsAlike
  <1>6. ASSUME NEW t \in Paths, NEW l \in Paths, doLink(t, l) PROVE View' = View
    <2>1. PICK M \in Target(l, t) : Fails(M)
      BY <1>6 DEF doLink, Done, Hangs
    <2>2. Walkable(l)
      BY <1>6 DEF doLink, Negative
    <2>3. QED
      BY <2>1, <2>2, TargetAlike, TargetGrows, FailsAlike DEF Grown
  <1>7. ASSUME NEW text \in Texts, NEW l \in Paths, doSymlink(text, l) PROVE View' = View
    <2>1. Fails(rw) \/ \E M \in Target(l, text.path) : Fails(M)
      BY <1>7 DEF doSymlink, Done, Hangs
    <2>2. Walkable(l) /\ text.path \in Paths
      BY <1>7, RequestsAssumption DEF doSymlink, Negative
    <2>3. Alike(cd, rw, rw) /\ rw \in Layer
      BY InvTypes DEF Alike
    <2>4. QED
      BY <2>1, <2>2, <2>3, TargetAlike, TargetGrows, FailsAlike DEF Grown
  <1>8. ASSUME NEW f \in Fds, doRelease(f) \/ doRead(f) \/ \E d \in Data : doWrite(f, d)
        PROVE  View' = View
    BY <1>8, QuietView DEF doRelease, doRead, doWrite
  <1>9. CASE UNCHANGED vars
    BY <1>9, QuietView DEF vars
  <1>10. ~Remount
    BY DEF Remount
  <1>11. QED
    BY <1>1, <1>2, <1>3, <1>4, <1>5, <1>6, <1>7, <1>8, <1>9, <1>10 DEF Next

\* A request the daemon answers with an error, but for rmdir, has changed
\* nothing users can see, although it copies up before the step that fails.
THEOREM ErrorsAreInvisible ==
    ASSUME CopiesFaithful
    PROVE  Spec => ErrorsChangeNothing
  <1>1. TreeInv /\ [Next]_vars =>
            [\/ reply' # "ERROR"
             \/ \E d \in Paths : doRmdir(d)
             \/ View' = View]_vars
    BY NextErrors
  <1>2. QED
    BY InitTree, NextTree, <1>1, PTL DEF Spec, ErrorsChangeNothing

\* Requests that read, open what is there or set attributes show nothing.
LEMMA ReadersShowNothing ==
    ASSUME CopiesFaithful, TreeInv,
           \/ \E p \in Paths : \/ doReaddir(p) \/ doSetattr(p, FALSE)
                               \/ \E acc \in {"r", "w"} : doOpen(p, acc, FALSE, FALSE)
           \/ \E f \in Fds : doRead(f) \/ doRelease(f)
    PROVE  View' = View
  <1>1. ASSUME NEW p \in Paths, doReaddir(p) PROVE View' = View
    BY <1>1, ReaddirShows DEF View
  <1>2. ASSUME NEW p \in Paths, doSetattr(p, FALSE) PROVE View' = View
    <2>1. PICK M \in CopyUp(cd, rw, p) : rw' = M /\ UNCHANGED <<cd, wo>>
      BY <1>2 DEF doSetattr, Done, Hangs, Fails
    <2>2. Walkable(p)
      BY <1>2 DEF doSetattr, Present, Seen, Exists, Absent
    <2>3. QED
      BY <2>1, <2>2, SeenCopyAlike, AlikeShows
  <1>3. ASSUME NEW p \in Paths, NEW acc \in {"r", "w"}, doOpen(p, acc, FALSE, FALSE)
        PROVE  View' = View
    <2>1. PICK M \in ToOpen(p, acc, FALSE) : rw' = M /\ UNCHANGED <<cd, wo>>
      BY <1>3 DEF doOpen, Done, Fails
    <2>2. Seen(p).kind = "reg"
      BY <1>3 DEF doOpen
    <2>3. QED
      BY <2>1, <2>2, ToOpenAlike, AlikeShows
  <1>4. ASSUME NEW f \in Fds, doRead(f) \/ doRelease(f) PROVE View' = View
    BY <1>4, QuietView DEF doRead, doRelease
  <1>5. QED
    BY <1>1, <1>2, <1>3, <1>4

\* Copying up on opening or setting attributes, and the directories made on
\* listing, do not show.
THEOREM CopyingUpIsTransparent ==
    ASSUME CopiesFaithful
    PROVE  Spec => CopyUpTransparent
  <1>1. TreeInv /\ [Next]_vars =>
            [(\/ \E p \in Paths : \/ doReaddir(p) \/ doSetattr(p, FALSE)
                                  \/ \E acc \in {"r", "w"} : doOpen(p, acc, FALSE, FALSE)
              \/ \E f \in Fds : doRead(f) \/ doRelease(f))
              => View' = View]_vars
    BY ReadersShowNothing
  <1>2. QED
    BY InitTree, NextTree, <1>1, PTL DEF Spec, CopyUpTransparent

\* A rename that is done shows the file under its new name, and nothing under
\* the old one.
LEMMA RenameDone ==
    ASSUME CopiesFaithful, TreeInv, NEW old \in Paths, NEW new \in Paths, doRename(old, new),
           reply' = "OK"
    PROVE  Seen(new)' = Seen(old) /\ ~Present(old)'
  <1> DEFINE N == rw'
             w2 == wo'
  <1>1. ~IsDir(cd, rw, old)
    BY DEF doRename, Fails
  <1>2. PICK M \in CopyUp(cd, rw, old) :
            /\ CanRename(M, old, new) /\ cd' = cd
            /\ rw' = Renamed(M, old, new) /\ wo' \in HideOldShowNew(old, new)
    BY DEF doRename, Done, Hangs, Fails
  <1>3. /\ old # new /\ Walkable(old) /\ Walkable(new)
        /\ Stat(old).kind # "dir" /\ Stat(new).kind # "dir" /\ ~Hidden(wo, old)
    BY <1>1, RenameBefore
  <1>4. /\ M \in Layer /\ Grown(cd, rw, M) /\ Alike(cd, rw, M) /\ M[old].kind # "dir"
    BY <1>1, <1>3, RenameBefore, SeenCopyAlike, WalkReached, CopyUpGrows DEF TreeInv
  <1>5. cd \in Layer /\ IsTree(M) /\ InodesShared(M)
    BY <1>4, InvTypes DEF Grown
  <1>6. /\ N \in Layer /\ N[new] = M[old]
        /\ \A q \in Paths \ {old, new} : N[q] = M[q]
    BY <1>1, <1>2, <1>4, <1>5, RenameBefore, RenamedTree
  <1>7. /\ ~Hidden(w2, new) /\ Hidden(w2, old)
        /\ \A q \in Paths \ {old, new} : Hidden(w2, q) <=> Hidden(wo, q)
    BY <1>2, <1>3, HideOldShowNewHides
  <1> HIDE DEF N, w2
  <1>8. FaceOf(cd, N, w2, new) = FaceOf(cd, rw, wo, old)
    <2>1. Exists(M[old])
      BY <1>2 DEF CanRename
    <2>2. StatOf(cd, N, w2, new) = StatOf(cd, M, wo, old)
      BY <1>3, <1>4, <1>5, <1>6, <1>7, <2>1, FaceParts
    <2>3. FaceOf(cd, M, wo, old) = FaceOf(cd, rw, wo, old)
      BY <1>4, InvTypes, AlikeFaces
    <2>4. QED
      BY <2>2, <2>3 DEF FaceOf
  <1>9. WalkOf(cd, N, w2, new)
    <2>1. ASSUME NEW q \in Above(new) PROVE StatOf(cd, N, w2, q).kind = "dir"
      <3>1. q \in Paths /\ Stat(q).kind = "dir" /\ q \notin {old, new}
        BY <1>3, <2>1, Ancestors DEF Walkable
      <3>2. StatOf(cd, M, wo, q).kind = "dir"
        BY <1>4, <3>1, SeenIsSeenOf, GrownShows
      <3>3. N[q] = M[q] /\ (Hidden(w2, q) <=> Hidden(wo, q))
        BY <1>6, <1>7, <3>1
      <3>4. QED
        BY <1>4, <1>5, <1>6, <3>1, <3>2, <3>3, FaceParts
    <2>2. QED
      BY <2>1 DEF WalkOf
  <1>10. SeenOf(cd, N, w2, new) = SeenOf(cd, rw, wo, old)
    <2>1. WalkOf(cd, rw, wo, old)
      BY <1>3, SeenIsSeenOf
    <2>2. QED
      BY <1>5, <1>6, <1>8, <1>9, <2>1, InvTypes, FaceParts
  <1>11. ~Exists(SeenOf(cd, N, w2, old))
    <2>1. StatOf(cd, N, w2, old) = Absent
      BY <1>5, <1>6, <1>7, FaceParts
    <2>2. QED
      BY <2>1, <1>5, <1>6, SeenParts DEF Exists, Absent
  <1>12. QED
    BY <1>2, <1>10, <1>11, SeenIsSeenOf DEF N, w2, Present

\* A rename reported done has moved what was seen, even off the CD.
THEOREM RenamesMove ==
    ASSUME CopiesFaithful
    PROVE  Spec => RenameMoves
  <1>1. TreeInv /\ [Next]_vars =>
            [\A p, q \in Paths : (doRename(p, q) /\ reply' = "OK") =>
                Seen(q)' = Seen(p) /\ ~Present(p)']_vars
    BY RenameDone
  <1>2. QED
    BY InitTree, NextTree, <1>1, PTL DEF Spec, RenameMoves

----------------------------------------------------------------------------
(***************************************************************************)
(* Two layers look like one tree: each request is the system call it is    *)
(* for, made to UnionView's tree (Promised in LiveCDFSProperties).         *)
(***************************************************************************)

\* What the view and the links are of one name.
LEMMA SeenIn ==
    ASSUME NEW p \in Paths
    PROVE  /\ View[p] = Seen(p) /\ View'[p] = Seen(p)'
           /\ Links[p] = {q \in Paths : Present(p) /\ Present(q) /\ SameFile(p, q)}
           /\ Links'[p] = {q \in Paths : Present(p)' /\ Present(q)' /\ SameFile(p, q)'}
  BY DEF View, Links

\* What the names and nodes of the promised tree are here.
LEMMA PromisedNames ==
    ASSUME NEW p \in Paths
    PROVE  /\ Promised!Above(p) = Above(p)
           /\ Promised!Below(p) = {q \in Paths : p \in Prefixes(q)}
           /\ Promised!Exists(p) <=> Present(p)
           /\ Promised!IsFile(p) <=> Seen(p).kind \notin {"absent", "dir"}
           /\ Promised!Reachable(p) <=> \A q \in Above(p) : Seen(q).kind = "dir"
  <1>1. \A q : Promised!Prefixes(q) = Prefixes(q)
    BY DEF Promised!Prefixes, Prefixes
  <1>2. Promised!Above(p) = Above(p) /\ Above(p) \subseteq Paths
    BY <1>1, Ancestors DEF Promised!Above, Above
  <1>3. \A q \in Paths : View[q] = Seen(q)
    BY SeenIn
  <1>4. QED
    BY <1>1, <1>2, <1>3 DEF Promised!Below, Promised!Exists, Promised!IsFile, Promised!Reachable,
        Present, Exists

\* Two names of one file of a layer.
Shares(L, p, q) == L[p].ino # NoIno /\ L[p].ino = L[q].ino

\* M has the hard links that L has.
Linked(L, M) == \A p, q \in Paths : p # q => (Shares(M, p, q) <=> Shares(L, p, q))

\* Where nothing is seen, the node seen is Absent.
LEMMA NothingSeen ==
    ASSUME NEW C \in Layer, NEW L \in Layer, Burnt(C), NEW w, NEW p \in Paths,
           ~Exists(SeenOf(C, L, w, p))
    PROVE  SeenOf(C, L, w, p) = Absent
  <1>1. CASE ~WalkOf(C, L, w, p)
    BY <1>1, FaceParts
  <1>2. CASE WalkOf(C, L, w, p)
    <2>1. ~Exists(StatOf(C, L, w, p)) /\ SeenOf(C, L, w, p) = FaceOf(C, L, w, p)
      BY <1>2, FaceParts DEF Exists
    <2>2. ~Exists(C[p]) => C[p] = Absent
      BY ImageAssumption DEF Burnt, Exists
    <2>3. StatOf(C, L, w, p) = Absent
      BY <2>1, <2>2, FaceParts
    <2>4. QED
      BY <2>1, <2>3 DEF FaceOf, Face, Absent
  <1>3. QED
    BY <1>1, <1>2

\* A name has been walked to when all above it are seen as directories; what
\* is seen at all is such a name.
LEMMA WalkSeen ==
    ASSUME NEW C \in Layer, NEW L \in Layer, NEW w, NEW p \in Paths
    PROVE  /\ WalkOf(C, L, w, p) <=> \A q \in Above(p) : SeenOf(C, L, w, q).kind = "dir"
           /\ Exists(SeenOf(C, L, w, p)) => WalkOf(C, L, w, p)
  <1>1. ASSUME WalkOf(C, L, w, p), NEW q \in Above(p)
        PROVE  SeenOf(C, L, w, q).kind = "dir"
    <2>1. q \in Paths /\ StatOf(C, L, w, q).kind = "dir" /\ Above(q) \subseteq Above(p)
      BY <1>1, Ancestors DEF WalkOf
    <2>2. WalkOf(C, L, w, q)
      BY <1>1, <2>1 DEF WalkOf
    <2>3. QED
      BY <2>1, <2>2, SeenParts
  <1>2. ASSUME \A q \in Above(p) : SeenOf(C, L, w, q).kind = "dir"
        PROVE  WalkOf(C, L, w, p)
    <2>1. \A q \in Above(p) : q \in Paths /\ StatOf(C, L, w, q).kind = "dir"
      BY <1>2, SeenParts, Ancestors
    <2>2. QED
      BY <2>1 DEF WalkOf
  <1>3. Exists(SeenOf(C, L, w, p)) => WalkOf(C, L, w, p)
    BY SeenParts DEF Exists
  <1>4. QED
    BY <1>1, <1>2, <1>3

\* After preparations that are alike, a request that ends at names T shows at
\* these names only.
LEMMA EndShowsAlike ==
    ASSUME TreeInv, NEW M \in Layer, Alike(cd, rw, M), NEW T \in SUBSET Paths, Ends(M, T),
           NEW p \in Paths \ T
    PROVE  Seen(p)' = Seen(p)
  <1> DEFINE N == rw'
             w2 == wo'
  <1>1. /\ cd \in Layer /\ rw \in Layer /\ N \in Layer
        /\ \A q \in Paths \ T : N[q] = M[q] /\ (Hidden(w2, q) <=> Hidden(wo, q))
        /\ \A q \in T : StatOf(cd, M, wo, q).kind # "dir" /\ StatOf(cd, N, w2, q).kind # "dir"
        /\ cd' = cd
    BY InvTypes DEF Ends
  <1> HIDE DEF N, w2
  <1>2. \A q \in Paths : FaceOf(cd, M, wo, q) = FaceOf(cd, rw, wo, q)
    BY <1>1, AlikeFaces
  <1>3. ASSUME NEW q \in Paths \ T
        PROVE  FaceOf(cd, N, w2, q) = FaceOf(cd, rw, wo, q)
    <2>1. N[q] = M[q] /\ (Hidden(w2, q) <=> Hidden(wo, q))
      BY <1>1
    <2>2. StatOf(cd, N, w2, q) = StatOf(cd, M, wo, q)
      BY <1>1, <2>1, FaceParts
    <2>3. QED
      BY <1>2, <2>2 DEF FaceOf
  <1>4. \A q \in T : StatOf(cd, rw, wo, q).kind # "dir"
    BY <1>1, <1>2, FaceParts
  <1>5. SeenOf(cd, N, w2, p) = SeenOf(cd, rw, wo, p)
    BY <1>1, <1>3, <1>4, ChangesAt
  <1>6. QED
    BY <1>1, <1>5, SeenIsSeenOf DEF N, w2

\* Preparations that are alike and link nothing, whatever is done to the list
\* of whiteouts that hides the same names, are no step for users.
LEMMA PreparedSame ==
    ASSUME TreeInv, NEW M \in Layer, Alike(cd, rw, M), Linked(rw, M), rw' = M, cd' = cd,
           \A q \in Paths : Hidden(wo', q) <=> Hidden(wo, q)
    PROVE  Promised!Same
  <1>1. ASSUME NEW p \in Paths PROVE Seen(p)' = Seen(p)
    <2>1. Ends(M, {})
      BY DEF Ends
    <2>2. QED
      BY <2>1, EndShowsAlike
  <1>2. \A p, q \in Paths : SameFile(p, q)' <=> SameFile(p, q)
    BY DEF SameFile, Linked, Shares
  <1>3. View' = View
    BY <1>1 DEF View
  <1>4. Links' = Links
    BY <1>1, <1>2 DEF Links, Present
  <1>5. QED
    BY <1>3, <1>4 DEF Promised!Same

\* A layer links what it links.
LEMMA LinkedSame ==
    ASSUME NEW L
    PROVE  Linked(L, L) /\ \A M, N : Linked(L, M) /\ Linked(M, N) => Linked(L, N)
  BY DEF Linked

\* Making directories links nothing.
LEMMA DirsLinked ==
    ASSUME NEW L, InodesShared(L), NEW M,
           \A q \in Paths : M[q] = L[q] \/ (~Exists(L[q]) /\ M[q] = DirNode)
    PROVE  Linked(L, M)
  <1>1. \A q \in Paths : M[q].ino = L[q].ino
    <2>1. \A q \in Paths : ~Exists(L[q]) => L[q].ino = NoIno
      BY DEF InodesShared, Exists
    <2>2. QED
      BY <2>1 DEF DirNode
  <1>2. QED
    BY <1>1 DEF Linked, Shares

\* Nor does making the directory for a name.
LEMMA MakeDirForLinked ==
    ASSUME NEW C, NEW L, Sound(C, L), NEW p \in Paths, ReachedDir(C, L, p)
    PROVE  Linked(L, MakeDirFor(C, L, p))
  <1> DEFINE M == MakeDirFor(C, L, p)
  <1>1. \A q \in Paths : M[q] # L[q] => M[q] = DirNode
    BY MakeDirForOnly
  <1>2. Grown(C, L, M)
    BY ReachedDirReached, MakeDirForGrows
  <1> HIDE DEF M
  <1>3. \A q \in Paths : M[q] = L[q] \/ (~Exists(L[q]) /\ M[q] = DirNode)
    BY <1>1, <1>2 DEF Grown
  <1>4. QED
    BY <1>3, DirsLinked DEF Sound, M

\* A new file is linked to nothing.
LEMMA NewFileLinked ==
    ASSUME NEW L, InodesShared(L), NEW p \in Paths, NEW d, CanCreate(L, p)
    PROVE  Linked(L, NewFile(L, p, d))
  <1> DEFINE M == NewFile(L, p, d)
  <1>1. /\ M[p].ino = NextIno(L) /\ \A q \in Paths \ {p} : M[q] = L[q]
    BY DEF NewFile, Put, File
  <1>2. \A q \in Paths : L[q].ino # NextIno(L)
    BY DEF CanCreate, NextIno, FreeInodes
  <1>3. L[p].ino = NoIno
    BY DEF CanCreate, CanAdd, InodesShared, Exists
  <1> HIDE DEF M
  <1>4. QED
    BY <1>1, <1>2, <1>3 DEF Linked, Shares, M

\* Copying up links nothing.
LEMMA CopyUpLinked ==
    ASSUME NEW C, NEW L, Sound(C, L), NEW p \in Paths, ReachedDir(C, L, p), NEW M \in CopyUp(C, L, p)
    PROVE  Linked(L, M)
  <1> DEFINE L1 == MakeDirFor(C, L, p)
  <1>1. Linked(L, L1) /\ InodesShared(L1)
    BY MakeDirForLinked, ReachedDirReached, MakeDirForGrows DEF Grown
  <1>2. M = L \/ M = L1 \/ (CanCreate(L1, p) /\ \E d : M = NewFile(L1, p, d))
    BY DEF CopyUp, CopyTmp
  <1> HIDE DEF L1
  <1>3. QED
    BY <1>1, <1>2, NewFileLinked, LinkedSame

\* Nor does what doLinkAll prepares.
LEMMA TargetLinked ==
    ASSUME TreeInv, NEW l \in Paths, NEW t \in Paths, Walkable(l), NEW M \in Target(l, t)
    PROVE  Linked(rw, M)
  <1> DEFINE L1 == MakeDirFor(cd, rw, l)
             L2 == MadeFor(l, t)
  <1>1. Sound(cd, L1) /\ Linked(rw, L1)
    BY WalkReachedDir, ReachedDirReached, MakeDirForGrows, MakeDirForLinked, GrowStep DEF TreeInv
  <1>2. L2 = IF Exists(MkPath(cd, L1, t)) /\ ~IsDir(cd, L1, t) THEN MakeDirFor(cd, L1, t) ELSE L1
    BY DEF MadeFor
  <1>3. Sound(cd, L2)
    BY MadeForGrows, GrowStep
  <1> HIDE DEF L1, L2
  <1>4. Linked(rw, L2)
    <2>1. CASE Exists(MkPath(cd, L1, t)) /\ ~IsDir(cd, L1, t)
      <3>1. Exists(L1[t]) \/ Exists(cd[t])
        BY <2>1 DEF MkPath, LayerOf, At
      <3>2. ReachedDir(cd, L1, t)
        BY <1>1, <3>1, ExistsReachedDir DEF Sound
      <3>3. Linked(L1, L2)
        BY <1>1, <1>2, <2>1, <3>2, MakeDirForLinked
      <3>4. QED
        BY <1>1, <3>3, LinkedSame
    <2>2. CASE ~(Exists(MkPath(cd, L1, t)) /\ ~IsDir(cd, L1, t))
      BY <1>1, <1>2, <2>2
    <2>3. QED
      BY <2>1, <2>2
  <1>5. CASE Exists(cd[t])
    <2>1. M \in CopyUp(cd, L2, t)
      BY <1>5 DEF Target, L2
    <2>2. ReachedDir(cd, L2, t)
      BY <1>3, <1>5, ExistsReachedDir DEF Sound
    <2>3. Linked(L2, M)
      BY <1>3, <2>1, <2>2, CopyUpLinked
    <2>4. QED
      BY <1>4, <2>3, LinkedSame
  <1>6. CASE ~Exists(cd[t])
    BY <1>4, <1>6 DEF Target, L2
  <1>7. QED
    BY <1>5, <1>6

\* Where copies are faithful the loop of copyTmp ends.
LEMMA NoHang ==
    ASSUME CopiesFaithful, TreeInv
    PROVE  /\ \A p \in Paths : ~CopyUpHangs(cd, rw, p)
           /\ \A l, t \in Paths : Walkable(l) => ~TargetHangs(l, t)
  <1>1. ASSUME NEW p \in Paths, cd[p].kind # "dir", Follow(cd, rw, "root", p).layer = "root",
               NeverEnds(cd, Follow(cd, rw, "root", p).path)
        PROVE  FALSE
    <2>1. cd[p].kind # "lnk"
      BY DEF CopiesFaithful, TreeInv, Burnt
    <2>2. Follow(cd, rw, "root", p) = [layer |-> "root", path |-> p]
      BY <1>1, <2>1 DEF Follow, At, Nowhere
    <2>3. NeverEnds(cd, p)
      BY <1>1, <2>2
    <2>4. cd[p].kind \in {"absent", "dir", "reg"}
      BY DEF CopiesFaithful, TreeInv, Burnt
    <2>5. QED
      BY <1>1, <2>3, <2>4 DEF NeverEnds, CopiesFaithful
  <1>2. ASSUME NEW p \in Paths, CopyUpHangs(cd, rw, p) PROVE FALSE
    <2>1. CopyUp(cd, rw, p) # {}
      BY <1>2, DataAssumption DEF CopyUpHangs, CopyHangs, CopyUp, CopyTmp, CopyOf
    <2>2. Grown(cd, rw, rw)
      BY GrownSame DEF TreeInv, Sound
    <2>3. QED
      BY <1>1, <1>2, <2>1, <2>2, HangsThere
  <1>3. ASSUME NEW l \in Paths, NEW t \in Paths, Walkable(l), TargetHangs(l, t) PROVE FALSE
    <2>1. Target(l, t) # {}
      BY <1>3, DataAssumption DEF TargetHangs, CopyUpHangs, CopyHangs, Target, CopyUp, CopyTmp, CopyOf
    <2>2. QED
      BY <1>1, <1>3, <2>1, TargetHangsThere
  <1>4. QED
    BY <1>2, <1>3

\* The kernel has walked to a name: users see directories above it.
LEMMA WalkPromised ==
    ASSUME TreeInv, NEW p \in Paths
    PROVE  /\ Walkable(p) => Promised!Reachable(p)
           /\ Present(p) => Walkable(p)
           /\ Negative(p) => /\ Promised!Free(p) /\ Walkable(p)
                             /\ ~Present(p) /\ ~Exists(Stat(p)) /\ p # <<>>
  <1>1. Above(p) \subseteq Paths
    BY Ancestors
  <1>2. /\ Walkable(p) => \A q \in Above(p) : Seen(q).kind = "dir"
        /\ Present(p) => Walkable(p)
    BY <1>1, SeenIsSeenOf, WalkSeen, InvTypes DEF Present
  <1>3. Negative(p) => ~Present(p)
    BY SeenKind DEF Negative, Present, Exists
  <1>4. QED
    BY <1>2, <1>3, PromisedNames DEF Promised!Free, Negative

\* What is seen of a name above which directories are seen.
LEMMA FaceSeen ==
    ASSUME NEW C \in Layer, NEW L \in Layer, NEW w, NEW p \in Paths,
           \A q \in Above(p) : SeenOf(C, L, w, q).kind = "dir"
    PROVE  SeenOf(C, L, w, p) = FaceOf(C, L, w, p)
  BY WalkSeen, FaceParts

\* A request that, after preparations that do not show, makes a file or a link
\* where nothing was seen: the new name is one more name of what its node says.
LEMMA AddKeeps ==
    ASSUME TreeInv, NEW M, Grown(cd, rw, M), Alike(cd, rw, M), Linked(rw, M),
           NEW n \in Paths, Negative(n), ~Exists(M[n]),
           rw' \in Layer, \A q \in Paths \ {n} : rw'[q] = M[q], rw'[n].kind \in {"reg", "lnk"},
           cd' = cd, wo' \in Show(n)
    PROVE  /\ View' = [View EXCEPT ![n] = Face(rw'[n])]
           /\ Links' = [p \in Paths |->
                IF p = n THEN {n} \cup {q \in Paths \ {n} : Present(q) /\ Shares(rw', n, q)}
                ELSE IF Present(p) /\ Shares(rw', n, p) THEN Links[p] \cup {n} ELSE Links[p]]
  <1> DEFINE N == rw'
             w2 == wo'
             T == {n}
  <1>1. /\ cd \in Layer /\ M \in Layer /\ N \in Layer /\ N[n].kind \in {"reg", "lnk"}
        /\ \A q \in Paths \ {n} : N[q] = M[q]
    BY InvTypes DEF Grown
  <1>2. \A q : Hidden(w2, q) <=> IF q = n THEN FALSE ELSE Hidden(wo, q)
    BY InvTypes, VisibleHides
  <1>3. Walkable(n) /\ ~Present(n) /\ ~Exists(Stat(n))
    BY WalkPromised
  <1> HIDE DEF N, w2
  <1>4. StatOf(cd, M, wo, n).kind # "dir"
    <2>1. StatOf(cd, M, wo, n) = IF Hidden(wo, n) THEN Absent ELSE cd[n]
      BY <1>1, FaceParts
    <2>2. ~Exists(rw[n])
      BY DEF Grown
    <2>3. ~Hidden(wo, n) => ~Exists(cd[n])
      BY <1>3, <2>2, SeenKind
    <2>4. QED
      BY <2>1, <2>3 DEF Exists, Absent
  <1>5. StatOf(cd, N, w2, n) = N[n]
    BY <1>1, <1>2, FaceParts DEF Exists
  <1>6. \A p \in Paths \ {n} : Seen(p)' = Seen(p)
    <2>1. T \in SUBSET Paths /\ Ends(M, T)
      BY <1>1, <1>2, <1>4, <1>5 DEF N, w2, Ends
    <2> HIDE DEF T
    <2>2. \A p \in Paths \ T : Seen(p)' = Seen(p)
      BY <1>1, <2>1, EndShowsAlike
    <2>3. QED
      BY <2>2 DEF T
  <1>7. Seen(n)' = Face(N[n])
    <2>1. \A q \in Above(n) : q \in Paths \ {n} /\ Seen(q).kind = "dir"
      BY <1>3, Ancestors, WalkPromised, PromisedNames
    <2>2. \A q \in Above(n) : SeenOf(cd, N, w2, q).kind = "dir"
      BY <1>6, <2>1, SeenIsSeenOf DEF N, w2
    <2>3. SeenOf(cd, N, w2, n) = FaceOf(cd, N, w2, n)
      BY <1>1, <2>2, FaceSeen
    <2>4. QED
      BY <1>5, <2>3, SeenIsSeenOf DEF N, w2, FaceOf
  <1>8. View' = [View EXCEPT ![n] = Face(N[n])]
    BY <1>6, <1>7 DEF View
  <1>9. /\ Present(n)' /\ \A p \in Paths \ {n} : Present(p)' <=> Present(p)
    BY <1>1, <1>6, <1>7 DEF Present, Exists, Face, Layer, Node
  <1>10. \A p, q \in Paths \ {n} : SameFile(p, q)' <=> SameFile(p, q)
    BY <1>1 DEF SameFile, Linked, Shares, N
  <1>11. \A p \in Paths \ {n} : /\ SameFile(p, n)' <=> Shares(N, n, p)
                                /\ SameFile(n, p)' <=> Shares(N, n, p)
    BY DEF SameFile, Shares, N
  <1>12. \A p \in Paths : n \notin Links[p]
    BY <1>3 DEF Links
  <1>13. ASSUME NEW p \in Paths
         PROVE  Links'[p] = IF p = n THEN {n} \cup {q \in Paths \ {n} : Present(q) /\ Shares(N, n, q)}
                            ELSE IF Present(p) /\ Shares(N, n, p) THEN Links[p] \cup {n} ELSE Links[p]
    <2>1. Links'[p] = {q \in Paths : Present(p)' /\ Present(q)' /\ SameFile(p, q)'}
      BY SeenIn
    <2>2. CASE p = n
      <3>1. SameFile(n, n)'
        BY DEF SameFile
      <3>2. QED
        BY <1>9, <1>11, <2>1, <2>2, <3>1
    <2>3. CASE p # n
      <3>1. Links[p] = {q \in Paths : Present(p) /\ Present(q) /\ SameFile(p, q)}
        BY SeenIn
      <3>2. QED
        BY <1>9, <1>10, <1>11, <1>12, <2>1, <2>3, <3>1
    <2>4. QED
      BY <2>2, <2>3
  <1>14. QED
    BY <1>8, <1>13 DEF Links, N

----------------------------------------------------------------------------
(***************************************************************************)
(* Each request does what is promised of its system call.                  *)
(***************************************************************************)

\* Nothing shows, and nothing was linked.
LEMMA SameByParts ==
    ASSUME View' = View, Linked(rw, rw')
    PROVE  Promised!Same
  <1>1. \A p \in Paths : Seen(p)' = Seen(p)
    BY SeenIn
  <1>2. \A p, q \in Paths : SameFile(p, q)' <=> SameFile(p, q)
    BY DEF SameFile, Linked, Shares
  <1>3. Links' = Links
    BY <1>1, <1>2 DEF Links, Present
  <1>4. QED
    BY <1>3 DEF Promised!Same

\* A request that fails after preparations that do not show.
LEMMA FailsPromised ==
    ASSUME TreeInv, NEW M \in Layer, Alike(cd, rw, M), Linked(rw, M), Fails(M)
    PROVE  Promised!Fails
  BY PreparedSame DEF Fails, Promised!Fails

\* Where nothing is done.
LEMMA QuietPromised ==
    ASSUME UNCHANGED <<cd, rw, wo>>
    PROVE  Promised!Same
  BY QuietView, SameByParts, LinkedSame

\* Copying up what users see.
LEMMA SeenCopyLinked ==
    ASSUME CopiesFaithful, TreeInv, NEW p \in Paths, Walkable(p), NEW M \in CopyUp(cd, rw, p)
    PROVE  Linked(rw, M) /\ M \in Layer /\ Grown(cd, rw, M) /\ Alike(cd, rw, M)
  BY WalkReachedDir, CopyUpLinked, SeenCopyAlike DEF TreeInv

----------------------------------------------------------------------------
(***************************************************************************)
(* The daemon makes directories, files and links in rw_tmp, and the files  *)
(* have inodes.                                                            *)
(***************************************************************************)
Made == {"absent", "dir", "reg", "lnk"}
Numbered(L) ==
    \A p \in Paths : L[p].kind \in Made /\ (L[p].kind = "reg" => L[p].ino # NoIno)

\* A free inode is one.
LEMMA NextInode ==
    ASSUME NEW L, NEW p, CanCreate(L, p)
    PROVE  NextIno(L) # NoIno
  <1>1. NextIno(L) \in FreeInodes(L)
    BY DEF CanCreate, NextIno
  <1>2. QED
    BY <1>1, DataAssumption DEF FreeInodes

\* What is done to a layer numbers the files it makes.
LEMMA ChangesNumbered ==
    ASSUME NEW L, Numbered(L), NEW p \in Paths
    PROVE  /\ \A q : Numbered(RecurseMkdir(L, q))
           /\ \A n : n.kind \in Made /\ (n.kind = "reg" => n.ino # NoIno) => Numbered(Put(L, p, n))
           /\ \A d : CanCreate(L, p) => Numbered(NewFile(L, p, d))
           /\ L \in Layer => \A d : Numbered(SetData(L, p, d))
           /\ \A q \in Paths : Numbered(Renamed(L, p, q))
  <1>1. \A q : Numbered(RecurseMkdir(L, q))
    BY DEF Numbered, RecurseMkdir, DirNode, Made
  <1>2. \A n : n.kind \in Made /\ (n.kind = "reg" => n.ino # NoIno) => Numbered(Put(L, p, n))
    BY DEF Numbered, Put
  <1>3. \A d : CanCreate(L, p) => Numbered(NewFile(L, p, d))
    BY NextInode DEF Numbered, NewFile, Put, File, Made
  <1>4. ASSUME L \in Layer, NEW d PROVE Numbered(SetData(L, p, d))
    <2>1. \A q \in Paths : /\ [L[q] EXCEPT !.data = d].kind = L[q].kind
                           /\ [L[q] EXCEPT !.data = d].ino = L[q].ino
      BY <1>4 DEF Layer, Node
    <2>2. QED
      BY <2>1 DEF Numbered, SetData
  <1>5. ASSUME NEW q \in Paths PROVE Numbered(Renamed(L, p, q))
    BY DEF Numbered, Renamed, Put, Absent, Made
  <1>6. QED
    BY <1>1, <1>2, <1>3, <1>4, <1>5

\* So do the preparations.
LEMMA PrepareNumbered ==
    ASSUME NEW C, NEW L, Numbered(L), NEW p \in Paths
    PROVE  /\ Numbered(MakeDirFor(C, L, p))
           /\ \A M \in CopyUp(C, L, p) : Numbered(M)
  <1>1. Numbered(MakeDirFor(C, L, p))
    BY ChangesNumbered DEF MakeDirFor
  <1> DEFINE L1 == MakeDirFor(C, L, p)
  <1>2. \A M \in CopyUp(C, L, p) : M = L \/ M = L1 \/ (CanCreate(L1, p) /\ \E d : M = NewFile(L1, p, d))
    BY DEF CopyUp, CopyTmp
  <1> HIDE DEF L1
  <1>3. QED
    BY <1>1, <1>2, ChangesNumbered DEF L1

\* And so does doLinkAll.
LEMMA TargetNumbered ==
    ASSUME Numbered(rw), NEW l \in Paths, NEW t \in Paths, NEW M \in Target(l, t)
    PROVE  Numbered(M)
  <1>1. Numbered(MadeFor(l, t))
    BY PrepareNumbered DEF MadeFor
  <1>2. QED
    BY <1>1, PrepareNumbered DEF Target

\* Every request keeps them numbered.
LEMMA NextNumbered ==
    ASSUME TreeInv, Numbered(rw), [Next]_vars
    PROVE  Numbered(rw')
  <1>1. rw \in Layer
    BY InvTypes
  <1>2. ASSUME NEW p \in Paths, doStat(p) \/ doReadlink(p) \/ doReaddir(p)
        PROVE  Numbered(rw')
    BY <1>2, ChangesNumbered DEF doStat, doReadlink, doReaddir, Done
  <1>3. ASSUME NEW p \in Paths, doMkdir(p) \/ doRmdir(p) \/ doUnlink(p)
        PROVE  Numbered(rw')
    <2>1. rw' = rw \/ rw' = Put(rw, p, DirNode) \/ rw' = Put(rw, p, Absent)
      BY <1>3 DEF doMkdir, doRmdir, doUnlink, Done, Fails
    <2>2. QED
      BY <2>1, ChangesNumbered DEF DirNode, Absent, Made
  <1>4. ASSUME NEW p \in Paths, doCreate(p) PROVE Numbered(rw')
    BY <1>4, PrepareNumbered, ChangesNumbered DEF doCreate, Done, Fails
  <1>5. ASSUME NEW p \in Paths, NEW shrink \in BOOLEAN, doSetattr(p, shrink)
        PROVE  Numbered(rw')
    <2>1. PICK M \in CopyUp(cd, rw, p) : rw' = M \/ rw' = SetData(M, p, Empty)
      BY <1>5 DEF doSetattr, Done, Fails, Hangs
    <2>2. M \in Layer
      BY <1>1, CopyUpType, InvTypes
    <2>3. QED
      BY <2>1, <2>2, PrepareNumbered, ChangesNumbered
  <1>6. ASSUME NEW p \in Paths, NEW acc \in {"r", "w"}, NEW creat \in BOOLEAN,
               NEW trunc \in BOOLEAN, doOpen(p, acc, creat, trunc)
        PROVE  Numbered(rw')
    <2>1. PICK M \in ToOpen(p, acc, creat) :
             \/ CanCreate(M, p) /\ rw' = NewFile(M, p, Empty)
             \/ rw' = SetData(M, p, Empty)
             \/ rw' = M
      BY <1>6 DEF doOpen, Done, Fails
    <2>2. Numbered(M) /\ M \in Layer
      BY <1>1, PrepareNumbered, CopyUpType, RecurseMkdirType, InvTypes DEF ToOpen, MakeDirFor
    <2>3. QED
      BY <2>1, <2>2, ChangesNumbered
  <1>7. ASSUME NEW p \in Paths, NEW q \in Paths, doRename(p, q) PROVE Numbered(rw')
    <2>1. rw' = rw \/ \E M \in CopyUp(cd, rw, p) : rw' = M \/ rw' = Renamed(M, p, q)
      BY <1>7 DEF doRename, Done, Fails, Hangs
    <2>2. QED
      BY <2>1, PrepareNumbered, ChangesNumbered
  <1>8. ASSUME NEW t \in Paths, NEW l \in Paths, doLink(t, l) PROVE Numbered(rw')
    <2>1. PICK M \in Target(l, t) : rw' = M \/ rw' = Put(M, l, M[t])
      BY <1>8 DEF doLink, Done, Fails, Hangs
    <2>2. Numbered(M)
      BY TargetNumbered
    <2>3. M[t].kind \in Made /\ (M[t].kind = "reg" => M[t].ino # NoIno)
      BY <2>2 DEF Numbered
    <2>4. QED
      BY <2>1, <2>2, <2>3, ChangesNumbered
  <1>9. ASSUME NEW text \in Texts, NEW l \in Paths, doSymlink(text, l) PROVE Numbered(rw')
    <2>1. rw' = rw \/ \E M \in Target(l, text.path) : rw' = M \/ \E t : rw' = Put(M, l, Link(t))
      BY <1>9 DEF doSymlink, Done, Fails, Hangs
    <2>2. text.path \in Paths
      BY RequestsAssumption
    <2>3. \A t : Link(t).kind = "lnk" /\ "lnk" \in Made
      BY DEF Link, Made
    <2> HIDE DEF Link
    <2>4. QED
      BY <2>1, <2>2, <2>3, TargetNumbered, ChangesNumbered
  <1>10. ASSUME NEW f \in Fds, doRelease(f) \/ doRead(f) PROVE Numbered(rw')
    BY <1>10 DEF doRelease, doRead
  <1>11. ASSUME NEW f \in Fds, NEW d \in Data, doWrite(f, d) PROVE Numbered(rw')
    <2>1. \/ rw' = rw
          \/ Reopened(f) # Nowhere /\ \E e : rw' = SetData(rw, Reopened(f).path, e)
      BY <1>11 DEF doWrite
    <2>2. Reopened(f) # Nowhere => Reopened(f).path \in Paths
      BY FollowType DEF Reopened
    <2>3. QED
      BY <1>1, <2>1, <2>2, ChangesNumbered
  <1>12. CASE Remount \/ UNCHANGED vars
    BY <1>12 DEF Remount, vars
  <1>13. QED
    BY <1>2, <1>3, <1>4, <1>5, <1>6, <1>7, <1>8, <1>9, <1>10, <1>11, <1>12 DEF Next

----------------------------------------------------------------------------
(***************************************************************************)
(* What each request is to the tree.                                       *)
(***************************************************************************)

\* Where there are files and directories only, reading ends.
LEMMA ReadEndsPlain ==
    ASSUME CopiesFaithful, TreeInv, Numbered(rw), NEW f \in Fds
    PROVE  ReadEnds(Reopened(f)) \subseteq {"OK", "ERROR"}
  <1> DEFINE end == Reopened(f)
  <1>1. end # Nowhere => end.path \in Paths
    BY FollowType DEF Reopened
  <1>2. \A p \in Paths : rw[p].kind \in Made /\ cd[p].kind \in Made
    BY DEF Numbered, CopiesFaithful, TreeInv, Burnt, Made
  <1>3. end # Nowhere => NodeOf(end).kind \in Made
    BY <1>1, <1>2 DEF NodeOf
  <1> HIDE DEF end
  <1>4. ReadEnds(end) \subseteq {"OK", "ERROR"}
    BY <1>3 DEF ReadEnds, Made
  <1>5. QED
    BY <1>4 DEF end

\* stat, readlink, readdir, chmod, read and close change nothing.
LEMMA ReadersLook ==
    ASSUME CopiesFaithful, TreeInv, Numbered(rw),
           \/ \E p \in Paths : doStat(p) \/ doReadlink(p) \/ doReaddir(p) \/ doSetattr(p, FALSE)
           \/ \E f \in Fds : doRead(f) \/ doRelease(f)
    PROVE  Promised!Look
  <1>1. ASSUME \/ \E p \in Paths : doStat(p) \/ doReadlink(p)
               \/ \E f \in Fds : doRead(f) \/ doRelease(f)
        PROVE  Promised!Look
    BY <1>1, QuietPromised, ReadEndsPlain DEF doStat, doReadlink, doRead, doRelease, Promised!Look
  <1>2. ASSUME NEW p \in Paths, doReaddir(p) PROVE Promised!Look
    <2>1. rw' = RecurseMkdir(rw, p) /\ reply' = "OK"
      BY <1>2 DEF doReaddir, Done
    <2>2. Linked(rw, RecurseMkdir(rw, p))
      BY RecurseMkdirTree, DirsLinked DEF TreeInv, Sound
    <2>3. View' = View
      BY <1>2, ReadersShowNothing
    <2>4. QED
      BY <2>1, <2>2, <2>3, SameByParts DEF Promised!Look
  <1>3. ASSUME NEW p \in Paths, doSetattr(p, FALSE) PROVE Promised!Look
    <2>1. PICK M \in CopyUp(cd, rw, p) : rw' = M /\ UNCHANGED <<cd, wo>> /\ reply' \in {"OK", "ERROR"}
      BY <1>3, NoHang DEF doSetattr, Done, Fails
    <2>2. Walkable(p)
      BY <1>3, WalkPromised DEF doSetattr
    <2>3. Promised!Same
      BY <2>1, <2>2, SeenCopyLinked, PreparedSame
    <2>4. QED
      BY <2>1, <2>3 DEF Promised!Look
  <1>4. QED
    BY <1>1, <1>2, <1>3

\* creat makes an empty file with one name.
LEMMA CreateMakes ==
    ASSUME CopiesFaithful, TreeInv, NEW n \in Paths, doCreate(n)
    PROVE  Promised!Creat(n)
  <1> DEFINE M == MakeDirFor(cd, rw, n)
  <1>1. Negative(n) /\ Promised!Free(n) /\ ReachedDir(cd, rw, n)
    BY WalkPromised, WalkReachedDir DEF doCreate
  <1>2. M \in Layer /\ Grown(cd, rw, M) /\ Alike(cd, rw, M) /\ Linked(rw, M)
    BY <1>1, ReachedDirReached, MakeDirForGrows, MakeDirForAlike, MakeDirForLinked DEF TreeInv, Grown
  <1>3. \/ Fails(M)
        \/ /\ CanCreate(M, n) /\ Done(NewFile(M, n, Empty), Show(n))
           /\ cd' = cd
    BY DEF doCreate
  <1> HIDE DEF M
  <1>4. CASE Fails(M)
    BY <1>1, <1>2, <1>4, FailsPromised DEF Promised!Creat
  <1>5. CASE /\ CanCreate(M, n) /\ Done(NewFile(M, n, Empty), Show(n))
             /\ cd' = cd
    <2>1. /\ rw' = NewFile(M, n, Empty) /\ wo' \in Show(n) /\ reply' = "OK"
          /\ ~Exists(M[n])
      BY <1>5 DEF Done, CanCreate, CanAdd
    <2>2. /\ rw' \in Layer /\ \A q \in Paths \ {n} : rw'[q] = M[q]
          /\ rw'[n] = File(NextIno(M), Empty)
      BY <1>2, <1>5, <2>1, NewFileTree, DataAssumption DEF Grown, NewFile, Put
    <2>3. Face(rw'[n]) = File(NoIno, Empty) /\ rw'[n].kind = "reg"
      BY <2>2 DEF Face, File
    <2>4. \A q \in Paths \ {n} : ~Shares(rw', n, q)
      <3>1. \A q \in Paths : M[q].ino # NextIno(M)
        BY <1>5 DEF CanCreate, NextIno, FreeInodes
      <3>2. QED
        BY <2>2, <3>1 DEF Shares, File
    <2>5. View' = [View EXCEPT ![n] = Face(rw'[n])]
      BY <1>1, <1>2, <1>5, <2>1, <2>2, <2>3, AddKeeps
    <2>6. Links' = [p \in Paths |-> IF p = n THEN {n} ELSE Links[p]]
      <3>1. Links' = [p \in Paths |->
                IF p = n THEN {n} \cup {q \in Paths \ {n} : Present(q) /\ Shares(rw', n, q)}
                ELSE IF Present(p) /\ Shares(rw', n, p) THEN Links[p] \cup {n} ELSE Links[p]]
        BY <1>1, <1>2, <1>5, <2>1, <2>2, <2>3, AddKeeps
      <3>2. {q \in Paths \ {n} : Present(q) /\ Shares(rw', n, q)} = {}
        BY <2>4
      <3>3. QED
        BY <2>4, <3>1, <3>2
    <2>7. Links' = [Links EXCEPT ![n] = {n}]
      BY <2>6 DEF Links
    <2>8. QED
      BY <1>1, <2>1, <2>3, <2>5, <2>7 DEF Promised!Creat, Promised!Done, Promised!Make
  <1>6. QED
    BY <1>3, <1>4, <1>5

\* symlink makes a link to where it was made to.
LEMMA SymlinkMakes ==
    ASSUME CopiesFaithful, TreeInv, NEW text \in Texts, NEW l \in Paths, doSymlink(text, l)
    PROVE  Promised!Symlink(text, l)
  <1>1. Negative(l) /\ Promised!Free(l) /\ Walkable(l)
    BY WalkPromised DEF doSymlink
  <1>2. text \in [form : {"rel", "abs"}, path : Paths]
    BY RequestsAssumption
  <1>3. \/ Fails(rw)
        \/ \E M \in Target(l, text.path) :
             \/ Fails(M)
             \/ /\ CanAdd(M, l) /\ cd' = cd
                /\ Done(Put(M, l, Link(TextOf(M, text))), Show(l))
    BY <1>1, <1>2, NoHang DEF doSymlink
  <1>4. CASE Fails(rw)
    <2>1. rw \in Layer /\ Alike(cd, rw, rw) /\ Linked(rw, rw)
      BY InvTypes, LinkedSame DEF Alike
    <2>2. QED
      BY <1>1, <1>4, <2>1, FailsPromised DEF Promised!Symlink
  <1>5. ASSUME NEW M \in Target(l, text.path),
               \/ Fails(M)
               \/ /\ CanAdd(M, l) /\ cd' = cd
                  /\ Done(Put(M, l, Link(TextOf(M, text))), Show(l))
        PROVE  Promised!Symlink(text, l)
    <2>1. Grown(cd, rw, M) /\ Alike(cd, rw, M) /\ Linked(rw, M) /\ M \in Layer
      BY <1>1, <1>2, TargetGrows, TargetAlike, TargetLinked DEF Grown
    <2>2. CASE Fails(M)
      BY <1>1, <2>1, <2>2, FailsPromised DEF Promised!Symlink
    <2>3. CASE /\ CanAdd(M, l) /\ cd' = cd
               /\ Done(Put(M, l, Link(TextOf(M, text))), Show(l))
      <3> DEFINE t == TextOf(M, text)
                 n == Link(t)
      <3>1. t \in Text /\ t.path = text.path /\ (text.form = "rel" => t = text)
        BY <1>2 DEF TextOf, Text
      <3> HIDE DEF t
      <3>2. n \in Node /\ n.kind = "lnk" /\ n.ino = NoIno /\ n.to = t /\ Face(n) = n
        BY <3>1, NodeTypes DEF Link, Face
      <3>3. /\ rw' = Put(M, l, n) /\ wo' \in Show(l) /\ reply' = "OK"
            /\ ~Exists(M[l])
        BY <2>3 DEF Done, CanAdd, t
      <3> HIDE DEF n
      <3>4. rw' \in Layer /\ rw'[l] = n /\ \A q \in Paths \ {l} : rw'[q] = M[q]
        BY <2>1, <3>2, <3>3, PutType DEF Put
      <3>5. \A q \in Paths : ~Shares(rw', l, q)
        BY <3>2, <3>4 DEF Shares
      <3>6. /\ View' = [View EXCEPT ![l] = Face(rw'[l])]
            /\ Links' = [p \in Paths |->
                IF p = l THEN {l} \cup {q \in Paths \ {l} : Present(q) /\ Shares(rw', l, q)}
                ELSE IF Present(p) /\ Shares(rw', l, p) THEN Links[p] \cup {l} ELSE Links[p]]
        BY <1>1, <2>1, <2>3, <3>2, <3>3, <3>4, AddKeeps
      <3>7. Links' = [Links EXCEPT ![l] = {l}]
        <4>1. {q \in Paths \ {l} : Present(q) /\ Shares(rw', l, q)} = {}
          BY <3>5
        <4>2. Links' = [p \in Paths |-> IF p = l THEN {l} ELSE Links[p]]
          BY <3>5, <3>6, <4>1
        <4>3. QED
          BY <4>2 DEF Links
      <3>8. View'[l] = n
        BY <3>2, <3>4, <3>6 DEF View
      <3>9. View' = [View EXCEPT ![l] = View'[l]]
        BY <3>2, <3>4, <3>6, <3>8
      <3>10. Promised!LeadsTo(View'[l], text)
        BY <3>1, <3>2, <3>8 DEF Promised!LeadsTo
      <3>11. QED
        BY <1>1, <3>3, <3>7, <3>9, <3>10
        DEF Promised!Symlink, Promised!Done, Promised!Make
    <2>4. QED
      BY <1>5, <2>2, <2>3
  <1>6. QED
    BY <1>3, <1>4, <1>5

\* link gives a file one more name, and a symbolic link a copy.
LEMMA LinkAddsName ==
    ASSUME CopiesFaithful, TreeInv, Numbered(rw), NEW t \in Paths, NEW l \in Paths, doLink(t, l)
    PROVE  Promised!Link(t, l)
  <1>1. /\ Negative(l) /\ Promised!Free(l) /\ Walkable(l) /\ ~Present(l)
        /\ Promised!IsFile(t) /\ Walkable(t) /\ Present(t) /\ Stat(t).kind # "absent" /\ t # l
    <2>1. Negative(l) /\ Promised!Free(l) /\ Walkable(l) /\ ~Present(l)
      BY WalkPromised DEF doLink
    <2>2. Seen(t).kind \in FileKinds
      BY DEF doLink
    <2>3. Promised!IsFile(t) /\ Walkable(t) /\ Present(t) /\ Stat(t).kind # "absent" /\ t # l
      BY <2>1, <2>2, PromisedNames, SeenKind DEF Present, Exists, FileKinds
    <2>4. QED
      BY <2>1, <2>3
  <1>2. PICK M \in Target(l, t) :
          \/ Fails(M)
          \/ /\ M[t].kind \in {"reg", "lnk"} /\ CanAdd(M, l) /\ cd' = cd
             /\ Done(Put(M, l, M[t]), Show(l))
    BY <1>1, NoHang DEF doLink
  <1>3. Grown(cd, rw, M) /\ Alike(cd, rw, M) /\ Linked(rw, M) /\ M \in Layer /\ InodesShared(M)
    BY <1>1, TargetGrows, TargetAlike, TargetLinked DEF Grown
  <1>4. CASE Fails(M)
    BY <1>1, <1>3, <1>4, FailsPromised DEF Promised!Link
  <1>5. CASE /\ M[t].kind \in {"reg", "lnk"} /\ CanAdd(M, l) /\ cd' = cd
             /\ Done(Put(M, l, M[t]), Show(l))
    <2>1. /\ rw' = Put(M, l, M[t]) /\ wo' \in Show(l) /\ reply' = "OK"
          /\ ~Exists(M[l])
      BY <1>5 DEF Done, CanAdd
    <2>2. /\ rw' \in Layer /\ rw'[l] = M[t] /\ \A q \in Paths \ {l} : rw'[q] = M[q]
      <3>1. M[t] \in Node
        BY <1>3 DEF Layer
      <3>2. QED
        BY <1>3, <2>1, <3>1, PutType DEF Put
    <2>3. /\ View' = [View EXCEPT ![l] = Face(rw'[l])]
          /\ Links' = [p \in Paths |->
                IF p = l THEN {l} \cup {q \in Paths \ {l} : Present(q) /\ Shares(rw', l, q)}
                ELSE IF Present(p) /\ Shares(rw', l, p) THEN Links[p] \cup {l} ELSE Links[p]]
      BY <1>1, <1>3, <1>5, <2>1, <2>2, AddKeeps
    <2>4. Face(M[t]) = View[t]
      <3>1. ~Hidden(wo, t)
        BY <1>1, SeenKind DEF Absent
      <3>2. StatOf(cd, M, wo, t) = M[t]
        BY <1>3, <1>5, <3>1, InvTypes, FaceParts DEF Exists
      <3>3. FaceOf(cd, rw, wo, t) = Face(M[t])
        BY <1>3, <3>2, InvTypes, AlikeFaces DEF FaceOf
      <3>4. Seen(t) = FaceOf(cd, rw, wo, t)
        BY <1>1, InvTypes, FaceParts, SeenIsSeenOf
      <3>5. QED
        BY <3>3, <3>4, SeenIn
    <2>5. View[t].kind = M[t].kind
      BY <1>3, <2>4 DEF Face, Layer, Node
    <2> DEFINE now == IF View[t].kind = "reg" THEN Links[t] \cup {l} ELSE {l}
    <2>6. Links[t] = {q \in Paths : Present(q) /\ (q = t \/ Shares(rw, t, q))} /\ l \notin Links[t]
      BY <1>1, SeenIn DEF SameFile, Shares
    <2>7. \A q \in Paths \ {l} : q \in now <=> Present(q) /\ Shares(rw', l, q)
      <3>1. CASE M[t].kind = "reg"
        <4>1. M[t].ino # NoIno
          BY <3>1, TargetNumbered DEF Numbered
        <4>2. \A q \in Paths \ {l} : Shares(rw', l, q) <=> M[q].ino = M[t].ino
          BY <2>2, <4>1 DEF Shares
        <4>3. \A q \in Paths \ {t} : Shares(rw, t, q) <=> M[q].ino = M[t].ino
          BY <1>3, <4>1 DEF Linked, Shares
        <4>4. QED
          BY <1>1, <2>5, <2>6, <3>1, <4>2, <4>3
      <3>2. CASE M[t].kind = "lnk"
        <4>1. M[t].ino = NoIno
          BY <1>3, <3>2 DEF InodesShared
        <4>2. QED
          BY <2>2, <2>5, <3>2, <4>1 DEF Shares
      <3>3. QED
        BY <1>5, <3>1, <3>2
    <2>8. l \in now /\ now \subseteq Paths
      BY <2>6
    <2>9. ASSUME NEW p \in now \ {l} PROVE now = Links[p] \cup {l}
      <3>1. View[t].kind = "reg" /\ p \in Links[t]
        BY <2>9
      <3>2. Links[p] = Links[t]
        BY <3>1, <2>6, SeenIn, <1>1 DEF SameFile, Shares
      <3>3. QED
        BY <3>1, <3>2
    <2> HIDE DEF now
    <2>10. Links' = [p \in Paths |-> IF p \in now THEN now ELSE Links[p]]
      <3>1. ASSUME NEW p \in Paths
            PROVE  Links'[p] = IF p \in now THEN now ELSE Links[p]
        <4>1. CASE p = l
          BY <2>3, <2>7, <2>8, <4>1
        <4>2. CASE p # l
          BY <2>3, <2>7, <2>9, <4>2
        <4>3. QED
          BY <4>1, <4>2
      <3>2. QED
        BY <3>1, <2>3
    <2>11. View' = [View EXCEPT ![l] = View[t]]
      BY <2>2, <2>3, <2>4
    <2>12. QED
      BY <1>1, <2>1, <2>10, <2>11 DEF Promised!Link, Promised!Done, now
  <1>6. QED
    BY <1>2, <1>4, <1>5

\* Names that show nothing any more, and no other change.
LEMMA GoneByParts ==
    ASSUME NEW S \in SUBSET Paths,
           \A p \in S : Seen(p)' = Absent, \A p \in Paths \ S : Seen(p)' = Seen(p),
           \A p, q \in Paths \ S : SameFile(p, q)' <=> SameFile(p, q)
    PROVE  Promised!Gone(S)
  <1>1. View' = [p \in Paths |-> IF p \in S THEN Absent ELSE View[p]]
    BY DEF View
  <1>2. /\ \A p \in S : ~Present(p)'
        /\ \A p \in Paths \ S : Present(p)' <=> Present(p)
    BY DEF Present, Exists, Absent
  <1>3. ASSUME NEW p \in Paths
        PROVE  Links'[p] = IF p \in S THEN {} ELSE Links[p] \ S
    <2>1. CASE p \in S
      BY <1>2, <2>1, SeenIn
    <2>2. CASE p \notin S
      BY <1>2, <2>2, SeenIn
    <2>3. QED
      BY <2>1, <2>2
  <1>4. Links' = [p \in Paths |-> IF p \in S THEN {} ELSE Links[p] \ S]
    BY <1>3 DEF Links
  <1>5. QED
    BY <1>1, <1>4 DEF Promised!Gone

\* unlink takes the name away.
LEMMA UnlinkTakes ==
    ASSUME TreeInv, NEW n \in Paths, doUnlink(n)
    PROVE  Promised!Unlink(n)
  <1> DEFINE N == rw'
             w2 == wo'
             S == {n}
  <1>1. /\ cd' = cd /\ rw' = Put(rw, n, Absent) /\ reply' = "OK"
        /\ wo' \in IF Exists(cd[n]) THEN Hide(n) ELSE {wo}
        /\ Seen(n).kind \notin {"absent", "dir"}
    BY DEF doUnlink, Done, FileKinds
  <1>2. cd \in Layer /\ N \in Layer /\ N[n] = Absent /\ Burnt(cd)
    BY <1>1, InvTypes, PutType, NodeTypes DEF Put, TreeInv
  <1>3. Exists(cd[n]) => Hidden(w2, n)
    BY <1>1, InvTypes, VisibleHides
  <1>4. \A p, q \in Paths \ S : SameFile(p, q)' <=> SameFile(p, q)
    BY <1>1 DEF SameFile, Put
  <1> HIDE DEF N, w2
  <1>5. ~Exists(SeenOf(cd, N, w2, n))
    BY <1>2, <1>3, SeenParts, FaceParts DEF Exists, Absent
  <1>6. SeenOf(cd, N, w2, n) = Absent
    BY <1>2, <1>5, NothingSeen
  <1>7. Seen(n)' = Absent
    BY <1>1, <1>6, SeenIsSeenOf DEF N, w2
  <1>8. Promised!Gone(S)
    BY <1>4, <1>7, UnlinkShows, GoneByParts
  <1>9. QED
    BY <1>1, <1>8, PromisedNames DEF Promised!Unlink, Promised!Done

\* rmdir takes the directory away with what is below it, or does nothing.
LEMMA RmdirTakes ==
    ASSUME TreeInv, NEW d \in Paths, doRmdir(d)
    PROVE  Promised!Rmdir(d)
  <1> DEFINE N == rw'
             w2 == wo'
             full == Exists(rw[d]) /\ Entries(rw, d) # {}
             S == {p \in Paths : d \in Prefixes(p)}
  <1>1. /\ cd' = cd /\ rw' = IF full THEN rw ELSE Put(rw, d, Absent)
        /\ wo' \in IF Exists(cd[d]) THEN Hide(d) ELSE {wo}
        /\ reply' = IF full THEN "ERROR" ELSE "OK"
        /\ d # <<>> /\ Seen(d).kind = "dir"
    BY DEF doRmdir
  <1>2. cd \in Layer /\ rw \in Layer /\ N \in Layer /\ Burnt(cd)
    BY <1>1, InvTypes, PutType, NodeTypes DEF TreeInv
  <1>3. Promised!Rmdir(d) <=> Promised!Fails \/ Promised!Gone(S)
    BY <1>1, SeenIn, PromisedNames DEF Promised!Rmdir
  <1>4. CASE full /\ ~Exists(cd[d])
    BY <1>1, <1>3, <1>4, QuietPromised DEF Promised!Fails
  <1>5. CASE ~(full /\ ~Exists(cd[d]))
    <2>1. Exists(cd[d]) => Hidden(w2, d)
      BY <1>1, InvTypes, VisibleHides
    <2>2. ~Exists(cd[d]) => N[d] = Absent
      BY <1>1, <1>5 DEF Put
    <2>3. \A p \in Paths \ S : p # d
      BY Ancestors
    <2>4. \A p, q \in Paths \ S : SameFile(p, q)' <=> SameFile(p, q)
      BY <1>1, <2>3 DEF SameFile, Put
    <2> HIDE DEF N, w2, full
    <2>5. StatOf(cd, N, w2, d).kind = "absent"
      BY <1>2, <2>1, <2>2, FaceParts DEF Exists, Absent
    <2>6. ASSUME NEW p \in S PROVE SeenOf(cd, N, w2, p) = Absent
      <3>1. p = d \/ d \in Above(p)
        BY Ancestors
      <3>2. ~Exists(SeenOf(cd, N, w2, p))
        BY <1>2, <2>5, <3>1, SeenParts DEF Exists, WalkOf
      <3>3. QED
        BY <1>2, <3>2, NothingSeen
    <2>7. \A p \in S : Seen(p)' = Absent
      BY <1>1, <2>6, SeenIsSeenOf DEF N, w2
    <2>8. \A p \in Paths \ S : Seen(p)' = Seen(p)
      BY RmdirShows
    <2>9. S \in SUBSET Paths
      OBVIOUS
    <2> HIDE DEF S
    <2>10. Promised!Gone(S)
      BY <2>4, <2>7, <2>8, <2>9, GoneByParts
    <2>11. QED
      BY <1>3, <2>10
  <1>6. QED
    BY <1>4, <1>5

\* mkdir makes the directory; of what is below it on the CD, some may show.
LEMMA MkdirMakes ==
    ASSUME TreeInv, NEW d \in Paths, doMkdir(d)
    PROVE  Promised!Mkdir(d)
  <1> DEFINE N == rw'
             w2 == wo'
             S == {p \in Paths : d \in Prefixes(p)}
  <1>1. Negative(d) /\ Promised!Free(d) /\ Walkable(d) /\ ~Present(d)
    BY WalkPromised DEF doMkdir
  <1>2. CASE Fails(rw)
    <2>1. rw \in Layer /\ Alike(cd, rw, rw) /\ Linked(rw, rw)
      BY InvTypes, LinkedSame DEF Alike
    <2>2. QED
      BY <1>1, <1>2, <2>1, FailsPromised DEF Promised!Mkdir
  <1>3. CASE /\ CanAdd(rw, d) /\ rw' = Put(rw, d, DirNode) /\ wo' \in Show(d)
             /\ reply' = "OK" /\ cd' = cd
    <2>1. /\ cd \in Layer /\ rw \in Layer /\ N \in Layer /\ Burnt(cd) /\ IsTree(rw) /\ InodesShared(rw)
          /\ ~Exists(rw[d])
      BY <1>3, InvTypes, PutType, NodeTypes DEF TreeInv, Sound, CanAdd
    <2>2. N[d] = DirNode /\ \A p \in Paths \ {d} : N[p] = rw[p]
      BY <1>3 DEF Put
    <2>3. ~Hidden(w2, d)
      BY <1>3, InvTypes, VisibleHides
    <2>4. \A p \in Paths : N[p].ino = rw[p].ino
      BY <2>1, <2>2 DEF InodesShared, Exists, DirNode
    <2>5. \A p, q \in Paths : SameFile(p, q)' <=> SameFile(p, q)
      BY <2>4 DEF SameFile, N
    <2>6. \A p \in S : ~Exists(rw[p]) /\ ~Present(p)
      <3>1. ASSUME NEW p \in S PROVE p = d \/ d \in Above(p)
        BY Ancestors
      <3>2. ASSUME NEW p \in S PROVE ~Exists(rw[p])
        BY <2>1, <3>1, TreeAncestors DEF Exists
      <3>3. ASSUME NEW p \in S, Present(p) PROVE FALSE
        <4>1. Promised!Reachable(p)
          BY <3>3, WalkPromised
        <4>2. QED
          BY <1>1, <3>1, <3>3, <4>1, PromisedNames DEF Present, Exists
      <3>4. QED
        BY <3>2, <3>3
    <2>7. \A p \in S : \A q \in Paths \ {p} : ~SameFile(p, q)' /\ ~SameFile(q, p)'
      <3>1. \A p \in S : N[p].ino = NoIno
        BY <2>1, <2>4, <2>6 DEF InodesShared, Exists
      <3>2. QED
        BY <3>1 DEF SameFile, N
    <2> HIDE DEF N, w2
    <2>8. \A p \in Paths : Seen(p)' = SeenOf(cd, N, w2, p)
      BY <1>3, SeenIsSeenOf DEF N, w2
    <2>9. Seen(d)' = DirNode
      <3>1. \A q \in Above(d) : q \in Paths /\ d \notin Prefixes(q) /\ Seen(q).kind = "dir"
        BY <1>1, Ancestors, WalkPromised, PromisedNames
      <3>2. \A q \in Above(d) : SeenOf(cd, N, w2, q).kind = "dir"
        BY <2>8, <3>1, MkdirShows
      <3>3. SeenOf(cd, N, w2, d) = FaceOf(cd, N, w2, d)
        BY <2>1, <3>2, FaceSeen
      <3>4. StatOf(cd, N, w2, d) = DirNode
        BY <2>1, <2>2, <2>3, FaceParts DEF DirNode, Exists
      <3>5. QED
        BY <2>8, <3>3, <3>4 DEF FaceOf, Face, DirNode
    <2>10. ASSUME NEW p \in S \ {d}
           PROVE  Seen(p)' \in {Absent, [Image[p] EXCEPT !.data = Seen(p)'.data]}
      <3>1. CASE ~Exists(SeenOf(cd, N, w2, p))
        BY <2>1, <2>8, <3>1, NothingSeen
      <3>2. CASE Exists(SeenOf(cd, N, w2, p))
        <4>1. SeenOf(cd, N, w2, p) = FaceOf(cd, N, w2, p) /\ Exists(StatOf(cd, N, w2, p))
          BY <2>1, <3>2, SeenParts, FaceParts DEF Exists
        <4>2. StatOf(cd, N, w2, p) = cd[p]
          BY <2>1, <2>2, <2>6, <4>1, FaceParts DEF Exists, Absent
        <4>3. Seen(p)' = cd[p]
          <5>1. cd[p] \in Node /\ cd[p].ino = NoIno
            BY <2>1 DEF Layer, Burnt
          <5>2. QED
            BY <2>8, <4>1, <4>2, <5>1 DEF FaceOf, Face, Node
        <4>4. cd[p] \in Node /\ Image[p] \in Node
          BY <2>1, ImageAssumption DEF Layer
        <4>5. /\ cd[p].kind = Image[p].kind /\ cd[p].ino = Image[p].ino
              /\ cd[p].to = Image[p].to
          BY <2>1, ImageAssumption DEF Burnt
        <4>6. cd[p] = [Image[p] EXCEPT !.data = cd[p].data]
          BY <4>4, <4>5 DEF Node
        <4>7. QED
          BY <4>3, <4>6
      <3>3. QED
        BY <3>1, <3>2
    <2>11. \A p \in Paths \ S : Seen(p)' = Seen(p)
      BY MkdirShows
    <2>12. d \in S /\ S \subseteq Paths
      BY Ancestors
    <2> HIDE DEF S
    <2>13. View' = [p \in Paths |-> IF p \in S THEN View'[p] ELSE View[p]]
      BY <2>11 DEF View
    <2>14. /\ \A p \in S : Links'[p] = IF Present(p)' THEN {p} ELSE {}
           /\ \A p \in Paths \ S : Links'[p] = Links[p]
      <3>1. \A p \in Paths : SameFile(p, p)'
        BY DEF SameFile
      <3>2. ASSUME NEW p \in S PROVE Links'[p] = IF Present(p)' THEN {p} ELSE {}
        <4>1. \A q \in Paths : SameFile(p, q)' <=> q = p
          BY <2>7, <2>12, <3>1, <3>2
        <4>2. Links'[p] = {q \in Paths : Present(p)' /\ Present(q)' /\ SameFile(p, q)'}
          BY <2>12, SeenIn
        <4>3. QED
          BY <2>12, <4>1, <4>2
      <3>3. \A p \in Paths \ S : Present(p)' <=> Present(p)
        BY <2>11 DEF Present
      <3>4. ASSUME NEW p \in Paths \ S PROVE Links'[p] = Links[p]
        <4>1. \A q \in S : ~SameFile(p, q)'
          BY <2>7, <3>4
        <4>2. QED
          BY <2>5, <2>6, <3>3, <4>1, SeenIn
      <3>5. QED
        BY <3>2, <3>4
    <2>15. Links' = [p \in Paths |-> IF p \notin S THEN Links[p]
                                     ELSE IF View'[p].kind = "absent" THEN {} ELSE {p}]
      BY <2>12, <2>14, SeenIn DEF Links, Present, Exists
    <2>16. Promised!IsTree(View')
      <3>1. ASSUME NEW p \in Paths, View'[p].kind # "absent", NEW q \in Above(p)
            PROVE  View'[q].kind = "dir"
        <4>1. q \in Paths /\ Exists(SeenOf(cd, N, w2, p))
          BY <2>8, <3>1, SeenIn, Ancestors DEF Exists
        <4>2. SeenOf(cd, N, w2, q).kind = "dir"
          BY <2>1, <4>1, <3>1, WalkSeen
        <4>3. QED
          BY <2>8, <4>1, <4>2, SeenIn
      <3>2. QED
        BY <3>1, PromisedNames DEF Promised!IsTree
    <2>17. S = Promised!Below(d)
      BY PromisedNames DEF S
    <2>18. View'[d] = DirNode
      BY <2>9, SeenIn
    <2>19. \A p \in S \ {d} : View'[p] \in {Absent, [Image[p] EXCEPT !.data = View'[p].data]}
      BY <2>10, <2>12, SeenIn
    <2>20. QED
      BY <1>1, <1>3, <2>13, <2>15, <2>16, <2>17, <2>18, <2>19
      DEF Promised!Mkdir, Promised!Done
  <1>4. QED
    BY <1>2, <1>3 DEF doMkdir, Done

\* After preparations that do not show, what is written to a file shows under
\* all of its names, and nowhere else.
LEMMA DataShows ==
    ASSUME TreeInv, NEW M, Grown(cd, rw, M), Alike(cd, rw, M), Linked(rw, M),
           NEW p \in Paths, M[p].kind = "reg", NEW d \in Data,
           rw' = SetData(M, p, d), cd' = cd,
           \A q \in Paths : Hidden(wo', q) <=> Hidden(wo, q)
    PROVE  /\ \A x \in Paths : Seen(x)' = IF Present(x) /\ SameFile(p, x)
                                          THEN [Seen(x) EXCEPT !.data = d] ELSE Seen(x)
           /\ Links' = Links
  <1> DEFINE N == rw'
             w2 == wo'
             F(q) == FaceOf(cd, rw, wo, q)
             G(q) == FaceOf(cd, N, w2, q)
  <1>1. /\ cd \in Layer /\ rw \in Layer /\ M \in Layer /\ IsTree(M) /\ InodesShared(M)
        /\ \A q \in Paths : Hidden(w2, q) <=> Hidden(wo, q)
    BY InvTypes DEF Grown
  <1>2. p # <<>> /\ Exists(M[p])
    BY <1>1 DEF IsTree, DirNode, Exists
  <1>3. /\ N \in Layer
        /\ \A q \in Paths : N[q].kind = M[q].kind /\ N[q].ino = M[q].ino
    BY <1>1, <1>2, SetDataTree
  <1>4. \A q \in Paths : SameFile(p, q) <=> q = p \/ Shares(M, p, q)
    BY DEF SameFile, Linked, Shares
  <1>5. \A q \in Paths : N[q] = IF SameFile(p, q) THEN [M[q] EXCEPT !.data = d] ELSE M[q]
    BY <1>4 DEF SetData, Shares
  <1>6. \A q \in Paths : SameFile(p, q) => M[q].kind = "reg"
    BY <1>1, <1>4 DEF InodesShared, Shares
  <1>7. \A q, r \in Paths : SameFile(q, r)' <=> SameFile(q, r)
    BY <1>3 DEF SameFile, Linked, Shares
  <1> HIDE DEF N, w2
  <1>8. \A q \in Paths : FaceOf(cd, M, wo, q) = F(q)
    BY <1>1, AlikeFaces
  <1>9. ASSUME NEW q \in Paths
        PROVE  /\ G(q) = IF ~Hidden(wo, q) /\ SameFile(p, q) THEN [F(q) EXCEPT !.data = d] ELSE F(q)
               /\ G(q).kind = F(q).kind
               /\ ~Hidden(wo, q) /\ SameFile(p, q) => Exists(F(q))
    <2>1. CASE ~Hidden(wo, q) /\ SameFile(p, q)
      <3>1. StatOf(cd, N, w2, q) = N[q] /\ StatOf(cd, M, wo, q) = M[q]
        BY <1>1, <1>3, <1>6, <2>1, FaceParts DEF Exists
      <3>2. N[q] = [M[q] EXCEPT !.data = d] /\ M[q] \in Node /\ M[q].kind = "reg"
        BY <1>1, <1>5, <1>6, <2>1 DEF Layer
      <3>3. Face(N[q]) = [Face(M[q]) EXCEPT !.data = d] /\ Face(M[q]).kind = "reg"
        BY <3>2 DEF Face, Node
      <3>4. Face(M[q]) = F(q)
        BY <1>8, <3>1 DEF FaceOf
      <3>5. G(q) = Face(N[q]) /\ F(q) \in Node
        BY <1>1, <3>1, FaceParts DEF FaceOf
      <3>6. [F(q) EXCEPT !.data = d].kind = F(q).kind
        BY <3>5 DEF Node
      <3> HIDE DEF F, G
      <3>7. QED
        BY <2>1, <3>3, <3>4, <3>5, <3>6 DEF Exists
    <2>2. CASE ~(~Hidden(wo, q) /\ SameFile(p, q))
      <3>1. StatOf(cd, N, w2, q) = StatOf(cd, M, wo, q)
        <4>1. CASE Hidden(wo, q)
          BY <1>1, <1>3, <4>1, FaceParts
        <4>2. CASE ~SameFile(p, q)
          <5>1. N[q] = M[q]
            BY <1>5, <4>2
          <5>2. QED
            BY <1>1, <1>3, <5>1, FaceParts
        <4>3. QED
          BY <2>2, <4>1, <4>2
      <3>2. QED
        BY <1>8, <2>2, <3>1 DEF FaceOf
    <2>3. QED
      BY <2>1, <2>2
  <1>10. ASSUME NEW x \in Paths
         PROVE  /\ WalkOf(cd, N, w2, x) <=> WalkOf(cd, rw, wo, x)
                /\ Seen(x)' = IF WalkOf(cd, rw, wo, x) THEN G(x) ELSE Absent
                /\ Seen(x) = IF WalkOf(cd, rw, wo, x) THEN F(x) ELSE Absent
    <2>1. \A q \in Above(x) : q \in Paths
      BY Ancestors
    <2>2. \A q \in Above(x) : StatOf(cd, N, w2, q).kind = StatOf(cd, rw, wo, q).kind
      BY <1>1, <1>3, <1>9, <2>1, FaceParts
    <2>3. WalkOf(cd, N, w2, x) <=> WalkOf(cd, rw, wo, x)
      BY <2>2 DEF WalkOf
    <2>4. Seen(x)' = SeenOf(cd, N, w2, x) /\ Seen(x) = SeenOf(cd, rw, wo, x)
      BY SeenIsSeenOf DEF N, w2
    <2>5. QED
      BY <1>1, <1>3, <2>3, <2>4, FaceParts
  <1>11. \A x \in Paths : Hidden(wo, x) => ~Exists(F(x))
    BY <1>1, FaceParts DEF Exists, Absent
  <1> HIDE DEF F, G
  <1>12. ASSUME NEW x \in Paths
         PROVE  /\ Present(x)' <=> Present(x)
                /\ Seen(x)' = IF Present(x) /\ SameFile(p, x)
                              THEN [Seen(x) EXCEPT !.data = d] ELSE Seen(x)
    <2>1. CASE WalkOf(cd, rw, wo, x)
      <3>1. Seen(x)' = G(x) /\ Seen(x) = F(x)
        BY <1>10, <2>1
      <3>2. QED
        BY <1>9, <1>11, <3>1 DEF Present, Exists
    <2>2. CASE ~WalkOf(cd, rw, wo, x)
      BY <1>10, <2>2 DEF Present, Exists, Absent
    <2>3. QED
      BY <2>1, <2>2
  <1>13. Links' = Links
    BY <1>7, <1>12 DEF Links
  <1>14. QED
    BY <1>12, <1>13

\* That is what a user of one of the names was promised.
LEMMA DataIsPut ==
    ASSUME TreeInv, NEW M, Grown(cd, rw, M), Alike(cd, rw, M), Linked(rw, M),
           NEW p \in Paths, M[p].kind = "reg", NEW d \in Data,
           rw' = SetData(M, p, d), cd' = cd,
           \A q \in Paths : Hidden(wo', q) <=> Hidden(wo, q),
           NEW x \in Paths, Present(x), SameFile(p, x)
    PROVE  Promised!Put(x, d)
  <1>1. /\ \A q \in Paths : Seen(q)' = IF Present(q) /\ SameFile(p, q)
                                       THEN [Seen(q) EXCEPT !.data = d] ELSE Seen(q)
        /\ Links' = Links
    BY DataShows
  <1>2. \A q \in Paths : q \in Links[x] <=> Present(q) /\ SameFile(p, q)
    BY SeenIn DEF SameFile
  <1>3. View' = [q \in Paths |-> IF q \in Links[x] THEN [View[q] EXCEPT !.data = d] ELSE View[q]]
    BY <1>1, <1>2 DEF View
  <1>4. QED
    BY <1>1, <1>3 DEF Promised!Put

\* truncate empties the file.
LEMMA TruncateEmpties ==
    ASSUME CopiesFaithful, TreeInv, NEW p \in Paths, doSetattr(p, TRUE)
    PROVE  Promised!Truncate(p)
  <1>1. Present(p) /\ Walkable(p) /\ Seen(p).kind = "reg" /\ View[p].kind = "reg"
    BY WalkPromised, SeenIn DEF doSetattr
  <1>2. PICK M \in CopyUp(cd, rw, p) :
          \/ Fails(M)
          \/ /\ Exists(M[p]) /\ rw' = SetData(M, p, Empty) /\ wo' = wo /\ cd' = cd /\ reply' = "OK"
    BY NoHang DEF doSetattr, Done
  <1>3. M \in Layer /\ Grown(cd, rw, M) /\ Alike(cd, rw, M) /\ Linked(rw, M)
    BY <1>1, SeenCopyLinked
  <1>4. CASE Fails(M)
    BY <1>1, <1>3, <1>4, FailsPromised DEF Promised!Truncate
  <1>5. CASE /\ Exists(M[p]) /\ rw' = SetData(M, p, Empty) /\ wo' = wo /\ cd' = cd /\ reply' = "OK"
    <2>1. M[p].kind = "reg"
      <3>1. StatOf(cd, M, wo, p).kind = "reg" /\ ~Hidden(wo, p)
        BY <1>1, <1>3, GrownShows, SeenKind, SeenIsSeenOf DEF Absent
      <3>2. QED
        BY <1>3, <1>5, <3>1, InvTypes, FaceParts
    <2>2. Empty \in Data /\ SameFile(p, p) /\ File(NoIno, Empty).data = Empty
      BY DataAssumption DEF SameFile, File
    <2>3. Promised!Put(p, Empty)
      BY <1>1, <1>3, <1>5, <2>1, <2>2, DataIsPut
    <2>4. QED
      BY <1>1, <1>5, <2>2, <2>3 DEF Promised!Truncate, Promised!Done
  <1>6. QED
    BY <1>2, <1>4, <1>5

\* open leaves the file, or empties it.
LEMMA OpenKeeps ==
    ASSUME CopiesFaithful, TreeInv, NEW p \in Paths, NEW acc \in {"r", "w"},
           NEW creat \in BOOLEAN, NEW trunc \in BOOLEAN, doOpen(p, acc, creat, trunc)
    PROVE  Promised!Open(p, creat, trunc)
  <1> DEFINE W == IF creat THEN Show(p) ELSE {wo}
  <1>1. /\ Seen(p).kind = "reg" /\ (trunc => acc = "w") /\ View[p].kind = "reg" /\ Present(p)
        /\ Walkable(p) /\ Stat(p).kind = "reg" /\ ~Hidden(wo, p)
    BY SeenKind, SeenIn DEF doOpen, Absent, Present, Exists
  <1>2. \A u \in W : \A q \in Paths : Hidden(u, q) <=> Hidden(wo, q)
    <2>1. \A u \in Show(p) : \A q : Hidden(u, q) <=> q # p /\ Hidden(wo, q)
      BY InvTypes, VisibleHides
    <2>2. QED
      BY <1>1, <2>1
  <1>3. PICK M \in ToOpen(p, acc, creat) :
           \/ /\ creat /\ CanCreate(M, p) /\ rw' = NewFile(M, p, Empty)
              /\ wo' \in W /\ cd' = cd /\ reply' = "OK"
           \/ /\ M[p].kind = "reg" /\ trunc /\ rw' = SetData(M, p, Empty)
              /\ wo' \in W /\ cd' = cd /\ reply' = "OK"
           \/ ~trunc /\ rw' = M /\ wo' \in W /\ cd' = cd /\ reply' = "OK"
           \/ Fails(M)
    BY <1>1 DEF doOpen, Done
  <1> HIDE DEF W
  <1>4. /\ Grown(cd, rw, M) /\ ReachedDir(cd, rw, p) /\ M \in Layer /\ Alike(cd, rw, M)
        /\ CanCreate(M, p) => Grown(cd, rw, NewFile(M, p, Empty))
    BY <1>1, ToOpenGrows, ToOpenAlike, WalkReachedDir
  <1>5. M = rw \/ M = MakeDirFor(cd, rw, p) \/ M \in CopyUp(cd, rw, p)
    BY DEF ToOpen
  <1>6. Linked(rw, M)
    BY <1>4, <1>5, LinkedSame, MakeDirForLinked, CopyUpLinked DEF TreeInv
  <1>7. Empty \in Data /\ SameFile(p, p) /\ File(NoIno, Empty).data = Empty
    BY DataAssumption DEF SameFile, File
  <1>8. CASE Fails(M)
    BY <1>1, <1>4, <1>6, <1>8, FailsPromised DEF Promised!Open
  <1>9. CASE ~trunc /\ rw' = M /\ wo' \in W /\ cd' = cd /\ reply' = "OK"
    BY <1>1, <1>2, <1>4, <1>6, <1>9, PreparedSame DEF Promised!Open, Promised!Done
  <1>10. CASE /\ M[p].kind = "reg" /\ trunc /\ rw' = SetData(M, p, Empty)
              /\ wo' \in W /\ cd' = cd /\ reply' = "OK"
    <2>1. Promised!Put(p, Empty)
      BY <1>1, <1>2, <1>4, <1>6, <1>7, <1>10, DataIsPut
    <2>2. QED
      BY <1>1, <1>7, <1>10, <2>1 DEF Promised!Open, Promised!Done
  <1>11. CASE /\ creat /\ CanCreate(M, p) /\ rw' = NewFile(M, p, Empty)
              /\ wo' \in W /\ cd' = cd /\ reply' = "OK"
    <2> DEFINE N == rw'
               v2 == wo'
               T == {p}
    <2>1. cd \in Layer /\ N \in Layer /\ InodesShared(M)
      BY <1>4, <1>11, InvTypes DEF Grown
    <2>2. /\ \A q \in Paths \ {p} : N[q] = M[q]
          /\ N[p] = File(NextIno(M), Empty)
          /\ ~Exists(M[p])
      BY <1>11 DEF NewFile, Put, CanCreate, CanAdd
    <2>3. \A q \in Paths : Hidden(v2, q) <=> Hidden(wo, q)
      BY <1>2, <1>11
    <2>4. Linked(rw, N)
      BY <1>6, <1>11, <2>1, NewFileLinked, LinkedSame
    <2>5. ~Exists(rw[p]) /\ rw[p].ino = NoIno
      BY <1>4, <2>2 DEF Grown, TreeInv, Sound, InodesShared, Exists
    <2> HIDE DEF N, v2
    <2>6. StatOf(cd, M, wo, p).kind # "dir" /\ StatOf(cd, N, v2, p) = File(NextIno(M), Empty)
      <3>1. StatOf(cd, M, wo, p).kind = "reg"
        BY <1>1, <1>4, GrownShows, SeenIsSeenOf
      <3>2. Exists(N[p])
        BY <2>2 DEF File, Exists
      <3>3. QED
        BY <1>1, <2>1, <2>2, <2>3, <3>1, <3>2, FaceParts
    <2>7. \A q \in Paths \ {p} : Seen(q)' = Seen(q)
      <3>1. T \in SUBSET Paths /\ Ends(M, T)
        BY <1>11, <2>1, <2>2, <2>3, <2>6 DEF N, v2, Ends, File
      <3> HIDE DEF T
      <3>2. \A q \in Paths \ T : Seen(q)' = Seen(q)
        BY <1>4, <3>1, EndShowsAlike
      <3>3. QED
        BY <3>2 DEF T
    <2>8. Seen(p)' = File(NoIno, Empty)
      <3>1. \A q \in Above(p) : q \in Paths \ {p} /\ Seen(q).kind = "dir"
        BY <1>1, Ancestors, WalkPromised, PromisedNames
      <3>2. \A q \in Above(p) : SeenOf(cd, N, v2, q).kind = "dir"
        BY <1>11, <2>7, <3>1, SeenIsSeenOf DEF N, v2
      <3>3. SeenOf(cd, N, v2, p) = FaceOf(cd, N, v2, p)
        BY <2>1, <3>2, FaceSeen
      <3>4. QED
        BY <1>11, <2>6, <3>3, SeenIsSeenOf DEF N, v2, FaceOf, Face, File
    <2>9. [Seen(p) EXCEPT !.data = Empty] = File(NoIno, Empty)
      <3>1. Seen(p) = FaceOf(cd, rw, wo, p)
        BY <1>1, InvTypes, FaceParts, SeenIsSeenOf
      <3>2. StatOf(cd, rw, wo, p) = cd[p]
        BY <1>1, <2>5, InvTypes, FaceParts
      <3>3. cd[p] \in Node /\ cd[p].kind = "reg" /\ cd[p].to = NoText
        BY <1>1, <2>1, <3>2, SeenIsSeenOf DEF Layer, TreeInv, Burnt, CopiesFaithful
      <3>4. Seen(p) = Face(cd[p])
        BY <3>1, <3>2 DEF FaceOf
      <3>5. cd[p] = [kind |-> "reg", ino |-> cd[p].ino, data |-> cd[p].data, to |-> NoText]
        BY <3>3 DEF Node
      <3>6. Seen(p) = [kind |-> "reg", ino |-> NoIno, data |-> cd[p].data, to |-> NoText]
        BY <3>4, <3>5 DEF Face
      <3>7. QED
        BY <3>6 DEF File
    <2>10. \A q \in Paths : q \in Links[p] <=> q = p
      BY <1>1, <2>5, SeenIn DEF SameFile
    <2>11. View' = [q \in Paths |-> IF q \in Links[p] THEN [View[q] EXCEPT !.data = Empty] ELSE View[q]]
      BY <2>7, <2>8, <2>9, <2>10 DEF View
    <2>12. Links' = Links
      <3>1. \A q \in Paths : Present(q)' <=> Present(q)
        BY <1>1, <2>7, <2>8 DEF Present, Exists, File
      <3>2. \A q, r \in Paths : SameFile(q, r)' <=> SameFile(q, r)
        BY <2>4 DEF SameFile, Linked, Shares, N
      <3>3. QED
        BY <3>1, <3>2 DEF Links
    <2>13. QED
      BY <1>1, <1>7, <1>11, <2>11, <2>12 DEF Promised!Open, Promised!Done, Promised!Put
  <1>12. QED
    BY <1>3, <1>8, <1>9, <1>10, <1>11

\* A write that ends in the CD's layer is seen under the name it ends at, where
\* the CD's file shows, and else not at all.
LEMMA CdWritePuts ==
    ASSUME TreeInv, NEW p \in Paths, NEW d \in Data, cd[p].kind = "reg",
           cd' = SetData(cd, p, d), rw' = rw, wo' = wo, reply' = "OK"
    PROVE  Promised!Look \/ Promised!Write(p, d)
  <1> DEFINE D == cd'
  <1>1. /\ InodesShared(cd) /\ IsTree(cd) /\ cd \in Layer /\ rw \in Layer
        /\ \A q \in Paths : cd[q].ino = NoIno
    BY InvTypes DEF TreeInv, Sound, Burnt, InodesShared
  <1>2. p \in Paths \ {<<>>} /\ Exists(cd[p])
    BY <1>1 DEF IsTree, DirNode, Exists
  <1>3. D \in Layer /\ \A q \in Paths : D[q].kind = cd[q].kind
    BY <1>1, <1>2, SetDataTree
  <1>4. D[p] = [cd[p] EXCEPT !.data = d] /\ \A q \in Paths \ {p} : D[q] = cd[q]
    BY <1>1 DEF SetData
  <1> HIDE DEF D
  <1>5. \A x \in Paths : Seen(x)' = SeenOf(D, rw, wo, x) /\ Seen(x) = SeenOf(cd, rw, wo, x)
    BY SeenIsSeenOf DEF D
  <1>6. ASSUME NEW x \in Paths \ {p} PROVE Seen(x)' = Seen(x)
    <2>1. D[x] = cd[x]
      BY <1>4
    <2>2. SeenOf(D, rw, wo, x) = SeenOf(cd, rw, wo, x)
      BY <1>1, <1>3, <2>1, ContentsElsewhere
    <2>3. QED
      BY <1>5, <2>2
  <1>7. \A x, y \in Paths : SameFile(x, y)' <=> SameFile(x, y)
    BY DEF SameFile
  <1>8. WalkOf(D, rw, wo, p) <=> WalkOf(cd, rw, wo, p)
    <2>1. \A q \in Above(p) : q \in Paths \ {p}
      BY Ancestors
    <2>2. \A q \in Above(p) : StatOf(D, rw, wo, q) = StatOf(cd, rw, wo, q)
      BY <1>1, <1>3, <1>4, <2>1, FaceParts
    <2>3. QED
      BY <2>2 DEF WalkOf
  <1>9. CASE WalkOf(cd, rw, wo, p) /\ ~Hidden(wo, p) /\ ~Exists(rw[p])
    <2>1. StatOf(D, rw, wo, p) = D[p] /\ StatOf(cd, rw, wo, p) = cd[p]
      BY <1>1, <1>3, <1>9, FaceParts
    <2>2. Seen(p)' = Face(D[p]) /\ Seen(p) = Face(cd[p])
      <3>1. /\ SeenOf(D, rw, wo, p) = Face(D[p])
            /\ SeenOf(cd, rw, wo, p) = Face(cd[p])
        BY <1>1, <1>3, <1>8, <1>9, <2>1, FaceParts DEF FaceOf
      <3>2. QED
        BY <1>5, <3>1
    <2>3. cd[p] \in Node /\ D[p] = [cd[p] EXCEPT !.data = d]
      BY <1>1, <1>4 DEF Layer
    <2>4. Seen(p)' = [Seen(p) EXCEPT !.data = d] /\ Seen(p).kind = "reg" /\ Seen(p)'.kind = "reg"
      <3>1. Face(D[p]) = [Face(cd[p]) EXCEPT !.data = d] /\ Face(cd[p]).kind = "reg"
        BY <2>3 DEF Face, Node
      <3>2. Face(D[p]).kind = "reg"
        BY <2>3 DEF Face, Node
      <3>3. QED
        BY <2>2, <3>1, <3>2
    <2>5. rw[p].ino = NoIno
      BY <1>9 DEF TreeInv, Sound, InodesShared, Exists
    <2>6. \A q \in Paths : q \in Links[p] <=> q = p
      BY <2>4, <2>5, SeenIn DEF SameFile, Present, Exists
    <2>7. View' = [q \in Paths |-> IF q \in Links[p] THEN [View[q] EXCEPT !.data = d] ELSE View[q]]
      BY <1>6, <2>4, <2>6 DEF View
    <2>8. Links' = Links
      <3>1. \A q \in Paths : Present(q)' <=> Present(q)
        BY <1>6, <2>4 DEF Present, Exists
      <3>2. QED
        BY <1>7, <3>1 DEF Links
    <2>9. Promised!Write(p, d)
      BY <2>4, <2>7, <2>8, SeenIn DEF Promised!Write, Promised!Put, Promised!Done
    <2>10. QED
      BY <2>9
  <1>10. CASE ~(WalkOf(cd, rw, wo, p) /\ ~Hidden(wo, p) /\ ~Exists(rw[p]))
    <2>1. SeenOf(D, rw, wo, p) = SeenOf(cd, rw, wo, p)
      <3>1. CASE ~WalkOf(cd, rw, wo, p)
        BY <1>1, <1>3, <1>8, <3>1, FaceParts
      <3>2. CASE Hidden(wo, p) \/ Exists(rw[p])
        <4>1. StatOf(D, rw, wo, p) = StatOf(cd, rw, wo, p)
          BY <1>1, <1>3, <3>2, FaceParts
        <4>2. QED
          BY <1>1, <1>3, <1>8, <4>1, FaceParts DEF FaceOf
      <3>3. QED
        BY <1>10, <3>1, <3>2
    <2>2. \A x \in Paths : Seen(x)' = Seen(x)
      BY <1>5, <1>6, <2>1
    <2>3. Promised!Same
      BY <1>7, <2>2 DEF Promised!Same, View, Links, Present
    <2>4. QED
      BY <2>3 DEF Promised!Look
  <1>11. QED
    BY <1>9, <1>10

\* write to a file that has its name puts the data there; one whose name was
\* taken away may write to a file that users see, or to none.
LEMMA WritePuts ==
    ASSUME CopiesFaithful, TreeInv, Numbered(rw), NEW f \in Fds, NEW d \in Data, doWrite(f, d)
    PROVE  \/ kfile[f].linked /\ Promised!Write(kfile[f].path, d)
           \/ ~kfile[f].linked /\ (Promised!Look \/ \E q \in Paths : Promised!Write(q, d))
  <1> DEFINE end == Reopened(f)
  <1>1. /\ wo' = wo /\ kfile[f].acc = "w"
        /\ \/ /\ UNCHANGED <<cd, rw>> /\ reply' \in {"OK", "ERROR"}
              /\ ~(end.layer = "tmp" /\ end # Nowhere /\ NodeOf(end).kind = "reg")
           \/ /\ end # Nowhere /\ end.layer = "tmp" /\ rw[end.path].kind = "reg"
              /\ rw' = SetData(rw, end.path, d) /\ cd' = cd /\ reply' = "OK"
           \/ /\ end # Nowhere /\ end.layer = "root" /\ cd[end.path].kind = "reg"
              /\ cd' = SetData(cd, end.path, d) /\ rw' = rw /\ reply' = "OK"
    <2>1. Written(d) = {d} /\ ReadEnds(end) \subseteq {"OK", "ERROR"}
      BY ReadEndsPlain DEF Written, CopiesFaithful
    <2>2. /\ wo' = wo /\ kfile[f].acc = "w" /\ ~DiskMayFill
          /\ end.layer = "tmp" => NodeOf(end) = rw[end.path]
          /\ end.layer = "root" => NodeOf(end) = cd[end.path]
      BY DEF doWrite, NodeOf, CopiesFaithful
    <2>3. QED
      BY <2>1, <2>2 DEF doWrite
  <1>2. end # Nowhere => end.path \in Paths
    BY FollowType DEF Reopened
  <1>3. Grown(cd, rw, rw) /\ Alike(cd, rw, rw) /\ Linked(rw, rw)
    BY GrownSame, LinkedSame DEF TreeInv, Sound, Alike
  <1>4. kfile[f].linked =>
            /\ end = [layer |-> "tmp", path |-> kfile[f].path] /\ end # Nowhere
            /\ Present(end.path) /\ end.layer = "tmp" /\ NodeOf(end).kind = "reg"
    <2>1. SUFFICES ASSUME kfile[f].linked
                   PROVE  /\ end = [layer |-> "tmp", path |-> kfile[f].path] /\ end # Nowhere
                          /\ Present(end.path) /\ end.layer = "tmp" /\ NodeOf(end).kind = "reg"
      OBVIOUS
    <2>2. /\ kfile[f].path \in Paths /\ SeesFile(cd, rw, wo, kfile[f].path)
          /\ end = [layer |-> "tmp", path |-> kfile[f].path] /\ end # Nowhere
          /\ NodeOf(end).kind = "reg"
      BY <1>1, <2>1, ReopenedInTmp
    <2>3. Seen(kfile[f].path).kind = "reg"
      BY <2>2, InvTypes, SeenParts, SeenIsSeenOf
    <2>4. QED
      BY <2>2, <2>3 DEF Present, Exists
  <1> HIDE DEF end
  <1>5. CASE /\ UNCHANGED <<cd, rw>> /\ reply' \in {"OK", "ERROR"}
             /\ ~(end.layer = "tmp" /\ end # Nowhere /\ NodeOf(end).kind = "reg")
    BY <1>1, <1>4, <1>5, QuietPromised DEF Promised!Look
  <1>6. CASE /\ end # Nowhere /\ end.layer = "tmp" /\ rw[end.path].kind = "reg"
             /\ rw' = SetData(rw, end.path, d) /\ cd' = cd /\ reply' = "OK"
    <2> DEFINE p == end.path
    <2>1. p \in Paths /\ rw[p].kind = "reg" /\ rw' = SetData(rw, p, d)
      BY <1>2, <1>6
    <2> HIDE DEF p
    <2>2. ASSUME NEW x \in Paths, Present(x), SameFile(p, x) PROVE Promised!Write(x, d)
      <3>1. Promised!Put(x, d)
        BY <1>1, <1>3, <1>6, <2>1, <2>2, DataIsPut
      <3>2. Seen(x).kind = "reg"
        <4>1. rw[x].kind = "reg"
          BY <2>1, <2>2 DEF SameFile, TreeInv, Sound, InodesShared
        <4>2. StatOf(cd, rw, wo, x).kind = "reg"
          BY <2>2, <4>1, InvTypes, FaceParts, SeenParts, SeenIsSeenOf DEF Present, Exists, Absent
        <4>3. QED
          BY <2>2, <4>2, InvTypes, SeenParts, SeenIsSeenOf DEF Present, Exists
      <3>3. QED
        BY <1>6, <3>1, <3>2, SeenIn DEF Promised!Write, Promised!Done
    <2>3. CASE kfile[f].linked
      <3>1. Present(p) /\ SameFile(p, p) /\ p = kfile[f].path
        BY <1>4, <2>3 DEF SameFile, p
      <3>2. QED
        BY <2>1, <2>2, <2>3, <3>1
    <2>4. CASE ~kfile[f].linked /\ \E x \in Paths : Present(x) /\ SameFile(p, x)
      BY <2>2, <2>4
    <2>5. CASE ~kfile[f].linked /\ ~ \E x \in Paths : Present(x) /\ SameFile(p, x)
      <3>1. /\ \A x \in Paths : Seen(x)' = IF Present(x) /\ SameFile(p, x)
                                           THEN [Seen(x) EXCEPT !.data = d] ELSE Seen(x)
            /\ Links' = Links
        BY <1>1, <1>3, <1>6, <2>1, DataShows
      <3>2. \A x \in Paths : Seen(x)' = Seen(x)
        BY <2>5, <3>1
      <3>3. Promised!Same
        BY <3>1, <3>2 DEF Promised!Same, View
      <3>4. QED
        BY <1>6, <2>5, <3>3 DEF Promised!Look
    <2>6. QED
      BY <2>3, <2>4, <2>5
  <1>7. CASE /\ end # Nowhere /\ end.layer = "root" /\ cd[end.path].kind = "reg"
             /\ cd' = SetData(cd, end.path, d) /\ rw' = rw /\ reply' = "OK"
    <2>1. PICK p \in Paths : cd[p].kind = "reg" /\ cd' = SetData(cd, p, d)
      BY <1>2, <1>7
    <2>2. ~kfile[f].linked /\ (Promised!Look \/ Promised!Write(p, d))
      BY <1>1, <1>4, <1>7, <2>1, CdWritePuts
    <2>3. QED
      BY <2>2
  <1>8. QED
    BY <1>1, <1>5, <1>6, <1>7

\* A reconnection may show again what was removed, and changes nothing else.
LEMMA RemountReconnects ==
    ASSUME CopiesFaithful, TreeInv, Remount
    PROVE  Promised!Reconnect
  <1> DEFINE w2 == wo'
  <1>1. /\ wo' \in LoadEnds(wo, DiskMayFill) /\ reply' = "OK" /\ UNCHANGED <<cd, rw>>
        /\ cd \in Layer /\ rw \in Layer /\ Burnt(cd)
    BY InvTypes DEF Remount, TreeInv
  <1>2. ASSUME NEW q, Hidden(w2, q) PROVE Hidden(wo, q)
    <2>1. /\ wo \in Whiteouts(Paths) /\ wo.entries \in Seq(Paths)
          /\ Kept(wo, DiskMayFill) /\ DiskMayFill \in BOOLEAN
      BY InvTypes, DataAssumption DEF TreeInv, Inv, Whiteouts
    <2>2. wo.file = wo.entries
      BY <2>1 DEF Kept, CopiesFaithful
    <2>3. PICK k \in 0 .. Len(wo.entries) : w2.entries = SubSeq(wo.entries, 1, k)
      BY <1>1, <2>1, <2>2, LoadEndsType
    <2>4. PICK i \in 1 .. k : wo.entries[i] = q
      BY <1>2, <2>1, <2>3 DEF Hidden
    <2>5. QED
      BY <2>1, <2>4 DEF Hidden
  <1> HIDE DEF w2
  <1>3. \A p \in Paths : Seen(p)' = SeenOf(cd, rw, w2, p) /\ Seen(p) = SeenOf(cd, rw, wo, p)
    BY <1>1, SeenIsSeenOf DEF w2
  <1>4. ASSUME NEW p \in Paths, Present(p) PROVE Seen(p)' = Seen(p)
    <2>1. WalkOf(cd, rw, wo, p) /\ Exists(StatOf(cd, rw, wo, p))
      BY <1>1, <1>3, <1>4, SeenParts DEF Present, Exists
    <2>2. \A q \in Prefixes(p) : q \in Paths /\ Exists(StatOf(cd, rw, wo, q))
      BY <2>1, Ancestors DEF WalkOf, Exists
    <2>3. \A q \in Prefixes(p) : ~Hidden(wo, q)
      BY <1>1, <2>2, FaceParts DEF Exists, Absent
    <2>4. \A q \in Prefixes(p) : StatOf(cd, rw, w2, q) = StatOf(cd, rw, wo, q)
      BY <1>1, <1>2, <2>2, <2>3, FaceParts
    <2>5. QED
      BY <1>1, <1>3, <2>4, SameFaces DEF FaceOf
  <1>5. View' = [p \in Paths |-> IF Present(p) THEN View[p] ELSE View'[p]]
    BY <1>4 DEF View
  <1>6. \A p, q \in Paths : SameFile(p, q)' <=> SameFile(p, q)
    BY <1>1 DEF SameFile
  <1>7. \A p \in Paths : Present(p) => Present(p)'
    BY <1>4 DEF Present
  <1>8. ASSUME NEW p \in Paths
        PROVE  Links'[p] = IF Present(p) THEN Links[p] \cup {q \in Links'[p] : ~Present(q)}
                           ELSE Links'[p]
    BY <1>6, <1>7, SeenIn
  <1>9. \A p \in Paths : Links[p] \subseteq Paths /\ Links'[p] \subseteq Paths
    BY SeenIn
  <1>10. Links' = [p \in Paths |-> IF Promised!Exists(p)
                                   THEN Links[p] \cup {q \in Links'[p] : ~Promised!Exists(q)}
                                   ELSE Links'[p]]
    <2>1. \A p \in Paths : Links'[p] = IF Promised!Exists(p)
                                       THEN Links[p] \cup {q \in Links'[p] : ~Promised!Exists(q)}
                                       ELSE Links'[p]
      BY <1>8, <1>9, PromisedNames
    <2>2. QED
      BY <2>1 DEF Links
  <1>11. View' = [p \in Paths |-> IF Promised!Exists(p) THEN View[p] ELSE View'[p]]
    BY <1>5, PromisedNames
  <1>12. Promised!IsTree(View')
    <2>1. ASSUME NEW p \in Paths, View'[p].kind # "absent", NEW q \in Above(p)
          PROVE  View'[q].kind = "dir"
      <3>1. q \in Paths /\ Exists(SeenOf(cd, rw, w2, p))
        BY <1>3, <2>1, SeenIn, Ancestors DEF Exists
      <3>2. SeenOf(cd, rw, w2, q).kind = "dir"
        BY <1>1, <2>1, <3>1, WalkSeen
      <3>3. QED
        BY <1>3, <3>1, <3>2, SeenIn
    <2>2. QED
      BY <2>1, PromisedNames DEF Promised!IsTree
  <1>13. QED
    BY <1>1, <1>10, <1>11, <1>12 DEF Promised!Reconnect, Promised!Done

\* A rename that is done: the file has the names it had, the new one in place
\* of the old one, whatever file had the new one.
LEMMA RenamedNames ==
    ASSUME NEW M, Linked(rw, M), NEW old \in Paths, NEW new \in Paths, old # new,
           rw'[new] = M[old], \A q \in Paths \ {old, new} : rw'[q] = M[q],
           Present(old), ~Present(old)', Present(new)',
           \A q \in Paths \ {old, new} : Present(q)' <=> Present(q)
    PROVE  Links' = LET now == (Links[old] \ {old}) \cup {new}
                    IN  [p \in Paths |-> IF p = old THEN {}
                                         ELSE IF p \in now THEN now ELSE Links[p] \ {old, new}]
  <1> DEFINE now == (Links[old] \ {old}) \cup {new}
             others == Paths \ {old, new}
  <1>1. ASSUME NEW p \in others, NEW q \in others
        PROVE  SameFile(p, q)' <=> SameFile(p, q)
    BY <1>1 DEF SameFile, Linked, Shares
  <1>2. ASSUME NEW q \in others
        PROVE  /\ SameFile(new, q)' <=> SameFile(old, q)
               /\ SameFile(q, new)' <=> SameFile(old, q)
    <2>1. rw'[q] = M[q] /\ q # old /\ q # new
      BY <1>2
    <2>2. Shares(M, old, q) <=> Shares(rw, old, q)
      BY <2>1 DEF Linked
    <2>3. QED
      BY <2>1, <2>2 DEF SameFile, Shares
  <1>3. \A q \in Paths : q \in Links[old] <=> Present(q) /\ SameFile(old, q)
    BY SeenIn
  <1>4. SameFile(new, new)'
    BY DEF SameFile
  <1>5. ASSUME NEW p \in others, NEW q \in Paths, SameFile(old, p)
        PROVE  SameFile(p, q) <=> SameFile(old, q)
    BY <1>5 DEF SameFile
  <1>6. ASSUME NEW p \in others, NEW q \in Paths, ~SameFile(old, p), SameFile(p, q)
        PROVE  q # old
    BY <1>6 DEF SameFile
  <1>7. ASSUME NEW p \in Paths
        PROVE  Links'[p] = IF p = old THEN {} ELSE IF p \in now THEN now ELSE Links[p] \ {old, new}
    <2>1. /\ Links'[p] = {q \in Paths : Present(p)' /\ Present(q)' /\ SameFile(p, q)'}
          /\ Links[p] = {q \in Paths : Present(p) /\ Present(q) /\ SameFile(p, q)}
      BY SeenIn
    <2>2. CASE p = old
      BY <2>1, <2>2
    <2>3. CASE p = new
      <3>1. \A q \in Paths : q \in Links'[p] <=> q \in now
        BY <1>2, <1>3, <1>4, <2>1, <2>3
      <3>2. Links'[p] \subseteq Paths /\ now \subseteq Paths
        BY <2>1, SeenIn
      <3>3. QED
        BY <2>3, <3>1, <3>2
    <2>4. CASE p \in others
      <3>1. \A q \in Paths : q \in Links'[p] <=>
                \/ q = new /\ Present(p) /\ SameFile(old, p)
                \/ q \in others /\ q \in Links[p]
        BY <1>1, <1>2, <2>1, <2>4
      <3>2. p \in now <=> Present(p) /\ SameFile(old, p)
        BY <1>3, <2>4
      <3>3. Links'[p] \subseteq Paths /\ now \subseteq Paths /\ Links[p] \subseteq Paths
        BY <2>1, SeenIn
      <3>4. CASE Present(p) /\ SameFile(old, p)
        <4>1. \A q \in others : q \in Links[p] <=> q \in Links[old]
          BY <1>3, <1>5, <2>1, <2>4, <3>4
        <4>2. \A q \in Paths : q \in Links'[p] <=> q \in now
          BY <3>1, <3>4, <4>1
        <4>3. QED
          BY <2>4, <3>2, <3>3, <3>4, <4>2
      <3>5. CASE ~(Present(p) /\ SameFile(old, p))
        <4>1. \A q \in Paths : q \in Links'[p] <=> q \in Links[p] \ {old, new}
          BY <3>1, <3>5
        <4>2. QED
          BY <2>4, <3>2, <3>3, <3>5, <4>1
      <3>6. QED
        BY <3>4, <3>5
    <2>5. QED
      BY <2>2, <2>3, <2>4
  <1>8. Links' = [p \in Paths |-> Links'[p]]
    BY DEF Links
  <1>9. QED
    BY <1>7, <1>8

\* doRename fails and shows nothing, or has moved the file; a directory it
\* never moves.
LEMMA RenamePromised ==
    ASSUME CopiesFaithful, TreeInv, NEW old \in Paths, NEW new \in Paths, doRename(old, new)
    PROVE  Promised!Rename(old, new)
  <1>1. /\ Promised!Exists(old) /\ Promised!Reachable(new) /\ old # new
        /\ Present(old) /\ Walkable(old)
    <2>1. Present(old) /\ (Negative(new) \/ Present(new)) /\ old # new
      BY DEF doRename
    <2>2. QED
      BY <2>1, WalkPromised, PromisedNames
  <1>2. CASE Fails(rw)
    <2>1. rw \in Layer /\ Alike(cd, rw, rw) /\ Linked(rw, rw)
      BY InvTypes, LinkedSame DEF Alike
    <2>2. QED
      BY <1>1, <1>2, <2>1, FailsPromised DEF Promised!Rename
  <1>3. CASE ~Fails(rw)
    <2>1. ~IsDir(cd, rw, old)
      BY <1>3 DEF doRename
    <2>2. PICK M \in CopyUp(cd, rw, old) :
            \/ Fails(M)
            \/ /\ CanRename(M, old, new) /\ cd' = cd /\ reply' = "OK"
               /\ rw' = Renamed(M, old, new) /\ wo' \in HideOldShowNew(old, new)
      BY <1>3, NoHang DEF doRename, Done
    <2>3. Linked(rw, M) /\ M \in Layer /\ Grown(cd, rw, M) /\ Alike(cd, rw, M)
      BY <1>1, SeenCopyLinked
    <2>4. CASE Fails(M)
      BY <1>1, <2>3, <2>4, FailsPromised DEF Promised!Rename
    <2>5. CASE /\ CanRename(M, old, new) /\ cd' = cd /\ reply' = "OK"
               /\ rw' = Renamed(M, old, new) /\ wo' \in HideOldShowNew(old, new)
      <3> DEFINE N == rw'
                 w2 == wo'
                 T == {old, new}
      <3>1. /\ Stat(old).kind # "dir" /\ Stat(new).kind # "dir" /\ M[old].kind # "dir"
            /\ old # <<>> /\ new # <<>>
        BY <1>1, <2>1, <2>3, RenameBefore, WalkReached, CopyUpGrows DEF TreeInv
      <3>2. cd \in Layer /\ rw \in Layer /\ IsTree(M) /\ InodesShared(M)
        BY <2>3, InvTypes DEF Grown
      <3>3. /\ N \in Layer /\ N[new] = M[old]
            /\ \A q \in Paths \ T : N[q] = M[q]
        BY <1>1, <2>3, <2>5, <3>1, <3>2, RenamedTree
      <3>4. /\ ~Hidden(w2, new) /\ Hidden(w2, old)
            /\ \A q \in Paths \ T : Hidden(w2, q) <=> Hidden(wo, q)
        BY <1>1, <2>5, HideOldShowNewHides
      <3>5. Seen(new)' = Seen(old) /\ ~Present(old)'
        BY <2>5, RenameDone
      <3> HIDE DEF N, w2
      <3>6. /\ StatOf(cd, M, wo, old).kind # "dir"
            /\ StatOf(cd, M, wo, new).kind # "dir"
        <4>1. FaceOf(cd, M, wo, old) = FaceOf(cd, rw, wo, old)
              /\ FaceOf(cd, M, wo, new) = FaceOf(cd, rw, wo, new)
          BY <2>3, <3>2, AlikeFaces
        <4>2. QED
          BY <2>3, <3>1, <3>2, <4>1, FaceParts, SeenIsSeenOf
      <3>7. /\ StatOf(cd, N, w2, old).kind # "dir"
            /\ StatOf(cd, N, w2, new).kind # "dir"
        BY <2>5, <3>1, <3>2, <3>3, <3>4, FaceParts DEF Absent, CanRename
      <3>8. T \in SUBSET Paths /\ Ends(M, T)
        BY <2>5, <3>3, <3>4, <3>6, <3>7 DEF N, w2, Ends
      <3>9. \A q \in Paths \ T : Seen(q)' = Seen(q)
        BY <2>3, <3>8, EndShowsAlike
      <3>10. Seen(old)' = Absent
        <4>1. SeenOf(cd, N, w2, old) = Seen(old)' /\ Burnt(cd)
          BY <2>5, SeenIsSeenOf DEF N, w2, TreeInv
        <4>2. ~Exists(SeenOf(cd, N, w2, old))
          BY <3>5, <4>1 DEF Present
        <4>3. SeenOf(cd, N, w2, old) = Absent
          BY <3>2, <3>3, <4>1, <4>2, NothingSeen
        <4>4. QED
          BY <4>1, <4>3
      <3>11. Promised!IsFile(old) /\ View[new].kind # "dir"
        <4>1. Seen(old).kind # "dir" /\ Seen(new).kind # "dir"
          BY <3>1, <3>2, SeenParts, SeenIsSeenOf
        <4>2. QED
          BY <1>1, <4>1, PromisedNames, SeenIn DEF Present, Exists
      <3>12. View' = [View EXCEPT ![new] = View[old], ![old] = Absent]
        BY <1>1, <3>5, <3>9, <3>10 DEF View
      <3>13. /\ \A q \in Paths \ {old, new} : Present(q)' <=> Present(q)
             /\ Present(new)'
        BY <1>1, <3>5, <3>9 DEF Present, Exists
      <3>14. rw'[new] = M[old] /\ \A q \in Paths \ {old, new} : rw'[q] = M[q]
        BY <3>3 DEF N
      <3>15. Links' = LET now == (Links[old] \ {old}) \cup {new}
                      IN  [p \in Paths |-> IF p = old THEN {}
                                           ELSE IF p \in now THEN now ELSE Links[p] \ {old, new}]
        BY <1>1, <2>3, <3>5, <3>13, <3>14, RenamedNames
      <3>16. QED
        BY <1>1, <2>5, <3>11, <3>12, <3>15 DEF Promised!Rename, Promised!Done
    <2>6. QED
      BY <2>2, <2>4, <2>5
  <1>4. QED
    BY <1>2, <1>3

\* Each request is the system call it is for, to the tree that users see.
LEMMA NextPromised ==
    ASSUME CopiesFaithful, TreeInv, Numbered(rw)
    PROVE  KeepsPromises
  <1>1. ASSUME NEW p \in Paths
        PROVE  /\ doMkdir(p) => Promised!Mkdir(p)
               /\ doRmdir(p) => Promised!Rmdir(p)
               /\ doUnlink(p) => Promised!Unlink(p)
               /\ doCreate(p) => Promised!Creat(p)
               /\ doSetattr(p, TRUE) => Promised!Truncate(p)
    BY MkdirMakes, RmdirTakes, UnlinkTakes, CreateMakes, TruncateEmpties
  <1>2. ASSUME NEW p \in Paths, NEW acc \in {"r", "w"}, NEW creat \in BOOLEAN, NEW trunc \in BOOLEAN,
               doOpen(p, acc, creat, trunc)
        PROVE  Promised!Open(p, creat, trunc)
    BY <1>2, OpenKeeps
  <1>3. ASSUME NEW p \in Paths, NEW q \in Paths
        PROVE  /\ doRename(p, q) => Promised!Rename(p, q)
               /\ doLink(p, q) => Promised!Link(p, q)
               /\ \A text \in Texts : doSymlink(text, p) => Promised!Symlink(text, p)
    BY RenamePromised, LinkAddsName, SymlinkMakes
  <1>4. ASSUME NEW f \in Fds, NEW d \in Data, doWrite(f, d)
        PROVE  \/ kfile[f].linked /\ Promised!Write(kfile[f].path, d)
               \/ ~kfile[f].linked /\ (Promised!Look \/ \E q \in Paths : Promised!Write(q, d))
    BY <1>4, WritePuts
  <1>5. ASSUME \/ \E p \in Paths : doStat(p) \/ doReadlink(p) \/ doReaddir(p) \/ doSetattr(p, FALSE)
               \/ \E f \in Fds : doRead(f) \/ doRelease(f)
        PROVE  Promised!Look
    BY <1>5, ReadersLook
  <1>6. Remount => Promised!Reconnect
    BY RemountReconnects
  <1>7. QED
    BY <1>1, <1>2, <1>3, <1>4, <1>5, <1>6 DEF KeepsPromises

\* In the empty rw_tmp there is a directory.
LEMMA InitNumbered == Init => Numbered(rw)
  BY DEF Init, Numbered, DirNode, Absent, Made

\* A mount that was just started shows the CD, every file under one name.
LEMMA InitPromised ==
    ASSUME Init
    PROVE  Promised!Init
  <1>1. cd = Image /\ rw = [p \in Paths |-> IF p = <<>> THEN DirNode ELSE Absent]
    BY DEF Init
  <1>2. cd \in Layer /\ rw \in Layer /\ IsTree(cd) /\ Burnt(cd) /\ \A p : ~Hidden(wo, p)
    BY InitTree, InvTypes DEF TreeInv, Sound, Init, Hidden
  <1>3. ASSUME NEW p \in Paths PROVE StatOf(cd, rw, wo, p) = cd[p] /\ rw[p].ino = NoIno
    <2>1. CASE p = <<>>
      BY <1>1, <1>2, <2>1, FaceParts DEF IsTree, DirNode, Exists
    <2>2. CASE p # <<>>
      BY <1>1, <1>2, <2>2, FaceParts DEF Absent, Exists
    <2>3. QED
      BY <2>1, <2>2
  <1>4. ASSUME NEW p \in Paths PROVE Seen(p) = Image[p]
    <2>1. Image[p] \in Node /\ Image[p].ino = NoIno
      BY ImageAssumption DEF Layer
    <2>2. FaceOf(cd, rw, wo, p) = Image[p]
      BY <1>1, <1>3, <2>1 DEF FaceOf, Face, Node
    <2>3. CASE Exists(Image[p])
      <3>1. \A q \in Above(p) : q \in Paths /\ cd[q].kind = "dir"
        BY <1>1, <1>2, <2>3, Ancestors, TreeAncestors
      <3>2. WalkOf(cd, rw, wo, p)
        BY <1>3, <3>1 DEF WalkOf
      <3>3. QED
        BY <1>2, <2>2, <3>2, FaceParts, SeenIsSeenOf
    <2>4. CASE ~Exists(Image[p])
      BY <1>2, <2>2, <2>4, FaceParts, SeenIsSeenOf, ImageAssumption DEF Exists
    <2>5. QED
      BY <2>3, <2>4
  <1>5. View = Image
    BY <1>4, ImageAssumption DEF View, Layer
  <1>6. Links = [p \in Paths |-> IF Present(p) THEN {p} ELSE {}]
    <2>1. \A p, q \in Paths : SameFile(p, q) <=> p = q
      BY <1>3 DEF SameFile
    <2>2. QED
      BY <2>1 DEF Links
  <1>7. \A p \in Paths : Promised!Exists(p) <=> Present(p)
    BY PromisedNames
  <1>8. QED
    BY <1>5, <1>6, <1>7 DEF Promised!Init, Init

\* Each request is a step of the tree that is promised.
LEMMA NextSteps ==
    ASSUME CopiesFaithful, TreeInv, Numbered(rw), [Next]_vars
    PROVE  [Promised!Next]_<<View, Links, reply>>
  <1>1. CASE UNCHANGED vars
    BY <1>1, QuietPromised DEF vars, Promised!Same
  <1>2. ASSUME NEW p \in Paths,
               \/ doStat(p) \/ doReadlink(p) \/ doReaddir(p) \/ doSetattr(p, FALSE)
               \/ doMkdir(p) \/ doRmdir(p) \/ doUnlink(p) \/ doCreate(p) \/ doSetattr(p, TRUE)
        PROVE  Promised!Next
    BY <1>2, NextPromised DEF KeepsPromises, Promised!Next
  <1>3. ASSUME NEW p \in Paths, NEW acc \in {"r", "w"}, NEW creat \in BOOLEAN, NEW trunc \in BOOLEAN,
               doOpen(p, acc, creat, trunc)
        PROVE  Promised!Next
    BY <1>3, OpenKeeps DEF Promised!Next
  <1>4. ASSUME NEW p \in Paths, NEW q \in Paths, doRename(p, q) \/ doLink(p, q)
        PROVE  Promised!Next
    BY <1>4, RenamePromised, LinkAddsName DEF Promised!Next
  <1>5. ASSUME NEW p \in Paths, NEW text \in Texts, doSymlink(text, p)
        PROVE  Promised!Next
    BY <1>5, SymlinkMakes DEF Promised!Next
  <1>6. ASSUME NEW f \in Fds, doRead(f) \/ doRelease(f)
        PROVE  Promised!Next
    BY <1>6, ReadersLook DEF Promised!Next
  <1>7. ASSUME NEW f \in Fds, NEW d \in Data, doWrite(f, d)
        PROVE  Promised!Next
    <2>1. kfile[f].path \in Paths
      BY InvTypes DEF KFile
    <2>2. Promised!Look \/ \E q \in Paths : Promised!Write(q, d)
      BY <1>7, <2>1, WritePuts
    <2>3. QED
      BY <2>2 DEF Promised!Next
  <1>8. CASE Remount
    BY <1>8, RemountReconnects DEF Promised!Next
  <1>9. ASSUME NEW p \in Paths, NEW shrink \in BOOLEAN, doSetattr(p, shrink)
        PROVE  Promised!Next
    BY <1>2, <1>9
  <1>10. QED
    BY <1>1, <1>2, <1>3, <1>4, <1>5, <1>6, <1>7, <1>8, <1>9 DEF Next

\* Every request, whatever was done before it, has the effect of the system
\* call it is for or none, on a CD without symbolic links.
THEOREM RequestsAsPromised ==
    ASSUME CopiesFaithful
    PROVE  Spec => RequestsKeepPromises
  <1>1. TreeInv /\ Numbered(rw) /\ [Next]_vars => [KeepsPromises]_vars
    BY NextPromised
  <1>2. TreeInv /\ Numbered(rw) /\ [Next]_vars => Numbered(rw)'
    BY NextNumbered DEF Numbered
  <1>3. QED
    BY InitTree, InitNumbered, NextTree, <1>1, <1>2, PTL DEF Spec, RequestsKeepPromises

\* The two layers, with the names that are hidden and the copies that are made,
\* implement one tree of files: the CD's to begin with.
THEOREM LooksLikeOneTree ==
    ASSUME CopiesFaithful
    PROVE  Spec => ImplementsUnionView
  <1>1. Init => Promised!Init
    BY InitPromised
  <1>2. TreeInv /\ Numbered(rw) /\ [Next]_vars => [Promised!Next]_<<View, Links, reply>>
    BY NextSteps
  <1>3. TreeInv /\ Numbered(rw) /\ [Next]_vars => Numbered(rw)'
    BY NextNumbered DEF Numbered
  <1>4. QED
    BY InitTree, InitNumbered, NextTree, <1>1, <1>2, <1>3, PTL
       DEF Spec, ImplementsUnionView, Promised!Spec
=============================================================================
