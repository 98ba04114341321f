----------------------------- MODULE UnionPath -----------------------------
(***************************************************************************)
(* The class Path of LiveCDFS: names of the mounted file system resolved   *)
(* over two layers, the writable directory rw_tmp and the CD ro_root.  A   *)
(* layer maps every name of the model to a node.  The operators below say  *)
(* what each method of Path returns, and how it changes rw_tmp; they look  *)
(* at the layers only and, like the code, never at the whiteouts.          *)
(***************************************************************************)
EXTENDS Naturals, Sequences, FiniteSets, SequencesExt

CONSTANTS
    Names,       \* the components names are made of
    Paths,       \* the names of the model: sequences of components, <<>> is "/"
    Inodes,      \* inodes rw_tmp can give to files; none free is ENOSPC
    NoIno,       \* the inode of a node that is not a file of rw_tmp
    Data,        \* contents of files
    Empty,       \* the content of a new file
    Torn,        \* what is left of a content when reads or writes came up short
    DiskMayFill, \* TRUE: the disk may be full: a write fails or comes up short
    Endless      \* names on the CD that are not read to an end: a file on a
                 \* scratch, where read() fails, a device that always has more

ASSUME PathsAssumption ==
    /\ Paths \subseteq Seq(Names)
    /\ <<>> \in Paths
    /\ \A p \in Paths : Prefixes(p) \subseteq Paths

ASSUME DataAssumption ==
    /\ {Empty, Torn} \subseteq Data
    /\ NoIno \notin Inodes
    /\ DiskMayFill \in BOOLEAN
    /\ Endless \subseteq Paths

Parent(p) == Front(p)

\* The ancestors of p, p excluded.
Above(p) == Prefixes(p) \ {p}

(***************************************************************************)
(* Nodes.  The text of a symbolic link is a name of the mount, relative or *)
(* absolute, or an absolute path into one of the layers (doSymlink writes  *)
(* those); "none" stands for the text of a node that is not a link.        *)
(***************************************************************************)
FileKinds == {"reg", "lnk", "blk", "chr", "fifo", "sock"}
Kinds == {"absent", "dir"} \cup FileKinds
Text  == [form : {"none", "rel", "abs", "tmp", "root"}, path : Paths]
NoText == [form |-> "none", path |-> <<>>]
Node  == [kind : Kinds, ino : Inodes \cup {NoIno}, data : Data, to : Text]

Absent  == [kind |-> "absent", ino |-> NoIno, data |-> Empty, to |-> NoText]
DirNode == [kind |-> "dir", ino |-> NoIno, data |-> Empty, to |-> NoText]
File(i, d) == [kind |-> "reg", ino |-> i, data |-> d, to |-> NoText]
Link(t) == [kind |-> "lnk", ino |-> NoIno, data |-> Empty, to |-> t]

Layer == [Paths -> Node]
Put(L, p, n) == [q \in Paths |-> IF q = p THEN n ELSE L[q]]

(***************************************************************************)
(* Path::exists(path, flags) tests (st_mode & flags) == flags, and the     *)
(* S_IFMT values share bits: a link passes for a regular file, a block     *)
(* device for a directory, a socket for both.  Each kind is given as the   *)
(* set of its bits.                                                        *)
(***************************************************************************)
ModeBits(kind) ==
    CASE kind = "reg" -> {8}
      [] kind = "dir" -> {4}
      [] kind = "lnk" -> {8, 2}
      [] kind = "sock" -> {8, 4}
      [] kind = "blk" -> {4, 2}
      [] kind = "chr" -> {2}
      [] kind = "fifo" -> {1}
      [] OTHER -> {}

Exists(node)        == node.kind # "absent"
HasMode(node, kind) == Exists(node) /\ ModeBits(kind) \subseteq ModeBits(node.kind)

\* A layer is a tree: what exists is in a directory.
IsTree(L) ==
    /\ L[<<>>] = DirNode
    /\ \A p \in Paths \ {<<>>} : Exists(L[p]) => L[Parent(p)].kind = "dir"

\* A name that need not be one of the model's: nothing is there.
At(L, p) == IF p \in Paths THEN L[p] ELSE Absent

\* Mutant of LayerOf: the CD first.
LayerOfCdFirst(cd, rw, p) == IF Exists(At(cd, p)) THEN "root" ELSE "tmp"

\* Path::mkpath: the layer the daemon works on, rw_tmp first, and what is there.
LayerOf(cd, rw, p) == IF Exists(At(rw, p)) THEN "tmp" ELSE "root"
MkPath(cd, rw, p)  == At(IF LayerOf(cd, rw, p) = "tmp" THEN rw ELSE cd, p)

\* The text of a link read as a name of the mount; a path into a layer is
\* not the name of anything below the mount.
NamedBy(text) == IF text.form \in {"rel", "abs"} THEN {text.path} ELSE {}

\* Path::isDir: a directory, or a link whose text names one; a relative text
\* is looked up from "/" and not from the directory of the link.
IsDir(cd, rw, p) ==
    LET n == MkPath(cd, rw, p) IN
    \/ HasMode(n, "dir")
    \/ HasMode(n, "lnk") /\ \E q \in NamedBy(n.to) : HasMode(MkPath(cd, rw, q), "dir")

\* Mutant of GetDir: the parent, whatever the name is.
GetDirParent(cd, rw, p) == IF p = <<>> THEN p ELSE Parent(p)

\* Path::getDir: the name itself if it is a directory, else its parent.  The
\* code's "" for a name in "/" is <<>> here: both make no directory.
GetDir(cd, rw, p) == IF IsDir(cd, rw, p) \/ p = <<>> THEN p ELSE Parent(p)

\* Path::recurseMkdir: makes in rw_tmp the missing directories down to p; the
\* first mkdir() below something that is not a directory fails.
RecurseMkdir(rw, p) ==
    IF \A q \in Prefixes(p) : rw[q].kind \in {"absent", "dir"}
    THEN [q \in Paths |-> IF q \in Prefixes(p) /\ ~Exists(rw[q]) THEN DirNode ELSE rw[q]]
    ELSE rw

\* if ((dir.length() != 0) && !path->isTmp(dir)) recurseMkdir(dir): how the
\* operations prepare rw_tmp for the name p.
MakeDirFor(cd, rw, p) == RecurseMkdir(rw, GetDir(cd, rw, p))

----------------------------------------------------------------------------
(***************************************************************************)
(* What the kernel does for the daemon on a layer.                         *)
(***************************************************************************)

\* A new entry p can be made in rw_tmp: its directory is there, p is not.
CanAdd(rw, p) == p # <<>> /\ rw[Parent(p)].kind = "dir" /\ ~Exists(rw[p])

FreeInodes(rw) == {i \in Inodes : \A p \in Paths : rw[p].ino # i}
NextIno(rw)    == CHOOSE i \in FreeInodes(rw) : TRUE

\* mknod(), or open(O_CREAT), of a new regular file with content d.
CanCreate(rw, p)   == CanAdd(rw, p) /\ FreeInodes(rw) # {}
NewFile(rw, p, d)  == Put(rw, p, File(NextIno(rw), d))

\* All the names of a file change with it.
SetData(L, p, d) ==
    [q \in Paths |-> IF q = p \/ (L[p].ino # NoIno /\ L[q].ino = L[p].ino)
                     THEN [L[q] EXCEPT !.data = d] ELSE L[q]]

\* Where an open() or a stat() of name p in the given layer ends: links are
\* followed once, from the directory of the link when their text is relative.
\* An absolute text that is no path into a layer leads out of the model.
Nowhere == [layer |-> "none", path |-> <<>>]
Follow(cd, rw, layer, p) ==
    LET n == At(IF layer = "tmp" THEN rw ELSE cd, p)
        t == n.to
        end == IF n.kind # "lnk" THEN [layer |-> layer, path |-> p]
               ELSE CASE t.form = "rel" -> [layer |-> layer, path |-> Parent(p) \o t.path]
                      [] t.form \in {"tmp", "root"} -> [layer |-> t.form, path |-> t.path]
                      [] OTHER -> Nowhere
        found == At(IF end.layer = "tmp" THEN rw ELSE cd, end.path)
    IN  IF end = Nowhere \/ found.kind \in {"absent", "lnk"} THEN Nowhere ELSE end

\* Mutant of CopyTmp: the loop that copies is left out.
CopyTmpNoData(cd, rw, p) ==
    LET rw1 == MakeDirFor(cd, rw, p)
    IN  {IF CanCreate(rw1, p) /\ Follow(cd, rw1, "root", p) # Nowhere
         THEN NewFile(rw1, p, Empty) ELSE rw1}

\* What copyTmp can make of the content of a file q of the CD.  open() of a
\* socket fails, and a directory and a pipe give nothing.
CopyOf(L, q) ==
    IF L[q].kind \in {"dir", "fifo", "sock"} THEN {Empty}
    ELSE IF q \in Endless THEN {Empty, Torn}
    ELSE {L[q].data} \cup (IF DiskMayFill THEN {Torn} ELSE {})

(***************************************************************************)
(* Path::copyTmp: copies p from the CD to rw_tmp and returns nothing its   *)
(* callers look at.  stat() and open() follow links, so a link of the CD   *)
(* is copied as the file it leads to.  The count write() returns is not    *)
(* looked at.  The result is the set of possible layers.                   *)
(***************************************************************************)
CopyTmp(cd, rw, p) ==
    LET rw1 == MakeDirFor(cd, rw, p)
        src == Follow(cd, rw1, "root", p)
    IN  IF src = Nowhere \/ ~CanCreate(rw1, p) THEN {rw1}
        ELSE {NewFile(rw1, p, d) : d \in CopyOf(cd, src.path)}

\* The loop of copyTmp runs until read() returns 0.  It never does for a
\* directory or on a scratch, where it is -1, nor for a device without end;
\* and open() of a pipe waits for somebody to write to it.
NeverEnds(L, q) == L[q].kind \in {"dir", "fifo"} \/ (L[q].kind # "sock" /\ q \in Endless)

CopyHangs(cd, rw, p) ==
    LET rw1 == MakeDirFor(cd, rw, p)
        src == Follow(cd, rw1, "root", p)
    IN  src # Nowhere /\ CanCreate(rw1, p) /\ NeverEnds(cd, src.path)

\* Mutant of CopyUp: what rw_tmp has is written over.
CopyUpAgain(cd, rw, p) ==
    IF Exists(rw[p]) THEN {rw} \cup {SetData(rw, p, d) : d \in CopyOf(cd, p)} ELSE CopyTmp(cd, rw, p)

\* if (!exists(mktmp(p))) copyTmp(p): the callers' use of it.
CopyUp(cd, rw, p)      == IF Exists(rw[p]) THEN {rw} ELSE CopyTmp(cd, rw, p)
CopyUpHangs(cd, rw, p) == ~Exists(rw[p]) /\ CopyHangs(cd, rw, p)
=============================================================================
