------------------------- MODULE LiveCDFSProperties -------------------------
(***************************************************************************)
(* What LiveCDFS keeps true, request after request.                        *)
(***************************************************************************)
EXTENDS LiveCDFS

\* Every variable has its type.
TypeOK ==
    /\ cd \in Layer
    /\ rw \in Layer
    /\ wo \in Whiteouts(Paths)
    /\ handles \in [Paths -> Nat]
    /\ kfile \in [Fds -> KFile]
    /\ reply \in {"OK", "ERROR", "none"}

\* Neither the list of hidden names nor the file .whiteout ever holds a name
\* twice (setVisible(true) erases one entry only); and unless the disk fills,
\* the file is the list.
WhiteoutsStored ==
    /\ \A s \in {wo.entries, wo.file} : \A i, j \in 1 .. Len(s) : s[i] = s[j] => i = j
    /\ ~DiskMayFill => wo.file = wo.entries

\* A store that fails may lose names from .whiteout, or leave some that have
\* been shown since.  Those rw_tmp has, or nobody has: what a reconnection reads
\* there never hides a file of the CD that shows.
ListedNotSeenOnCD ==
    \A i \in 1 .. Len(wo.file) :
        LET p == wo.file[i] IN Hidden(wo, p) \/ Exists(rw[p]) \/ ~Exists(cd[p])

\* A file that is open under a name it still has can be read under that name,
\* and one open for writing is in rw_tmp, where doWrite will find it: doRead
\* and doWrite open the file again by name and rely on this.
OpenFilesReachable ==
    \A f \in Fds : kfile[f].linked =>
        /\ Seen(kfile[f].path).kind = "reg"
        /\ kfile[f].acc = "w" => rw[kfile[f].path].kind = "reg"

\* doReaddir, which merges two directories and skips what the first one had,
\* and doStat, which looks in one layer, agree on what a directory holds.
ListingAgreesWithStat ==
    \A d \in Paths : Seen(d).kind = "dir" =>
        Listing(d) = {p \in Paths : p # <<>> /\ Parent(p) = d /\ Present(p)}

----------------------------------------------------------------------------
\* A name of the same file as p.
SameFile(p, q) == p = q \/ (rw[p].ino # NoIno /\ rw[p].ino = rw[q].ino)

\* What a user sees under a name changes only by a request for that name, or
\* for a directory above it, or by a write to the same file; only a file whose
\* name was taken away may write to what its name now leads to.  Mirroring
\* directories, copying up and hiding names never show through elsewhere, and
\* no removed name comes back by a request for another one.
Explained(p) ==
    \/ doMkdir(p) \/ doRmdir(p) \/ doUnlink(p) \/ doCreate(p)
    \/ \E q \in Above(p) : doMkdir(q) \/ doRmdir(q)
    \/ \E q \in Paths : \/ doRename(p, q) \/ doRename(q, p)
                        \/ doLink(q, p) \/ doLink(p, q)
                        \/ SameFile(p, q) /\ doSetattr(q, TRUE)
                        \/ SameFile(p, q) /\ \E creat, trunc \in BOOLEAN : doOpen(q, "w", creat, trunc)
    \/ doOpen(p, "r", TRUE, FALSE)
    \/ doSetattr(p, FALSE)
    \/ \E text \in Texts : \/ doSymlink(text, p)
                           \/ \E q \in Paths : text.path = p /\ doSymlink(text, q)
    \/ \E f \in Fds, d \in Data :
         doWrite(f, d) /\ \/ SameFile(p, kfile[f].path)
                          \/ ~kfile[f].linked /\ SameFile(p, Reopened(f).path)
    \/ Remount
OnlyNamedChange ==
    [][\A p \in Paths : Seen(p)' # Seen(p) => Explained(p)]_vars

\* A request the daemon answers with an error has changed nothing a user can
\* see; rmdir is the exception: it hides a directory of the CD that rmdir() of
\* its copy has just refused to remove.  Copy-up runs before the step that
\* fails, so this needs files that copy faithfully.
ErrorsChangeNothing ==
    [][\/ reply' # "ERROR"
       \/ \E d \in Paths : doRmdir(d)
       \/ View' = View]_vars

\* Opening without O_CREAT or O_TRUNC, changing attributes, listing a
\* directory, reading and closing copy files and make directories in rw_tmp
\* and yet show nothing to a user.
CopyUpTransparent ==
    [][(\/ \E p \in Paths : \/ doReaddir(p) \/ doSetattr(p, FALSE)
                            \/ \E acc \in {"r", "w"} : doOpen(p, acc, FALSE, FALSE)
        \/ \E f \in Fds : doRead(f) \/ doRelease(f))
        => View' = View]_vars

\* A rename the daemon reports done has moved what was seen: the new name
\* shows it, the old one shows nothing although the CD may still hold it.
RenameMoves ==
    [][\A p, q \in Paths : (doRename(p, q) /\ reply' = "OK") =>
            Seen(q)' = Seen(p) /\ ~Present(p)']_vars

\* A request that copies a file up without writing to it changes nothing a
\* user sees, but that a full disk may tear the file, and only when it is
\* copied: what rw_tmp has already is never copied again.
CopyUpKeepsOrTears ==
    [][(\E p \in Paths : \/ doSetattr(p, FALSE) \/ \E q \in Paths : doLink(p, q)
                         \/ \E acc \in {"r", "w"} : doOpen(p, acc, FALSE, FALSE))
       => \A q \in Paths : \/ Seen(q)' = Seen(q) \/ ~Present(q)
                           \/ /\ DiskMayFill /\ ~Exists(rw[q])
                              /\ Seen(q)' = [Seen(q) EXCEPT !.data = Torn]]_vars

\* What is written to a file that still has its name is what that name shows.
\* When the disk is full it may show a torn content, with an answer that says
\* otherwise, or the answer is an error and nothing has changed.
WritesAreSeen ==
    [][\A f \in Fds, d \in Data : (doWrite(f, d) /\ kfile[f].linked) =>
            \/ reply' = "OK" /\ Seen(kfile[f].path)'.data = d
            \/ DiskMayFill /\ reply' = "OK" /\ Seen(kfile[f].path)'.data = Torn
            \/ DiskMayFill /\ reply' = "ERROR" /\ View' = View]_vars

\* Even where ro_root accepts writes, only a file that was open when its name
\* was removed can be written there.
OnlyUnlinkedFilesReachRoot ==
    [][cd' # cd => \E f \in Fds, d \in Data : doWrite(f, d) /\ ~kfile[f].linked]_vars

\* A request goes unanswered for two reasons only.  It copies a name of the CD
\* that is no directory and leads to what has no end there: a directory, a
\* pipe, a scratch, a device.  Of a directory itself copyTmp makes a directory.
\* Or it is for a file whose name was taken away and now leads to a device or
\* a pipe.  (Absolute links of the CD lead nowhere in the model.)
HangsOnlyWithoutEnd ==
    [][reply' = "none" =>
        \/ \E p \in Paths :
              LET src == Follow(cd, rw, "root", p) IN
              /\ cd[p].kind # "dir" /\ ~Exists(rw[p]) /\ Exists(rw[p])'
              /\ src.layer = "root" /\ NeverEnds(cd, src.path)
        \/ \E f \in Fds : /\ IsOpen(f) /\ ~kfile[f].linked
                          /\ NodeOf(Reopened(f)).kind \in {"chr", "blk", "fifo"}]_vars

----------------------------------------------------------------------------
(***************************************************************************)
(* The tree of files that users are promised.                              *)
(***************************************************************************)

\* The names users see of the file p.
Links == [p \in Paths |-> {q \in Paths : SameFile(p, q) /\ Present(p) /\ Present(q)}]

Promised == INSTANCE UnionView WITH
    tree <- View, names <- Links, OnCD <- Image, EmptyFile <- File(NoIno, Empty)

\* Two layers, a list of hidden names and copies made on the way look like one
\* tree of files, hard links included.
ImplementsUnionView == Promised!Spec

\* Each request has the effect of the system call it is for, whole and no
\* other, or fails and has none.  A file whose name was taken away may write
\* to what the name leads to now.
KeepsPromises ==
    /\ \/ \E p \in Paths : doStat(p) \/ doReadlink(p) \/ doReaddir(p) \/ doSetattr(p, FALSE)
       \/ \E f \in Fds : doRead(f) \/ doRelease(f)
       => Promised!Look
    /\ \A p \in Paths :
         /\ doMkdir(p) => Promised!Mkdir(p)
         /\ doRmdir(p) => Promised!Rmdir(p)
         /\ doUnlink(p) => Promised!Unlink(p)
         /\ doCreate(p) => Promised!Creat(p)
         /\ doSetattr(p, TRUE) => Promised!Truncate(p)
         /\ \A acc \in {"r", "w"}, creat, trunc \in BOOLEAN :
                 doOpen(p, acc, creat, trunc) => Promised!Open(p, creat, trunc)
         /\ \A q \in Paths : /\ doRename(p, q) => Promised!Rename(p, q)
                             /\ doLink(p, q) => Promised!Link(p, q)
         /\ \A text \in Texts : doSymlink(text, p) => Promised!Symlink(text, p)
    /\ \A f \in Fds, d \in Data : doWrite(f, d) =>
            \/ kfile[f].linked /\ Promised!Write(kfile[f].path, d)
            \/ ~kfile[f].linked /\ (Promised!Look \/ \E q \in Paths : Promised!Write(q, d))
    /\ Remount => Promised!Reconnect

\* So does every request a mount serves.
RequestsKeepPromises == [][KeepsPromises]_vars
=============================================================================
