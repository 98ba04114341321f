----------------------------- MODULE UnionView -----------------------------
(***************************************************************************)
(* What users of a LiveCDFS mount are promised: a tree of files that is    *)
(* the CD's to begin with and that they change as they would any other,    *)
(* hard links included.  A system call has its effect, or ends with an     *)
(* error and has none.  Where the promise is less than that, it is said    *)
(* here: rmdir, mkdir, open with O_CREAT, and a reconnection.              *)
(***************************************************************************)
EXTENDS Sequences, SequencesExt

CONSTANTS
    Paths, Texts, Data,
    OnCD,                       \* the node each name has on the CD
    Absent, DirNode, EmptyFile  \* no node, a directory, a new file

VARIABLES
    tree,   \* the node under each name
    names,  \* all the names of the file that a name is one of
    reply

Above(p)     == Prefixes(p) \ {p}
Below(d)     == {p \in Paths : d \in Prefixes(p)}
Exists(p)    == tree[p].kind # "absent"
IsFile(p)    == tree[p].kind \notin {"absent", "dir"}
Reachable(p) == \A q \in Above(p) : tree[q].kind = "dir"
Free(p)      == ~Exists(p) /\ Reachable(p)
IsTree(t)    == \A p \in Paths : t[p].kind # "absent" => \A q \in Above(p) : t[q].kind = "dir"

Init ==
    /\ tree = OnCD
    /\ names = [p \in Paths |-> IF Exists(p) THEN {p} ELSE {}]
    /\ reply = "OK"

Same  == UNCHANGED <<tree, names>>
Done  == reply' = "OK"
Fails == reply' = "ERROR" /\ Same

\* p is given a node of its own.
Make(p, node) ==
    tree' = [tree EXCEPT ![p] = node] /\ names' = [names EXCEPT ![p] = {p}]

\* The names S are taken away.
Gone(S) ==
    /\ tree'  = [p \in Paths |-> IF p \in S THEN Absent ELSE tree[p]]
    /\ names' = [p \in Paths |-> IF p \in S THEN {} ELSE names[p] \ S]

\* The file p, under all of its names, holds d.
Put(p, d) ==
    /\ tree' = [q \in Paths |-> IF q \in names[p] THEN [tree[q] EXCEPT !.data = d] ELSE tree[q]]
    /\ names' = names

----------------------------------------------------------------------------
(***************************************************************************)
(* The system calls.                                                       *)
(***************************************************************************)

\* stat, readlink, readdir, read, close, chmod and the like.
Look == Same /\ reply' \in {"OK", "ERROR"}

Creat(p) == Free(p) /\ (Fails \/ (Done /\ Make(p, EmptyFile)))

\* The link leads where it was made to; an absolute text may be rewritten.
LeadsTo(node, text) ==
    node.kind = "lnk" /\ node.to.path = text.path /\ (text.form = "rel" => node.to = text)

Symlink(text, l) == Free(l) /\ (Fails \/ (Done /\ Make(l, tree'[l]) /\ LeadsTo(tree'[l], text)))

\* What the CD has below a directory that was removed comes back with it.
Mkdir(d) ==
    /\ Free(d)
    /\ \/ Fails
       \/ /\ Done /\ IsTree(tree')
          /\ tree'  = [p \in Paths |-> IF p \in Below(d) THEN tree'[p] ELSE tree[p]]
          /\ names' = [p \in Paths |-> IF p \notin Below(d) THEN names[p]
                                       ELSE IF tree'[p].kind = "absent" THEN {} ELSE {p}]
          /\ tree'[d] = DirNode
          /\ \A p \in Below(d) \ {d} :
                 tree'[p] \in {Absent, [OnCD[p] EXCEPT !.data = tree'[p].data]}

\* A directory need not be empty, and may go although the call fails.
Rmdir(d) ==
    /\ tree[d].kind = "dir" /\ d # <<>>
    /\ \/ Fails
       \/ reply' \in {"OK", "ERROR"} /\ Gone(Below(d))

Unlink(p) == IsFile(p) /\ Done /\ Gone({p})

\* The file has the new name in place of the old one.
Rename(old, new) ==
    /\ Exists(old) /\ Reachable(new) /\ old # new
    /\ \/ Fails
       \/ /\ Done /\ IsFile(old) /\ tree[new].kind # "dir"
          /\ tree'  = [tree EXCEPT ![new] = tree[old], ![old] = Absent]
          /\ names' = LET now == (names[old] \ {old}) \cup {new}
                      IN  [p \in Paths |-> IF p = old THEN {}
                                           ELSE IF p \in now THEN now ELSE names[p] \ {old, new}]

\* One more name of a file; of a symbolic link, a copy.
Link(t, l) ==
    /\ IsFile(t) /\ Free(l)
    /\ \/ Fails
       \/ /\ Done
          /\ tree'  = [tree EXCEPT ![l] = tree[t]]
          /\ names' = LET now == IF tree[t].kind = "reg" THEN names[t] \cup {l} ELSE {l}
                      IN  [p \in Paths |-> IF p \in now THEN now ELSE names[p]]

Truncate(p) == tree[p].kind = "reg" /\ (Fails \/ (Done /\ Put(p, EmptyFile.data)))

\* O_CREAT may empty a file that is there.
Open(p, creat, trunc) ==
    /\ tree[p].kind = "reg"
    /\ \/ Fails
       \/ Done /\ Put(p, EmptyFile.data) /\ (creat \/ trunc)
       \/ Done /\ Same /\ ~trunc

Write(p, d) == tree[p].kind = "reg" /\ Done /\ Put(p, d)

\* What was removed may come back; all else stays.
Reconnect ==
    /\ Done /\ IsTree(tree')
    /\ tree'  = [p \in Paths |-> IF Exists(p) THEN tree[p] ELSE tree'[p]]
    /\ names' = [p \in Paths |-> IF Exists(p) THEN names[p] \cup {q \in names'[p] : ~Exists(q)}
                                 ELSE names'[p]]

----------------------------------------------------------------------------
Next ==
    \/ Look \/ Reconnect
    \/ \E p \in Paths :
         \/ Creat(p) \/ Mkdir(p) \/ Rmdir(p) \/ Unlink(p) \/ Truncate(p)
         \/ \E creat, trunc \in BOOLEAN : Open(p, creat, trunc)
         \/ \E d \in Data : Write(p, d)
         \/ \E q \in Paths : Rename(p, q) \/ Link(p, q)
         \/ \E text \in Texts : Symlink(text, p)

Spec == Init /\ [][Next]_<<tree, names, reply>>
=============================================================================
