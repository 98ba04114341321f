------------------------------ MODULE Whiteout ------------------------------
(***************************************************************************)
(* The class Whiteout: the list of names that are hidden, and the file     *)
(* rw_tmp/.whiteout it is kept in, one name per line.  A whiteout state is *)
(* a record of both.  Every change of the list rewrites the file.  Names   *)
(* that contain ".whiteout", which isVisible never shows, are not names of *)
(* the model.                                                              *)
(***************************************************************************)
EXTENDS Naturals, Sequences

Whiteouts(S) == [entries : Seq(S), file : Seq(S)]

\* Whiteout::store truncates the file and writes the list s.
Store(s) == [entries |-> s, file |-> s]

\* It looks at no result but that of open().  When open() fails the file stays
\* as it was; when a write comes up short those that follow fail, and a line
\* without its newline is no line for load.
StoreFails(w, s) ==
    {[entries |-> s, file |-> f] : f \in {w.file} \cup {SubSeq(s, 1, k) : k \in 0 .. Len(s)}}

\* Whiteout::find looks for the very same name; a name below a hidden
\* directory is not found.
Hidden(w, p)    == \E i \in 1 .. Len(w.entries) : w.entries[i] = p

\* Mutant of Find: one past the entry that was found.
FindNext(w, p) == LET i == CHOOSE i \in 1 .. Len(w.entries) : w.entries[i] = p
                  IN  IF i < Len(w.entries) THEN i + 1 ELSE i

Find(w, p)      == CHOOSE i \in 1 .. Len(w.entries) :
                       /\ w.entries[i] = p
                       /\ \A j \in 1 .. (i - 1) : w.entries[j] # p
IsVisible(w, p) == ~Hidden(w, p)

Without(s, i) == SubSeq(s, 1, i - 1) \o SubSeq(s, i + 1, Len(s))

\* Mutant of Erase: the file is not written.
EraseUnstored(w, i) == [entries |-> Without(w.entries, i), file |-> w.file]

Add(w, p)   == Store(Append(w.entries, p))
Erase(w, i) == Store(Without(w.entries, i))

SetVisible(w, p, visible) ==
    IF visible
    THEN IF Hidden(w, p) THEN Erase(w, Find(w, p)) ELSE w
    ELSE IF Hidden(w, p) THEN w ELSE Add(w, p)

\* The states setVisible can leave; mayFail tells whether store may fail.
SetVisibleEnds(w, p, visible, mayFail) ==
    LET w2 == SetVisible(w, p, visible)
    IN  {w2} \cup (IF mayFail /\ w2 # w THEN StoreFails(w, w2.entries) ELSE {})

(***************************************************************************)
(* Whiteout::load reads the file a character at a time and hands each line *)
(* to add(), which stores the list, that is truncates the file to the      *)
(* lines read so far: the next read() is at the end of the file.  Only the *)
(* first line is ever loaded, and only that line is left on disk.          *)
(***************************************************************************)
Load(w) ==
    LET empty == [entries |-> <<>>, file |-> w.file]
    IN  IF w.file = <<>> THEN empty ELSE Add(empty, Head(w.file))

\* The states load can leave.  As long as the open() of store fails nothing is
\* truncated, and load reads on.  Its own, which create has just tried, does not.
LoadEnds(w, mayFail) ==
    LET Loaded(k, n) == [entries |-> SubSeq(w.file, 1, k), file |-> SubSeq(w.file, 1, n)]
    IN  {Load(w)} \cup
        (IF mayFail THEN UNION {{Loaded(k, n) : n \in 0 .. k} : k \in 1 .. Len(w.file)} ELSE {})
=============================================================================
