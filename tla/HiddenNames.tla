---------------------------- MODULE HiddenNames ----------------------------
(***************************************************************************)
(* What .whiteout promises: a set of hidden names that only requests add   *)
(* to.  When the daemon stops, and when it reads the file again, hidden    *)
(* names may be lost; none is ever made up.                                *)
(***************************************************************************)
CONSTANT Names
VARIABLES
    hidden,  \* the names that are hidden, or would be by the next daemon
    up       \* a daemon answers requests

Init == hidden = {} /\ up = TRUE

Hide(p) == up /\ hidden' = hidden \cup {p} /\ up' = up
Show(p) == up /\ hidden' = hidden \ {p} /\ up' = up

\* The daemon ends, reads the file, or begins to answer.
Restart ==
    /\ hidden' \in SUBSET hidden
    /\ up' \in BOOLEAN /\ ~(up /\ up')

Next == Restart \/ \E p \in Names : Hide(p) \/ Show(p)
Spec == Init /\ [][Next]_<<hidden, up>>
=============================================================================
