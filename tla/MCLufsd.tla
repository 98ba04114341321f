------------------------------ MODULE MCLufsd ------------------------------
\* Small instances of Lufsd.
EXTENDS LufsdProperties, TLC

CONSTANTS d1, d2, d3

OneBucket == [d \in Dirs |-> 0]
AllListings == [Names -> 0 .. Versions]

\* d1 holds d2, the others hold files.
D2InD1 == [p \in Place |-> IF p[1] = d1 THEN {d2} ELSE {}]
Alike == Permutations(Channels)
=============================================================================
