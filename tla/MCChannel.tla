----------------------------- MODULE MCChannel -----------------------------
\* Requests with and without data, one too long, and one without a handler.
EXTENDS Channel
MCRequests == [type : {"real"}, len : 0 .. 3] \cup {[type |-> "illegal", len |-> 1]}
=============================================================================
