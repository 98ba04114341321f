------------------------------ MODULE MCPaging ------------------------------
\* A directory of four names, two or three to a page, in several orders.
EXTENDS Paging
MCNames  == {"a", "b", "c", "dd", "n"}
MCOrders == {<<".", "..", "a", "b", "c", "dd">>, <<"dd", "..", "a", ".", "c">>, <<"b", "a", "c">>}
MCLen    == [n \in MCNames \cup Dots |-> IF n \in {"..", "dd"} THEN 2 ELSE 1]
=============================================================================
