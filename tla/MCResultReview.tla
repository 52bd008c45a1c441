--------------------------- MODULE MCResultReview ---------------------------
(* A chain of three tasks, the second with isolated code.      *)
EXTENDS ResultReview

Chain == [t \in 1..N |-> IF t = 1 THEN {} ELSE {t - 1}]
Second == {2}
=============================================================================
