--------------------------- MODULE MCRequestQueue ---------------------------
(* Four callers for TLC; the queue takes two of them.                       *)
EXTENDS RequestQueue

CONSTANTS u1, u2, u3, u4

FourCallers == {u1, u2, u3, u4}
OneToTwo == 1..2
=============================================================================
