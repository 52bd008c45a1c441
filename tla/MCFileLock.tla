----------------------------- MODULE MCFileLock -----------------------------
(* Three transactions of two processes for TLC.                      *)
EXTENDS FileLock, TLC

CONSTANTS p, q, c1, c2, c3

TwoProcs == {p, q}
ThreeCalls == {c1, c2, c3}
ProcOfThree == (c1 :> p) @@ (c2 :> q) @@ (c3 :> p)
=============================================================================
