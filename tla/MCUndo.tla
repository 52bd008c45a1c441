------------------------------- MODULE MCUndo -------------------------------
(* Two files; the first is written twice.                                   *)
EXTENDS Undo

CONSTANTS f1, f2, a1, a2, b1, t1, t2

Same == Permutations({a1, a2}) \cup Permutations({t1, t2})

FilesOfOps == [o \in {a1, a2, b1} |-> IF o = b1 THEN f2 ELSE f1]
=============================================================================
