------------------------------ MODULE MCLeases ------------------------------
(***************************************************************************)
(* Two runs of one project for TLC: the first with two sub-agents, the     *)
(* second with its supervisor alone.                                       *)
(***************************************************************************)
EXTENDS Leases, TLC

CONSTANTS r1, r2, task1, task2, main2, f1, f2

OneFile == {f1}
TwoFiles == {f1, f2}
TwoRuns == {r1, r2}
TwoTasks == {task1, task2}
ThreeAgents == TwoTasks \cup {main2}
OneMain == {main2}
RunOfThree == (task1 :> r1) @@ (task2 :> r1) @@ (main2 :> r2)

TaskSymmetry == Permutations(TwoTasks)
=============================================================================
