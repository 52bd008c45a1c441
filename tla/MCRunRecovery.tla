---------------------------- MODULE MCRunRecovery ----------------------------
(***************************************************************************)
(* Small instances of RunRecovery: a write to a file and a shell command,  *)
(* and up to three runs.                                                   *)
(***************************************************************************)
EXTENDS RunRecovery, TLC

CONSTANTS run1, run2, run3, page, write1, shell

OneRun == {run1}
ThreeRuns == {run1, run2, run3}
LaterRuns == Permutations({run2, run3})
OneFile == {page}

WriteAndShell == {write1, shell}
OneWrite == {write1}
NoOps == {}

EffectOf == [op \in Ops |-> IF op = write1 THEN "write" ELSE "unknown"]
TargetOf == [op \in Ops |-> IF op = write1 THEN page ELSE Missing]
==============================================================================
