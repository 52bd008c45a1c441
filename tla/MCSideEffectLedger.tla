-------------------------- MODULE MCSideEffectLedger --------------------------
(***************************************************************************)
(* A small instance of SideEffectLedger: two writes to one file, a shell   *)
(* command, and scan_project, which the ledger takes for a read and the    *)
(* registry for a mutating tool.                                           *)
(***************************************************************************)
EXTENDS SideEffectLedger, TLC

CONSTANTS a1, a2, page, write1, write2, shell, scan

TwoActors == {a1, a2}
OneFile == {page}

TwoWrites == {write1, write2}
WritesShellAndScan == TwoWrites \cup {shell, scan}

EffectOf ==
  [op \in Ops |-> CASE op \in TwoWrites -> "write"
                    [] op = shell -> "unknown"
                    [] op = scan -> "read"]
TargetOf == [op \in Ops |-> IF op \in TwoWrites THEN page ELSE Missing]
RepeatableOps == Ops \ {shell}

(* A bound: no behaviour has both a shell command and a scan.               *)
ShellOrScan == outcome[shell] = "none" \/ outcome[scan] = "none"

ActorAndWriteSymmetry == Permutations(TwoActors) \cup Permutations(TwoWrites)
===============================================================================
