---------------------------- MODULE LedgerRecords ----------------------------
(***************************************************************************)
(* The records of the side-effect ledger (electron/sideEffects.cjs) and    *)
(* what begin(), commit() and fail() do to them, apart from when they are  *)
(* saved.  A journal is what one SideEffectLedger holds in memory, or what *)
(* its file holds.                                                         *)
(*                                                                         *)
(* An operation stands for an idempotency key: a tool together with its    *)
(* canonical arguments, within one scope.  A file is abstracted to the     *)
(* version it holds: who wrote it last and when.  fileStateDigest (mtime   *)
(* and size) is taken to tell two versions apart.                          *)
(***************************************************************************)
EXTENDS Integers

CONSTANTS
  Ops,         (* operations the agent may ask for                         *)
  Paths,       (* files they name                                          *)
  Effect,      (* classify(tool): "read", "write" or "unknown"             *)
  Target,      (* args.path of an operation, Missing when it has none      *)
  Repeatable,  (* operations whose descriptor says idempotent              *)
  Outside,     (* author of every version no write operation produced      *)
  Missing      (* no path, no fingerprint, no before-image                 *)

ASSUME LedgerAssumption ==
  /\ Effect \in [Ops -> {"read", "write", "unknown"}]
  /\ Target \in [Ops -> Paths \cup {Missing}]
  /\ Repeatable \subseteq Ops
  /\ Outside \notin Ops
  /\ Missing \notin Ops \cup Paths
  /\ Missing \notin [by : Ops \cup {Outside}, at : Nat]

Phases == {"none", "pending", "committed", "failed", "unknown"}

Versions == [by : Ops \cup {Outside}, at : Nat]
Absent == [by |-> Outside, at |-> 0]

Journals ==
  [phase : [Ops -> Phases],
   post  : [Ops -> Versions \cup {Missing}],
   image : [Paths -> Versions \cup {Missing}]]

EmptyJournal ==
  [phase |-> [op \in Ops |-> "none"],
   post  |-> [op \in Ops |-> Missing],
   image |-> [p \in Paths |-> Missing]]

(* Operations that may leave something behind: all but the read-only ones. *)
Effectful == {op \in Ops : Effect[op] # "read"}

(* Writes that name the file they change.                                   *)
FileWrites == {op \in Ops : Effect[op] = "write" /\ Target[op] # Missing}

-----------------------------------------------------------------------------
InDoubtIfUnknown(j, op) ==      \* mutant: a pending record is no obstacle
  j.phase[op] = "unknown"

(* begin() throws EFFECT_UNKNOWN: an earlier attempt is not accounted for.  *)
InDoubt(j, op) ==
  \/ j.phase[op] = "unknown"
  \/ j.phase[op] = "pending" /\ op \in Effectful

CannotVerify(op) == Target[op] = Missing /\ op \in Repeatable

TargetChanged(j, op, files) ==
  /\ Target[op] # Missing
  /\ j.post[op] # Missing
  /\ files[Target[op]] # j.post[op]

(* begin() answers skip: the write was committed and still stands.          *)
Skips(j, op, files) ==
  /\ j.phase[op] = "committed"
  /\ Effect[op] = "write"
  /\ ~CannotVerify(op)
  /\ ~TargetChanged(j, op, files)

ImagesAfterRecapture(j, op, files) ==   \* mutant: captured on every attempt
  IF op \in FileWrites
  THEN [j.image EXCEPT ![Target[op]] = files[Target[op]]]
  ELSE j.image

(* The before-image of a path is captured the first time a write names it.  *)
ImagesAfter(j, op, files) ==
  IF op \in FileWrites /\ j.image[Target[op]] = Missing
  THEN [j.image EXCEPT ![Target[op]] = files[Target[op]]]
  ELSE j.image

(* begin() registers an attempt.                                            *)
AfterIntent(j, op, files) ==
  [j EXCEPT !.phase = [j.phase EXCEPT ![op] = "pending"],
            !.image = ImagesAfter(j, op, files)]

AfterCommitBefore(j, op, files) ==   \* mutant: the state before the write
  [j EXCEPT !.phase = [j.phase EXCEPT ![op] = "committed"],
            !.post = IF Target[op] = Missing THEN j.post
                     ELSE [j.post EXCEPT ![op] = j.image[Target[op]]]]

(* commit() registers success and the version the target has by then.       *)
AfterCommit(j, op, files) ==
  [j EXCEPT !.phase = [j.phase EXCEPT ![op] = "committed"],
            !.post = IF Target[op] = Missing THEN j.post
                     ELSE [j.post EXCEPT ![op] = files[Target[op]]]]

(* fail(), or a commit() whose save failed: phase "failed" or "unknown".    *)
AfterFail(j, op, phase) ==
  [j EXCEPT !.phase = [j.phase EXCEPT ![op] = phase]]
=============================================================================
