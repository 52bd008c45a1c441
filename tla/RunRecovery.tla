----------------------------- MODULE RunRecovery -----------------------------
(***************************************************************************)
(* Crash, resume plan and resumed run (planResume and stepsOf of           *)
(* electron/runCheckpoint.cjs, agent:chat of electron/ipc/agent.cjs,       *)
(* createTimeTravelBranch, and the tool loop of electron/agent.cjs).       *)
(*                                                                         *)
(* One task is carried on by a family of runs: the first one, the runs     *)
(* that resume an interrupted one, and time-travel branches.  Each run has *)
(* its own checkpoints; the ledger file it works on is the one of its      *)
(* scope, which for a resumed run is the run it resumes.  A conversation   *)
(* has one active run (activeMemorySessions, ipc/agent.cjs:958-966).       *)
(* Read-only calls are left out: they are not saved and planResume lets    *)
(* them pass.                                                              *)
(***************************************************************************)
EXTENDS LedgerRecords

CONSTANTS
  Runs,         (* run ids                                                 *)
  First,        (* the run the task starts with                            *)
  MaxDepth,     (* bound: a resumed run of a resumed run ... at most       *)
  MaxEdits,     (* bound on the number of file versions                    *)
  Branching,    (* whether time-travel branches are made                   *)
  SaveMayFail,  (* whether saving the ledger may fail                      *)
  MayDecline,   (* operations whose tool may fail without effect           *)
  MayAsk        (* operations that need the user's approval                *)

ASSUME RecoveryAssumption ==
  /\ Effectful = Ops
  /\ First \in Runs /\ Missing \notin Runs
  /\ MaxDepth \in Nat /\ MaxEdits \in Nat
  /\ Branching \in BOOLEAN /\ SaveMayFail \in BOOLEAN
  /\ MayDecline \subseteq Ops /\ MayAsk \subseteq Ops

VARIABLES
  status,    (* what the events of each run say: summarizeRun(..).status   *)
  scope,     (* idempotency scope of each run                              *)
  origin,    (* resumedFrom, Missing for a run that resumes none           *)
  branch,    (* runs created by time travel (requiresReview in run_start)  *)
  steps,     (* stepsOf(checkpoints of the run)                            *)
  waiting,   (* a wait_start without its wait_settle                       *)
  snapshots, (* runs with a checkpoint of their conversation               *)
  saved,     (* ledger file of each scope                                  *)
  active,    (* the run of this process, or Missing                        *)
  mem,       (* its ledger                                                 *)
  persistError,
  hand,      (* the tool call it is in                                     *)
  files, edits,
  outcome    (* history: what became of the latest attempt                 *)

history == <<status, scope, origin, branch>>
checkpoints == <<steps, waiting, snapshots>>
ledger == <<saved, mem, persistError>>
world == <<files, edits>>
vars == <<history, checkpoints, ledger, active, hand, world, outcome>>

Idle == [op |-> Missing, step |-> "idle"]
Statuses == {"absent", "open", "superseded", "completed", "cancelled", "error"}
StepStates == {"absent", "pending", "committed", "failed"}

Doubt == {op \in Ops : outcome[op] = "open"}

(* How often the work of a run was resumed already.  Resuming a branch is   *)
(* beyond the bound: it starts with an empty ledger, like a chain.          *)
depth[r \in Runs] ==
  IF r \in branch THEN MaxDepth
  ELSE IF origin[r] = Missing THEN 0 ELSE 1 + depth[origin[r]]

-----------------------------------------------------------------------------
(* recordIntent and recordCommit, as stepsOf folds them: an intent does not *)
(* take back the result of an earlier attempt.                              *)
NoteIntent(r, op) ==
  steps' = [steps EXCEPT ![r][op] = IF @ = "absent" THEN "pending" ELSE @]

NoteCommit(r, op, ok) ==
  steps' = [steps EXCEPT ![r][op] = IF ok THEN "committed" ELSE "failed"]

(* _persist(), which works or throws.                                       *)
Persist == saved' = [saved EXCEPT ![scope[active]] = mem'] /\ persistError' = FALSE
PersistFails == SaveMayFail /\ persistError' = TRUE /\ UNCHANGED saved

-----------------------------------------------------------------------------
(* planResume: which steps keep a run from going on by itself.              *)
HasCheckpoints(r) == r \in snapshots \/ \E op \in Ops : steps[r][op] # "absent"

PendingSteps(r) == {op \in Ops : steps[r][op] = "pending"}

LedgerUnknown(j) ==
  {op \in Ops : j.phase[op] # "none" /\ (Effect[op] = "unknown" \/ j.phase[op] = "unknown")}

CommittedIfRecorded(r, op) ==   \* mutant: any record counts as committed
  /\ scope[r] = r
  /\ Effect[op] = "write"
  /\ saved[r].phase[op] # "none"

(* review() lists a write as committed; the step of a run and the ledger    *)
(* of its id share idempotency keys only if the run is its own scope.       *)
CommittedInLedger(r, op) ==
  /\ scope[r] = r
  /\ Effect[op] = "write"
  /\ saved[r].phase[op] = "committed"

UnknownEffects(r) ==
  {op \in PendingSteps(r) : Effect[op] = "unknown"} \cup LedgerUnknown(saved[r])

UncommittedWrites(r) ==
  {op \in PendingSteps(r) : Effect[op] = "write" /\ ~CommittedInLedger(r, op)}

Mode(r) ==
  IF status[r] = "absent" THEN "unknown"
  ELSE IF status[r] = "cancelled" THEN "review"
  ELSE IF active = r THEN "complete"
  ELSE IF waiting[r] THEN "review"
  ELSE IF status[r] = "completed" THEN "complete"
  ELSE IF HasCheckpoints(r) /\ UnknownEffects(r) \cup UncommittedWrites(r) = {} THEN "auto"
  ELSE "review"

-----------------------------------------------------------------------------
Running == active # Missing
At(op, step) == Running /\ hand = [op |-> op, step |-> step]
Goto(op, step) == hand' = [op |-> op, step |-> step]

(* begin() answers skip: the call is noted as committed without running.    *)
BeginSkip(op) ==
  /\ Running
  /\ hand = Idle
  /\ ~persistError
  /\ Skips(mem, op, files)
  /\ UNCHANGED mem
  /\ \/ Persist /\ NoteCommit(active, op, TRUE)
     \/ PersistFails /\ UNCHANGED steps
  /\ UNCHANGED <<history, waiting, snapshots, active, hand, world, outcome>>

(* begin() registers the intent in the ledger.                              *)
Begin(op) ==
  /\ Running
  /\ hand = Idle
  /\ ~persistError
  /\ ~InDoubt(mem, op)
  /\ ~Skips(mem, op, files)
  /\ mem' = AfterIntent(mem, op, files)
  /\ \/ Persist /\ Goto(op, "begun")
     \/ PersistFails /\ UNCHANGED hand
  /\ UNCHANGED <<history, checkpoints, active, world, outcome>>

(* The loop notes tool_intent and calls the tool.                           *)
Dispatch(op) ==
  /\ At(op, "begun")
  /\ NoteIntent(active, op)
  /\ Goto(op, "ready")
  /\ outcome' = [outcome EXCEPT ![op] = "open"]
  /\ UNCHANGED <<history, waiting, snapshots, ledger, active, world>>

(* The registry asks for approval before it runs the tool; the wait is      *)
(* noted when it starts and when it is settled.                             *)
Ask(op) ==
  /\ At(op, "ready")
  /\ op \in MayAsk
  /\ ~waiting[active]
  /\ waiting' = [waiting EXCEPT ![active] = TRUE]
  /\ UNCHANGED <<history, steps, snapshots, ledger, active, hand, world, outcome>>

Answer(op) ==
  /\ At(op, "ready")
  /\ waiting[active]
  /\ waiting' = [waiting EXCEPT ![active] = FALSE]
  /\ UNCHANGED hand \/ Goto(op, "declined")
  /\ UNCHANGED <<history, steps, snapshots, ledger, active, world, outcome>>

Writes(op) ==
  IF op \in FileWrites
  THEN /\ edits < MaxEdits
       /\ edits' = edits + 1
       /\ files' = [files EXCEPT ![Target[op]] = [by |-> op, at |-> edits + 1]]
  ELSE UNCHANGED world

(* The tool succeeds, fails without effect, or fails in doubt.              *)
Run(op) ==
  /\ At(op, "ready")
  /\ ~waiting[active]
  /\ \/ Writes(op) /\ Goto(op, "ran")
     \/ op \in MayDecline /\ Goto(op, "declined") /\ UNCHANGED world
     \/ Goto(op, "unsure") /\ (Writes(op) \/ UNCHANGED world)
  /\ UNCHANGED <<history, checkpoints, ledger, active, outcome>>

(* commit() and fail().                                                     *)
Commit(op) ==
  /\ At(op, "ran")
  /\ LET done == AfterCommit(mem, op, files) IN
     \/ /\ mem' = done
        /\ Persist
        /\ Goto(op, "succeeded")
        /\ outcome' = [outcome EXCEPT ![op] = "done"]
     \/ /\ mem' = AfterFail(done, op, "unknown")
        /\ PersistFails
        /\ Goto(op, "failed")
        /\ UNCHANGED outcome
  /\ UNCHANGED <<history, checkpoints, active, world>>

Fail(op) ==
  /\ \/ /\ At(op, "declined")
        /\ mem' = AfterFail(mem, op, "failed")
        /\ outcome' = [outcome EXCEPT ![op] = "declined"]
     \/ /\ At(op, "unsure")
        /\ mem' = AfterFail(mem, op, "unknown")
        /\ UNCHANGED outcome
  /\ Persist \/ PersistFails
  /\ Goto(op, "failed")
  /\ UNCHANGED <<history, checkpoints, active, world>>

(* The loop notes tool_commit and goes on.                                  *)
Note(op) ==
  /\ At(op, "succeeded") \/ At(op, "failed")
  /\ NoteCommit(active, op, hand.step = "succeeded")
  /\ hand' = Idle
  /\ UNCHANGED <<history, waiting, snapshots, ledger, active, world, outcome>>

(* A snapshot of the conversation.                                          *)
SaveMessages ==
  /\ Running
  /\ snapshots' = snapshots \cup {active}
  /\ UNCHANGED <<history, steps, waiting, ledger, active, hand, world, outcome>>

-----------------------------------------------------------------------------
(* markRetry: an interrupted run whose resumption has finished.             *)
Finished(r, result) ==
  status' = [q \in Runs |->
    IF q = r THEN result
    ELSE IF q = origin[r] /\ status[q] = "open" THEN "superseded"
    ELSE status[q]]

Quit ==
  /\ active' = Missing
  /\ hand' = Idle
  /\ mem' = EmptyJournal
  /\ persistError' = FALSE
  /\ UNCHANGED <<scope, origin, branch, checkpoints, saved, world, outcome>>

(* The loop ends, or something it does not catch ends the run.              *)
Finish ==
  /\ Running
  /\ hand = Idle
  /\ \/ Finished(active, "completed")
     \/ Finished(active, "error")
     \/ status' = [status EXCEPT ![active] = "error"]
  /\ Quit

(* The user stops the run; the loop returns at its next look at the signal, *)
(* after the tool has returned and before the call is settled.              *)
Cancel ==
  /\ Running
  /\ hand.step \in {"idle", "ran", "declined", "unsure"}
  /\ Finished(active, "cancelled")
  /\ Quit

Crash ==
  /\ Running
  /\ UNCHANGED status
  /\ Quit

ResumeFreshScope(q, r) ==       \* mutant: the ledger of the new run's id
  /\ ~Running
  /\ status[q] = "absent"
  /\ Mode(r) \in {"auto", "review"}
  /\ depth[r] < MaxDepth
  /\ status' = [status EXCEPT ![q] = "open"]
  /\ scope' = [scope EXCEPT ![q] = q]
  /\ origin' = [origin EXCEPT ![q] = r]
  /\ active' = q
  /\ mem' = saved[q]
  /\ UNCHANGED <<branch, checkpoints, saved, persistError, hand, world, outcome>>

(* agent:chat with resumeRunId; a plan that requires review needs the       *)
(* user's consent (resumeForce), which the user may give.                   *)
Resume(q, r) ==
  /\ ~Running
  /\ status[q] = "absent"
  /\ Mode(r) \in {"auto", "review"}
  /\ depth[r] < MaxDepth
  /\ status' = [status EXCEPT ![q] = "open"]
  /\ scope' = [scope EXCEPT ![q] = r]
  /\ origin' = [origin EXCEPT ![q] = r]
  /\ active' = q
  /\ mem' = saved[r]
  /\ UNCHANGED <<branch, checkpoints, saved, persistError, hand, world, outcome>>

(* createTimeTravelBranch: a new run that starts from a snapshot of r.      *)
Branch(q, r) ==
  /\ Branching
  /\ status[q] = "absent"
  /\ r \in snapshots
  /\ status' = [status EXCEPT ![q] = "open"]
  /\ branch' = branch \cup {q}
  /\ snapshots' = snapshots \cup {q}
  /\ UNCHANGED <<scope, origin, steps, waiting, ledger, active, hand, world, outcome>>

(* Somebody else changes a file between the calls of the agent.             *)
Edit(p) ==
  /\ edits < MaxEdits
  /\ edits' = edits + 1
  /\ files' = [files EXCEPT ![p] = [by |-> Outside, at |-> edits + 1]]
  /\ UNCHANGED <<history, checkpoints, ledger, active, hand, outcome>>

Init ==
  /\ status = [r \in Runs |-> IF r = First THEN "open" ELSE "absent"]
  /\ scope = [r \in Runs |-> r]
  /\ origin = [r \in Runs |-> Missing]
  /\ branch = {}
  /\ steps = [r \in Runs |-> [op \in Ops |-> "absent"]]
  /\ waiting = [r \in Runs |-> FALSE]
  /\ snapshots = {}
  /\ saved = [r \in Runs |-> EmptyJournal]
  /\ active = First
  /\ mem = EmptyJournal
  /\ persistError = FALSE
  /\ hand = Idle
  /\ files = [p \in Paths |-> Absent]
  /\ edits = 0
  /\ outcome = [op \in Ops |-> "none"]

Call(op) ==
  \/ BeginSkip(op) \/ Begin(op) \/ Dispatch(op) \/ Ask(op) \/ Answer(op)
  \/ Run(op) \/ Commit(op) \/ Fail(op) \/ Note(op)

Next ==
  \/ \E op \in Ops : Call(op)
  \/ SaveMessages
  \/ Finish
  \/ Cancel
  \/ Crash
  \/ \E q, r \in Runs : Resume(q, r) \/ Branch(q, r)
  \/ \E p \in Paths : Edit(p)

Spec == Init /\ [][Next]_vars

-----------------------------------------------------------------------------
TypeOK ==
  /\ status \in [Runs -> Statuses]
  /\ scope \in [Runs -> Runs]
  /\ origin \in [Runs -> Runs \cup {Missing}]
  /\ branch \subseteq Runs
  /\ steps \in [Runs -> [Ops -> StepStates]]
  /\ waiting \in [Runs -> BOOLEAN]
  /\ snapshots \subseteq Runs
  /\ saved \in [Runs -> Journals]
  /\ active \in Runs \cup {Missing}
  /\ mem \in Journals
  /\ persistError \in BOOLEAN
  /\ hand \in {Idle} \cup
       [op : Ops, step : {"begun", "ready", "ran", "declined", "unsure",
                          "succeeded", "failed"}]
  /\ files \in [Paths -> Versions]
  /\ edits \in 0..MaxEdits
  /\ outcome \in [Ops -> {"none", "open", "done", "declined"}]

Starts(op) == hand.step # "ready" /\ hand' = [op |-> op, step |-> "ready"]

(* An operation of the task that is in doubt is not executed again by any   *)
(* run of the family, forced resumptions included: "an unknown outcome is   *)
(* never replayed blindly" (docs/run-recovery.md).                          *)
NoBlindReplay == [][\A op \in Doubt : ~Starts(op)]_vars

(* A write that was done and whose file still holds what it wrote is not    *)
(* done again by a run that resumes the task (sideEffects.cjs:10-11).       *)
StillStands(op) ==
  /\ op \in FileWrites
  /\ outcome[op] = "done"
  /\ files[Target[op]].by = op

CommittedWorkIsNotRepeated == [][\A op \in Ops : StillStands(op) => ~Starts(op)]_vars

(* When planResume lets the first run go on by itself, every step it leaves *)
(* pending is a write that was in fact done, whatever resumed runs did to   *)
(* the ledger in the meantime (runCheckpoint.cjs:608-611); and of what is   *)
(* in doubt, no command is among it, and every write is still pending in    *)
(* the ledger, so that begin() refuses to do it again.                      *)
AutoIsSafe ==
  Mode(First) = "auto" =>
    /\ \A op \in PendingSteps(First) : Effect[op] = "write" /\ outcome[op] = "done"
    /\ \A op \in Doubt : Effect[op] = "write" /\ saved[First].phase[op] = "pending"

(* The journals of a run keep their form, and what is planned from them is  *)
(* safe, wherever a crash cut the two of them off.                          *)
PlansAreSound == TypeOK /\ AutoIsSafe

(* What the header of runCheckpoint.cjs (15-17) says of "auto": nothing is  *)
(* in doubt when a run goes on by itself.                                   *)
AutoMeansSettled == Mode(First) = "auto" => Doubt = {}
===============================================================================
