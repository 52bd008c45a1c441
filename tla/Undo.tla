-------------------------------- MODULE Undo --------------------------------
(***************************************************************************)
(* Taking back what an attempt of a sub-agent did to files.  There are two *)
(* ways: retry() compensates one attempt with the attempt journal          *)
(* (electron/subagentAttempts.cjs), and the user rolls a whole run back    *)
(* with the side-effect ledger (electron/runRollback.cjs, sideEffects.cjs).*)
(* Both record a file before it is first touched and what it looked like   *)
(* after the tool, and neither may destroy what somebody else wrote since. *)
(*                                                                         *)
(* The run here is one attempt that writes files with write_file, each     *)
(* operation once; a tool may time out and write later, and the run may be *)
(* stopped between a tool and its settlement (agent.cjs:3820).  People     *)
(* edit the files at any time.  compensate() and applyRollback() are       *)
(* synchronous: no tool of this process goes on meanwhile, but other       *)
(* programs do.                                                            *)
(***************************************************************************)
EXTENDS Naturals, Sequences, FiniteSets, SequencesExt

CONSTANTS
  Files,
  Ops,          (* the operations, each with what it writes                 *)
  FileOf,       (* the file of an operation                                 *)
  Theirs,       (* what others write                                        *)
  MaxEdits,     (* bound: edits by others                                   *)
  MaxCrashes    (* bound: crashes                                           *)

ASSUME UndoAssumption ==
  /\ FileOf \in [Ops -> Files]
  /\ Ops \cap Theirs = {} /\ {"base", "none"} \cap (Ops \cup Theirs) = {}
  /\ MaxEdits \in Nat /\ MaxCrashes \in Nat

Contents == {"base"} \cup Ops \cup Theirs

VARIABLES
  file,      (* the contents of the files                                   *)
  attempt,   (* "running", "settled", or "lost" in a crash                  *)
  pc,        (* a tool: "idle", "begun", "wrote" or "over"                  *)
  seen,      (* the version to which begin() has bound an operation         *)
  phase,     (* journal: phases of the operations                           *)
  before,    (* journal: a file before the attempt first touched it         *)
  post,      (* journal: a file after the last operation on it that settled *)
  order,     (* ledger: the operations by firstIntentAt                     *)
  image,     (* ledger: a file before the run first touched it              *)
  rpost,     (* ledger: postStateDigest, of operations that were committed  *)
  approved,  (* the compensation plan that the user approves                *)
  comp,      (* compensate() and what the journal says of it                *)
  rollback,  (* applyRollback()                                             *)
  later,     (* history: files edited since the last operation on them      *)
  edits, crashes

vars == <<file, attempt, pc, seen, phase, before, post, order, image, rpost,
          approved, comp, rollback, later, edits, crashes>>

journal == <<phase, before, post>>
ledger == <<order, image, rpost>>
undo == <<approved, comp, rollback>>
bounds == <<edits, crashes>>

Idle == ~comp.busy /\ ~rollback.busy

NoComp == [busy |-> FALSE, phase |-> "none", todo |-> {}, applied |-> {}, current |-> [f \in Files |-> "none"]]
NoRollback == [busy |-> FALSE, todo |-> {}, force |-> FALSE, refused |-> FALSE, disturbed |-> {}, ok |-> FALSE]

Init ==
  /\ file = [f \in Files |-> "base"] /\ attempt = "running"
  /\ pc = [o \in Ops |-> "idle"] /\ seen = [o \in Ops |-> "none"]
  /\ phase = [o \in Ops |-> "none"]
  /\ before = [f \in Files |-> "none"] /\ post = [f \in Files |-> "none"]
  /\ order = <<>> /\ image = [f \in Files |-> "none"] /\ rpost = [o \in Ops |-> "none"]
  /\ approved = [ok |-> FALSE, items |-> [f \in Files |-> "none"], comp |-> "none", applied |-> {}]
  /\ comp = NoComp /\ rollback = NoRollback
  /\ later = {} /\ edits = 0 /\ crashes = 0

-----------------------------------------------------------------------------
(* The attempt.  begin() of the journal records the file when the attempt   *)
(* first touches it and hands on to begin() of the ledger, which may refuse.*)

FirstTime(map, f) == IF map[f] = "none" THEN [map EXCEPT ![f] = file[f]] ELSE map

Tool(o) ==
  /\ attempt = "running" /\ Idle /\ pc[o] = "idle"
  /\ \A p \in Ops : pc[p] \in {"begun", "wrote"} => phase[p] # "pending"
  /\ before' = FirstTime(before, FileOf[o]) /\ post' = FirstTime(post, FileOf[o])

Begin(o) ==
  /\ Tool(o)
  /\ phase' = [phase EXCEPT ![o] = "pending"]
  /\ pc' = [pc EXCEPT ![o] = "begun"] /\ seen' = [seen EXCEPT ![o] = file[FileOf[o]]]
  /\ image' = FirstTime(image, FileOf[o]) /\ order' = Append(order, o)
  /\ UNCHANGED <<file, attempt, rpost, undo, later, bounds>>

(* The ledger has it done already, or refuses: when it does so because the  *)
(* outcome of an earlier execution is open, or its own record cannot be     *)
(* trusted, the operation counts as unknown here as well.                   *)
Skip(o) ==
  /\ Tool(o)
  /\ \E ph \in {"skipped", "unknown"} : phase' = [phase EXCEPT ![o] = ph]
  /\ pc' = [pc EXCEPT ![o] = "over"]
  /\ UNCHANGED <<file, attempt, seen, ledger, undo, later, bounds>>

(* write_file replaces the version it was bound to and no other, even long  *)
(* after its time limit.                                                    *)
ToolWrites(o) ==
  /\ pc[o] = "begun" /\ Idle
  /\ file[FileOf[o]] = seen[o]
  /\ file' = [file EXCEPT ![FileOf[o]] = o]
  /\ pc' = [pc EXCEPT ![o] = "wrote"] /\ seen' = [seen EXCEPT ![o] = "none"]
  /\ later' = later \ {FileOf[o]}
  /\ UNCHANGED <<attempt, journal, ledger, undo, bounds>>

(* finish() of the journal: a phase that is unknown stays so.               *)
Finish(o, ph) ==
  /\ phase' = [phase EXCEPT ![o] = IF @ = "unknown" THEN "unknown" ELSE ph]
  /\ post' = [post EXCEPT ![FileOf[o]] = file[FileOf[o]]]
  /\ later' = later \ {FileOf[o]}

Commit(o) ==
  /\ pc[o] = "wrote" /\ phase[o] = "pending" /\ attempt = "running" /\ Idle
  /\ Finish(o, "committed")
  /\ rpost' = [rpost EXCEPT ![o] = file[FileOf[o]]]
  /\ pc' = [pc EXCEPT ![o] = "over"]
  /\ UNCHANGED <<file, attempt, seen, before, order, image, undo, bounds>>

(* Declined, a version that changed, or any other error before the write.   *)
Fail(o) ==
  /\ pc[o] = "begun" /\ phase[o] = "pending" /\ attempt = "running" /\ Idle
  /\ Finish(o, "failed")
  /\ pc' = [pc EXCEPT ![o] = "over"] /\ seen' = [seen EXCEPT ![o] = "none"]
  /\ UNCHANGED <<file, attempt, before, ledger, undo, bounds>>

TimeOutFailed(o) ==                 \* mutant: a timeout is a failure like any other
  /\ pc[o] \in {"begun", "wrote"} /\ phase[o] = "pending" /\ attempt = "running" /\ Idle
  /\ Finish(o, "failed")
  /\ UNCHANGED <<file, attempt, pc, seen, before, ledger, undo, bounds>>

(* EFFECT_UNKNOWN: the tool timed out, or its commit could not be saved.    *)
TimeOut(o) ==
  /\ pc[o] \in {"begun", "wrote"} /\ phase[o] = "pending" /\ attempt = "running" /\ Idle
  /\ Finish(o, "unknown")
  /\ UNCHANGED <<file, attempt, pc, seen, before, ledger, undo, bounds>>

(* The attempt ends, perhaps with a tool that was not settled.              *)
SettleAttempt ==
  /\ attempt = "running" /\ Idle /\ attempt' = "settled"
  /\ UNCHANGED <<file, pc, seen, journal, ledger, undo, later, bounds>>

-----------------------------------------------------------------------------
(* Compensation: planCompensation() and compensate().                       *)

Blocked == \E o \in Ops : phase[o] \in {"pending", "unknown"}

Touched == {FileOf[o] : o \in {p \in Ops : phase[p] \notin {"none", "skipped"}}}

PlanOk ==
  /\ ~Blocked
  /\ \A f \in Touched : file[f] \in {before[f], post[f]}

(* What the digest of a plan covers: the items and the record of the journal. *)
Plan ==
  [ok |-> PlanOk, items |-> [f \in Files |-> IF f \in Touched THEN file[f] ELSE "none"],
   comp |-> comp.phase, applied |-> comp.applied]

NoPlan == [ok |-> FALSE, items |-> [f \in Files |-> "none"], comp |-> "none", applied |-> {}]

(* inspect_subagent_retry, of an attempt that has ended.                    *)
Inspect ==
  /\ attempt = "settled" /\ Idle /\ comp.phase # "completed"
  /\ PlanOk /\ approved' = Plan
  /\ UNCHANGED <<file, attempt, pc, seen, journal, ledger, comp, rollback, later, bounds>>

CompStart ==
  /\ approved.ok /\ Idle /\ Plan = approved
  /\ comp' = [busy |-> TRUE, phase |-> "prepared", applied |-> {},
              todo |-> {f \in Touched : file[f] # before[f]}, current |-> file]
  /\ approved' = NoPlan
  /\ UNCHANGED <<file, attempt, pc, seen, journal, ledger, rollback, later, bounds>>

CompRefused ==
  /\ approved.ok /\ Idle /\ Plan # approved
  /\ approved' = NoPlan
  /\ UNCHANGED <<file, attempt, pc, seen, journal, ledger, comp, rollback, later, bounds>>

CompFile(f) ==
  /\ comp.busy /\ f \in comp.todo /\ file[f] = comp.current[f]
  /\ file' = [file EXCEPT ![f] = before[f]]
  /\ comp' = [comp EXCEPT !.todo = @ \ {f}, !.applied = @ \cup {f}]
  /\ later' = later \ {f}
  /\ UNCHANGED <<attempt, pc, seen, journal, ledger, approved, rollback, bounds>>

CompSkips ==                        \* mutant: a file that cannot be restored is left out
  /\ comp.busy
  /\ \E f \in comp.todo : comp' = [comp EXCEPT !.todo = @ \ {f}]
  /\ UNCHANGED <<file, attempt, pc, seen, journal, ledger, approved, rollback, later, bounds>>

(* A file changed since the plan, or a call failed: the rest is left.       *)
CompStops ==
  /\ comp.busy /\ comp.todo # {}
  /\ comp' = [comp EXCEPT !.busy = FALSE, !.phase = "needs_review", !.todo = {}, !.current = NoComp.current]
  /\ UNCHANGED <<file, attempt, pc, seen, journal, ledger, approved, rollback, later, bounds>>

CompDone ==
  /\ comp.busy /\ comp.todo = {}
  /\ comp' = [comp EXCEPT !.busy = FALSE, !.phase = "completed", !.current = NoComp.current]
  /\ UNCHANGED <<file, attempt, pc, seen, journal, ledger, approved, rollback, later, bounds>>

-----------------------------------------------------------------------------
(* Rollback of the run: planRollback() and applyRollback().                 *)

Paths == {FileOf[o] : o \in Range(order)}

Records(f) == SelectSeq(order, LAMBDA o : FileOf[o] = f)

PostOfLast(f) ==                    \* mutant: the last record, saved or not
  IF Records(f) = <<>> THEN "none" ELSE rpost[Last(Records(f))]

(* postStateDigest of the last of the records of a file that has one.       *)
PostOf(f) ==
  LET at == {i \in DOMAIN order : FileOf[order[i]] = f /\ rpost[order[i]] # "none"}
  IN  IF at = {} THEN "none" ELSE rpost[order[CHOOSE i \in at : \A j \in at : j <= i]]

Conflict(f) == PostOf(f) # "none" /\ file[f] # PostOf(f)

RollbackStart(force) ==
  /\ Paths # {} /\ Idle
  /\ LET conflicts == {f \in Paths : Conflict(f) /\ ~force} IN
     rollback' = [NoRollback EXCEPT !.busy = TRUE, !.force = force, !.todo = Paths \ conflicts,
                    !.refused = (conflicts # {})]
  /\ UNCHANGED <<file, attempt, pc, seen, journal, ledger, approved, comp, later, bounds>>

RollbackFile(f) ==
  /\ rollback.busy /\ f \in rollback.todo
  /\ file' = [file EXCEPT ![f] = image[f]]
  /\ rollback' = [rollback EXCEPT !.todo = @ \ {f}]
  /\ later' = later \ {f}
  /\ UNCHANGED <<attempt, pc, seen, journal, ledger, approved, comp, bounds>>

RollbackRefuses(f) ==
  /\ rollback.busy /\ f \in rollback.todo
  /\ rollback' = [rollback EXCEPT !.todo = @ \ {f}, !.refused = TRUE]
  /\ UNCHANGED <<file, attempt, pc, seen, journal, ledger, approved, comp, later, bounds>>

RollbackEnd ==
  /\ rollback.busy /\ rollback.todo = {}
  /\ rollback' = [NoRollback EXCEPT !.ok = ~rollback.refused]
  /\ UNCHANGED <<file, attempt, pc, seen, journal, ledger, approved, comp, later, bounds>>

-----------------------------------------------------------------------------
(* Others write what nobody has seen yet, or restore the first version.     *)
Used == UNION {Range(x) : x \in {file, before, post, image, rpost, seen}}

(* Versions are compared by digest: who brings back by hand what a record   *)
(* says the run has left is taken for the run, and is not modelled.         *)
Mistaken(f, v) ==
  (v = post[f] /\ post[f] # before[f]) \/ (v = PostOf(f) /\ PostOf(f) # image[f])

Edit(f) ==
  /\ edits < MaxEdits /\ edits' = edits + 1
  /\ \E v \in {"base"} \cup (Theirs \ Used) :
       v # file[f] /\ ~Mistaken(f, v) /\ file' = [file EXCEPT ![f] = v]
  /\ IF rollback.busy THEN /\ rollback' = [rollback EXCEPT !.disturbed = @ \cup {f}]
                           /\ UNCHANGED later
                      ELSE later' = later \cup {f} /\ UNCHANGED rollback
  /\ UNCHANGED <<attempt, pc, seen, journal, ledger, approved, comp, crashes>>

CrashRestart ==
  /\ crashes < MaxCrashes /\ crashes' = crashes + 1
  /\ attempt' = IF attempt = "running" THEN "lost" ELSE attempt
  /\ pc' = [o \in Ops |-> "over"]
  /\ comp' = [comp EXCEPT !.busy = FALSE, !.todo = {}, !.current = NoComp.current]
  /\ seen' = [o \in Ops |-> "none"]
  /\ approved' = NoPlan /\ rollback' = NoRollback
  /\ UNCHANGED <<file, journal, ledger, later, edits>>

Next ==
  \/ \E o \in Ops : Begin(o) \/ Skip(o) \/ ToolWrites(o) \/ Commit(o) \/ Fail(o) \/ TimeOut(o)
  \/ \E f \in Files : CompFile(f) \/ RollbackFile(f) \/ RollbackRefuses(f) \/ Edit(f)
  \/ \E force \in BOOLEAN : RollbackStart(force)
  \/ SettleAttempt \/ Inspect \/ CompStart \/ CompRefused \/ CompStops \/ CompDone
  \/ RollbackEnd \/ CrashRestart

Spec == Init /\ [][Next]_vars

-----------------------------------------------------------------------------
Known == Contents \cup {"none"}

(* The types of the variables; a file has contents whatever is taken back.  *)
TypeOK ==
  /\ file \in [Files -> Contents]
  /\ attempt \in {"running", "settled", "lost"}
  /\ pc \in [Ops -> {"idle", "begun", "wrote", "over"}] /\ seen \in [Ops -> Known]
  /\ phase \in [Ops -> {"none", "pending", "committed", "failed", "unknown", "skipped"}]
  /\ before \in [Files -> Known] /\ post \in [Files -> Known] /\ image \in [Files -> Known]
  /\ rpost \in [Ops -> Known] /\ order \in Seq(Ops)
  /\ approved \in [ok : BOOLEAN, items : [Files -> Known], applied : SUBSET Files,
                   comp : {"none", "prepared", "needs_review", "completed"}]
  /\ comp \in [busy : BOOLEAN, phase : {"none", "prepared", "needs_review", "completed"},
               todo : SUBSET Files, applied : SUBSET Files, current : [Files -> Known]]
  /\ rollback \in [busy : BOOLEAN, todo : SUBSET Files, force : BOOLEAN, refused : BOOLEAN,
                   disturbed : SUBSET Files, ok : BOOLEAN]
  /\ later \subseteq Files /\ edits \in 0..MaxEdits /\ crashes \in 0..MaxCrashes

Replaced(f) == file'[f] # file[f]

(* Compensation never replaces a file that was edited after the attempt's   *)
(* last operation on it, though the edit may come after the approval,       *)
(* between two files or before a second try after a crash.                  *)
(* (docs/multi-agent.md, "Redoing a task": later edits block it.)           *)
LaterEditsSurvive ==
  [][\A f \in later : comp.busy /\ Replaced(f) => f \in later']_vars

(* When files are being or have been put back, no tool of the attempt can   *)
(* write any more.                                                          *)
NothingWritesAfter ==
  comp.phase # "none" => \A o \in Ops : ~(pc[o] = "begun" /\ seen[o] = file[FileOf[o]])

(* The journal of an attempt keeps its form, and files are put back only    *)
(* when the tools of the attempt are done with them.                        *)
ToolsAreDone == TypeOK /\ NothingWritesAfter

(* A compensation that says it is complete has put every file back that     *)
(* nobody edited since.                                                     *)
CompletedIsRestored ==
  [][comp'.phase = "completed" /\ comp.phase # "completed"
       => \A f \in Touched \ later : file[f] = before[f]]_vars

(* A rollback without force leaves an edited file alone if the run has      *)
(* committed a write of it and the edit is older than the plan.             *)
(* (runRollback.cjs:59)                                                     *)
RollbackKeepsEdits ==
  [][\A f \in Files : rollback.busy /\ ~rollback.force /\ f \in later /\ Replaced(f) /\ f \notin rollback'.disturbed
       => \A o \in Ops : FileOf[o] = f => rpost[o] = "none"]_vars

(* A rollback that says ok has brought every file of the run back to what   *)
(* it was, except for what was edited while it ran. (runRollback.cjs:151)   *)
OkIsBeforeTheRun ==
  [][rollback'.ok /\ ~rollback.ok
       => \A f \in Paths \ rollback.disturbed : file[f] = image[f]]_vars

(* No compensation takes back a later edit, and no rollback that was not    *)
(* forced takes back one of a file of which a write was committed, edits    *)
(* between its plan and its write aside; also when either of them was       *)
(* interrupted and tried again.                                             *)
EditsSurvive == LaterEditsSurvive /\ RollbackKeepsEdits

(* Neither says that it is done when something is left as the run wrote it. *)
ClaimsAreTrue == CompletedIsRestored /\ OkIsBeforeTheRun

(* What the header of runRollback.cjs (:12-14) promises: what somebody else *)
(* wrote after the run is left alone unless the user forces it.  Here only  *)
(* of runs that ended with every operation on the file settled.             *)
EditsNeedForce ==
  [][\A f \in later :
       /\ rollback.busy /\ ~rollback.force /\ attempt # "running"
       /\ \A o \in Ops : FileOf[o] = f => phase[o] \notin {"pending", "unknown"}
       /\ Replaced(f)
       => f \in later']_vars
=============================================================================
