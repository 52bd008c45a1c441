-------------------------------- MODULE Goals --------------------------------
(***************************************************************************)
(* One goal of a project, carried out by itself: electron/goalStore.cjs    *)
(* keeps it in .codenode/goals.json, goalExecution.cjs plans the next      *)
(* task, the scheduler of the main process (goalScheduler.cjs, ipc/        *)
(* agent.cjs) claims it and tells the window, the window sends it as an    *)
(* ordinary chat (GoalAutoAdvanceManager.tsx), and the chat is admitted as *)
(* a run of the task, which is settled when it ends.                       *)
(*                                                                         *)
(* The store is written in one go or not at all (mutate).  What the main   *)
(* process and the window know is lost when they end, and what the user    *)
(* does - pausing, stopping, withdrawing the permission, editing tasks and *)
(* files, starting runs by hand - may come between any two steps.          *)
(***************************************************************************)
EXTENDS Integers, Sequences, FiniteSets

CONSTANTS
  Tasks,      (* the tasks of the goal                                      *)
  Order,      (* the tasks as taskPriority.order lists them                 *)
  DependsOn,  (* the tasks a task depends on                                *)
  Bound,      (* the tasks that carry the goal's required criteria          *)
  Cap,        (* autoAdvance.maxRunsPerGoal                                 *)
  MaxRuns,    (* bound: runs of the goal                                    *)
  MaxStarts,  (* bound: times the execution is started                      *)
  MaxClaims,  (* bound: claims                                              *)
  MaxCrashes, (* bound: ends of the process                                 *)
  MaxFails,   (* bound: writes of goals.json that fail                      *)
  MaxActs     (* bound: interventions of the user, starts aside             *)

ASSUME GoalsAssumption ==
  /\ Order \in Seq(Tasks) /\ {Order[i] : i \in 1..Len(Order)} = Tasks
  /\ DependsOn \in [Tasks -> SUBSET Tasks] /\ Bound \subseteq Tasks
  /\ {Cap, MaxRuns, MaxStarts, MaxClaims} \subseteq Nat \ {0}
  /\ {MaxCrashes, MaxFails, MaxActs} \subseteq Nat

Runs == 1..MaxRuns
Starts == 1..MaxStarts
Claims == 1..MaxClaims

VARIABLES
  goal,     (* status, autoAdvanceAuthorized and autoAdvanceUsedRuns        *)
  exec,     (* goal.execution; same: its contract is the goal's             *)
  task,     (* status, executionStatus and autoAdvance of each task         *)
  adm,      (* the admission of each run                                    *)
  reviewed, (* tasks with a review of their run that fits the files         *)
  proof,    (* tasks with evidence that fits the files and the criteria     *)
  claim,    (* activeAutoAdvanceClaims, of which there is one at most       *)
  live,     (* activeRequests and activeGoalRuns                            *)
  window,   (* the dispatch the window is busy with                         *)
  ready,    (* whether the window is bound to the project, and reported     *)
            (* itself ready                                                 *)
  lost,     (* history: tasks with a run that ended unsettled, not reviewed *)
  carried,  (* history: continuations after a wait that became runs         *)
  stopped,  (* history: executions the user has stopped                     *)
  stranded, (* history: the window lost sight of a claim it had sent        *)
  made, crashes, fails, acts

store == <<goal, exec, task, adm, reviewed, proof>>
main == <<claim, live>>
view == <<window, ready>>
history == <<lost, carried, stopped, stranded>>
bounds == <<made, crashes, fails, acts>>
vars == <<store, main, view, history, bounds>>

NoTask == "-"
NoExec == [id |-> 0, st |-> "none", current |-> NoTask, attempted |-> {}, waited |-> {},
           same |-> TRUE]
NoAuto == [st |-> "none", claim |-> 0, exec |-> 0, asks |-> FALSE, fresh |-> FALSE]
NoRun == [task |-> NoTask, st |-> "none"]
NoClaim == [id |-> 0, task |-> NoTask, exec |-> 0, asks |-> FALSE, sent |-> FALSE]
Idle == [st |-> "idle", claim |-> 0, task |-> NoTask, run |-> 0]

Init ==
  /\ goal = [st |-> "active", authorized |-> FALSE, used |-> 0]
  /\ exec = NoExec
  /\ task = [t \in Tasks |-> [st |-> "todo", exe |-> "other", auto |-> NoAuto]]
  /\ adm = [r \in Runs |-> NoRun] /\ reviewed = {} /\ proof = {}
  /\ claim = NoClaim /\ live = {}
  /\ window = Idle /\ ready = "unbound"
  /\ lost = {} /\ carried = 0 /\ stopped = {} /\ stranded = FALSE
  /\ made = 0 /\ crashes = 0 /\ fails = 0 /\ acts = 0

-----------------------------------------------------------------------------
(* What a task may do next: canRun() for one task, and plan().              *)

Unsettled == {r \in Runs : adm[r].st = "running"}
Active(t) == \E r \in Unsettled : adm[r].task = t
Busy == live # {} \/ claim # NoClaim

Unclear(t) == task[t].exe = "unknown" /\ t \notin reviewed

Runnable(t) ==
  /\ \A d \in DependsOn[t] : task[d].st = "completed"
  /\ task[t].st \in {"todo", "ready", "failed"} \/ (task[t].st = "completed" /\ t \notin proof)

CanRun(t) == goal.st = "active" /\ ~Unclear(t) /\ Runnable(t)

Qualified == (\A t \in Tasks : task[t].st = "completed") /\ Bound \subseteq proof

(* A task that has waited since the execution began goes on only with the   *)
(* user's permission, and only Cap times.                                   *)
AfterWait(t) == t \in exec.waited \/ task[t].auto.fresh

Attempted(t) == t \in exec.attempted

Candidates == {t \in Tasks : task[t].st \in {"todo", "ready", "failed"}}

(* The scan stops at the first task it can decide about.                    *)
Settles(t) ==
  /\ t \in Candidates
  /\ \/ Attempted(t)
     \/ Unclear(t) \/ goal.st # "active"
     \/ CanRun(t) /\ (AfterWait(t) => goal.authorized /\ goal.used < Cap)

FirstOf(s) ==
  LET at == {i \in 1..Len(Order) : Order[i] \in s}
  IN  IF at = {} THEN NoTask ELSE Order[CHOOSE i \in at : \A j \in at : i <= j]

Scanned == FirstOf({t \in Tasks : Settles(t)})

Exhausted ==
  \E t \in Candidates : ~Attempted(t) /\ CanRun(t) /\ AfterWait(t)
                          /\ goal.authorized /\ goal.used >= Cap

Waiting == {t \in Tasks : task[t].st = "waiting"}

CurrentFails ==
  /\ exec.current # NoTask
  /\ LET c == task[exec.current]
     IN  \/ c.auto.exec = exec.id /\ c.auto.st = "failed"
         \/ c.exe = "unknown"
         \/ c.st \in {"failed", "cancelled"}
         \/ c.st = "blocked" /\ c.exe # "completed"

Underway ==
  /\ exec.current # NoTask
  /\ LET a == task[exec.current].auto IN a.exec = exec.id /\ a.st \in {"claimed", "started"}

(* The first of these that applies, as in plan().                           *)
Decision ==
  IF exec.st \in {"none", "stopped", "blocked", "completed"} THEN "idle"
  ELSE IF exec.st = "stopping" THEN IF Unsettled # {} THEN "idle" ELSE "stopped"
  ELSE IF goal.st = "paused" THEN "waiting"
  ELSE IF goal.st = "stopped" THEN "stopped"
  ELSE IF ~exec.same THEN "blocked"
  ELSE IF Unsettled # {} \/ Underway THEN "idle"
  ELSE IF CurrentFails THEN "blocked"
  ELSE IF Scanned # NoTask
       THEN IF Attempted(Scanned) \/ ~CanRun(Scanned) THEN "blocked" ELSE "run"
  ELSE IF Exhausted THEN "blocked"
  ELSE IF Waiting # {} THEN "waiting"
  ELSE IF Qualified THEN "completed"
  ELSE "waiting"

-----------------------------------------------------------------------------
(* The main process: refreshGoals() and the scheduler's tick().             *)

Set(t, st, auto) == [task EXCEPT ![t].st = st, ![t].auto = auto]
Failed(a) == [NoAuto EXCEPT !.st = "failed", !.exec = a.exec, !.fresh = a.fresh]
Over(a) == [NoAuto EXCEPT !.fresh = a.fresh]      \* settled, superseded, unknown

(* releaseAutoAdvanceClaim, if the task is still claimed with this id.      *)
Released(t, id) ==
  IF task[t].auto.st = "claimed" /\ task[t].auto.claim = id
  THEN [task EXCEPT ![t].auto = Failed(@)]
  ELSE task

(* A release that is let go of in memory whether or not it could be written.*)
LetGo ==
  /\ \/ task' = Released(claim.task, claim.id) /\ UNCHANGED fails
     \/ Released(claim.task, claim.id) # task /\ fails < MaxFails /\ fails' = fails + 1 /\ UNCHANGED task
  /\ claim' = NoClaim

(* The first half of a refresh: a claim that was not sent in time expires.  *)
Expire ==
  /\ ready # "unbound" /\ claim # NoClaim /\ ~claim.sent
  /\ LetGo
  /\ UNCHANGED <<goal, exec, adm, reviewed, proof, live, view, history, made, crashes, acts>>

(* A wait is over: its time has come, or what it waits for was observed.    *)
ReleaseWait(t) ==
  /\ task[t].st = "waiting"
  /\ task' = Set(t, "ready", [NoAuto EXCEPT !.st = "ready", !.fresh = TRUE])
  /\ UNCHANGED <<goal, exec, adm, reviewed, proof, main, view, history, bounds>>

(* The second half, after the external waits were polled: runs and claims   *)
(* that nobody in this process answers for.                                 *)
OrphansOfAny == Unsettled           \* mutant: live runs are taken for orphans
Orphans == Unsettled \ live

Interrupted(t) == \E r \in Orphans : adm[r].task = t

ReconcileFailed(t) ==               \* mutant: an interrupted run counts as failed
  IF Interrupted(t)
  THEN [st |-> "failed", exe |-> "other",
        auto |-> IF task[t].auto.st = "started" THEN Over(task[t].auto) ELSE task[t].auto]
  ELSE task[t]

Reconciled(t) ==
  IF Interrupted(t)
  THEN [st |-> "blocked", exe |-> "unknown",
        auto |-> IF task[t].auto.st = "started" THEN Over(task[t].auto) ELSE task[t].auto]
  ELSE task[t]

Unanswered(rec) == rec.auto.st = "claimed" /\ rec.auto.claim # claim.id

RefreshRunsOnly ==                  \* mutant: claims are not reconciled
  /\ ready # "unbound" /\ Orphans # {}
  /\ adm' = [r \in Runs |-> IF r \in Orphans THEN [adm[r] EXCEPT !.st = "unknown"] ELSE adm[r]]
  /\ task' = [t \in Tasks |-> Reconciled(t)]
  /\ reviewed' = {t \in reviewed : ~Interrupted(t)}
  /\ UNCHANGED <<goal, exec, proof, main, view, history, bounds>>

Refresh ==
  /\ ready # "unbound"
  /\ adm' = [r \in Runs |-> IF r \in Orphans THEN [adm[r] EXCEPT !.st = "unknown"] ELSE adm[r]]
  /\ task' = [t \in Tasks |->
                LET rec == Reconciled(t)
                IN  IF Unanswered(rec) THEN [rec EXCEPT !.auto = Failed(@)] ELSE rec]
  /\ reviewed' = {t \in reviewed : ~Interrupted(t)}
  /\ task' # task
  /\ UNCHANGED <<goal, exec, proof, main, view, history, bounds>>

(* advanceExecution: what plan() found is written down.                     *)
Advanced ==
  [exec EXCEPT !.st = IF Decision = "run" THEN "active" ELSE Decision,
               !.waited = IF Decision \in {"run", "waiting"} /\ goal.st # "paused"
                          THEN @ \cup Waiting ELSE @]

Scheduled ==
  exec.st \in {"active", "stopping"} \/ (exec.st = "waiting" /\ goal.st # "paused")

Advance ==
  /\ ready # "unbound" /\ Scheduled /\ Decision # "idle"
  /\ exec' = Advanced /\ exec' # exec
  /\ goal' = IF Decision = "completed" THEN [goal EXCEPT !.st = "completed"] ELSE goal
  /\ UNCHANGED <<task, adm, reviewed, proof, main, view, history, bounds>>

(* A claim is written, remembered and sent to the window in one go: nothing *)
(* else runs between (claim() has no await before its end).                 *)
Send(t, c) ==
  /\ made < MaxClaims /\ made' = made + 1
  /\ claim' = [c EXCEPT !.id = made + 1, !.task = t]
  /\ window' = [Idle EXCEPT !.st = "told", !.claim = made', !.task = t]
  /\ ready' = "busy"
  /\ UNCHANGED <<adm, reviewed, proof, live, history, crashes, fails, acts>>

ClaimNextUncounted ==               \* mutant: continuations are not counted
  /\ ready = "ready" /\ ~Busy /\ Scheduled /\ Decision = "run"
  /\ LET t == Scanned
         asks == AfterWait(t)
     IN  /\ Send(t, [NoClaim EXCEPT !.exec = exec.id, !.asks = asks])
         /\ exec' = [Advanced EXCEPT !.current = t, !.attempted = @ \cup {t}]
         /\ task' = Set(t, task[t].st, [st |-> "claimed", claim |-> made', exec |-> exec.id,
                                        asks |-> asks, fresh |-> FALSE])
         /\ UNCHANGED goal

(* claimExecutionTask                                                       *)
ClaimNext ==
  /\ ready = "ready" /\ ~Busy /\ Scheduled /\ Decision = "run"
  /\ LET t == Scanned
         asks == AfterWait(t)
     IN  /\ Send(t, [NoClaim EXCEPT !.exec = exec.id, !.asks = asks])
         /\ exec' = [Advanced EXCEPT !.current = t, !.attempted = @ \cup {t}]
         /\ task' = Set(t, task[t].st, [st |-> "claimed", claim |-> made', exec |-> exec.id,
                                        asks |-> asks, fresh |-> FALSE])
         /\ goal' = IF asks THEN [goal EXCEPT !.used = @ + 1] ELSE goal

(* claimAutoAdvance: without an execution, a task whose wait is over.       *)
ClaimAfterWait ==
  /\ ready = "ready" /\ ~Busy /\ exec = NoExec
  /\ goal.authorized /\ goal.used < Cap
  /\ LET t == FirstOf({u \in Tasks : task[u].st = "ready" /\ task[u].auto.st = "ready" /\ CanRun(u)})
     IN  /\ t # NoTask /\ ~Active(t)
         /\ Send(t, [NoClaim EXCEPT !.asks = TRUE])
         /\ task' = Set(t, task[t].st, [task[t].auto EXCEPT !.st = "claimed", !.claim = made'])
         /\ goal' = [goal EXCEPT !.used = @ + 1]
         /\ UNCHANGED exec

-----------------------------------------------------------------------------
(* The window: a dispatch becomes a chat, or is given back.                 *)

(* The chat handler compares the claim with its own and looks at the        *)
(* permission again; from then on the claim does not expire.                *)
Accepts ==
  /\ claim.id = window.claim
  /\ claim.asks => goal.authorized
  /\ claim.exec # 0 => exec.st = "active" /\ exec.id = claim.exec

(* admit(): with a claim of the task ...                                    *)
AdmitsLoosely(t) ==                 \* mutant: the contract is not compared
  /\ task[t].auto.st = "claimed" /\ task[t].auto.claim = window.claim
  /\ goal.st = "active"
  /\ task[t].auto.asks => goal.authorized
  /\ task[t].auto.exec # 0 =>
       exec.st = "active" /\ exec.id = task[t].auto.exec /\ exec.current = t
  /\ ~Active(t) /\ CanRun(t)

Admits(t) ==
  /\ task[t].auto.st = "claimed" /\ task[t].auto.claim = window.claim
  /\ goal.st = "active"
  /\ task[t].auto.asks => goal.authorized
  /\ task[t].auto.exec # 0 =>
       exec.st = "active" /\ exec.id = task[t].auto.exec /\ exec.current = t /\ exec.same
  /\ ~Active(t) /\ CanRun(t)

(* ... and without one.                                                     *)
AdmitsByHand(t) == task[t].auto.st # "claimed" /\ ~Active(t) /\ CanRun(t)

Begin(r, t, auto) ==
  /\ adm[r].st = "none" /\ \A q \in Runs : q < r => adm[q].st # "none"
  /\ adm' = [adm EXCEPT ![r] = [task |-> t, st |-> "running"]]
  /\ task' = [task EXCEPT ![t] = [st |-> "in_progress", exe |-> "other", auto |-> auto]]
  /\ live' = live \cup {r}
  /\ UNCHANGED <<goal, exec, reviewed, proof, lost, stopped, stranded, made, crashes, fails>>

(* The chat of the claim is admitted: the claim has become a run.  Between  *)
(* the look at the claim and the admission nothing else runs, also when an  *)
(* external agent is used: runExternal() has no await before its onStart(). *)
ChatAdmitted(r) ==
  LET t == window.task
  IN  /\ window.st = "told" /\ Accepts /\ Admits(t)
      /\ Begin(r, t, [task[t].auto EXCEPT !.st = "started", !.claim = 0])
      /\ claim' = NoClaim
      /\ window' = [window EXCEPT !.st = "waiting", !.run = r]
      /\ carried' = carried + IF claim.asks THEN 1 ELSE 0
      /\ UNCHANGED <<ready, acts>>

(* It ends before: in the window, at the first look, or at the admission    *)
(* and what comes before it (a busy agent, no model, a file it cannot read).*)
ChatEnds ==
  /\ window.st = "told"
  /\ window' = [window EXCEPT !.st = "ended"]
  /\ \/ UNCHANGED claim
     \/ Accepts /\ claim' = [claim EXCEPT !.sent = TRUE]
  /\ UNCHANGED <<store, live, ready, history, bounds>>

(* A run the user starts.                                                   *)
RunByHand(r, t) ==
  /\ AdmitsByHand(t) /\ acts < MaxActs /\ acts' = acts + 1
  /\ Begin(r, t, IF task[t].auto.st = "ready" THEN Over(task[t].auto) ELSE task[t].auto)
  /\ UNCHANGED <<claim, view, carried>>

Returns(r) == IF window.run = r THEN [window EXCEPT !.st = "ended"] ELSE window

(* The end of a run: settle(), with the evidence of the run itself for a    *)
(* task that carries no criterion, and the goal completed if that was all.  *)
Settled(r, outcome, verified) ==
  LET t == adm[r].task
      proof1 == IF verified /\ t \notin Bound THEN proof \cup {t} ELSE proof
      st == IF outcome # "completed" THEN outcome
            ELSE IF t \in proof1 THEN "completed" ELSE "blocked"
      auto == IF task[t].auto.st = "started" THEN Over(task[t].auto) ELSE task[t].auto
      task1 == [task EXCEPT ![t] = [st |-> st, auto |-> auto,
                                    exe |-> IF outcome = "completed" THEN outcome ELSE "other"]]
  IN  /\ proof' = proof1 /\ task' = task1
      /\ adm' = [adm EXCEPT ![r].st = "settled"]
      /\ goal' = IF goal.st = "active" /\ Bound \subseteq proof1
                      /\ \A u \in Tasks : task1[u].st = "completed"
                 THEN [goal EXCEPT !.st = "completed"] ELSE goal

Finish(r, outcome, verified) ==
  /\ r \in live
  /\ Settled(r, outcome, verified)
  /\ live' = live \ {r} /\ window' = Returns(r)
  /\ UNCHANGED <<exec, reviewed, claim, ready, history, bounds>>

(* It cannot be written: the run is over all the same.                      *)
FinishUnsettled(r) ==
  /\ r \in live /\ fails < MaxFails /\ fails' = fails + 1
  /\ live' = live \ {r} /\ window' = Returns(r)
  /\ lost' = lost \cup {adm[r].task}
  /\ UNCHANGED <<store, claim, ready, carried, stopped, stranded, made, crashes, acts>>

(* The dispatch is over; whatever is left of its claim is released.         *)
GiveBack ==
  /\ window.st = "ended" /\ window' = Idle
  /\ \/ /\ task' = Released(window.task, window.claim)
        /\ claim' = IF claim.id = window.claim THEN NoClaim ELSE claim
        /\ UNCHANGED <<stranded, fails>>
     \/ /\ Released(window.task, window.claim) # task \/ claim.id = window.claim
        /\ fails < MaxFails /\ fails' = fails + 1
        /\ stranded' = (stranded \/ (claim.id = window.claim /\ claim.sent))
        /\ UNCHANGED <<task, claim>>
  /\ UNCHANGED <<goal, exec, adm, reviewed, proof, live, ready, lost, carried, stopped,
                 made, crashes, acts>>

-----------------------------------------------------------------------------
(* The window comes, goes and is loaded anew; the process ends.             *)

Bind ==
  /\ ready' = IF window.st = "idle" THEN "ready" ELSE "busy"
  /\ ready' # ready
  /\ UNCHANGED <<store, main, window, history, bounds>>

(* Another project: what was not sent is released, and a dispatch that has  *)
(* not been looked at is dropped.                                           *)
Unbind ==
  /\ ready # "unbound" /\ ready' = "unbound"
  /\ window' \in {window} \cup (IF window.st = "told" THEN {Idle} ELSE {})
  /\ IF claim # NoClaim /\ ~claim.sent THEN LetGo ELSE UNCHANGED <<task, claim, fails>>
  /\ UNCHANGED <<goal, exec, adm, reviewed, proof, live, history, made, crashes, acts>>

(* A reload forgets the dispatch and leaves the binding as it is.           *)
Reload ==
  /\ window # Idle /\ window' = Idle
  /\ stranded' = (stranded \/ (claim.id = window.claim /\ claim.sent))
  /\ UNCHANGED <<store, main, ready, lost, carried, stopped, bounds>>

Crash ==
  /\ crashes < MaxCrashes /\ crashes' = crashes + 1
  /\ live' = {} /\ claim' = NoClaim /\ window' = Idle /\ ready' = "unbound"
  /\ lost' = lost \cup {adm[r].task : r \in live}
  /\ stranded' = FALSE
  /\ UNCHANGED <<store, carried, stopped, made, fails, acts>>

-----------------------------------------------------------------------------
(* The user.                                                                *)

Acts == acts < MaxActs /\ acts' = acts + 1 /\ UNCHANGED <<made, crashes, fails>>

GoalMoves ==
  {<<"active", "paused">>, <<"active", "stopped">>, <<"paused", "active">>, <<"paused", "stopped">>}
    \cup (IF Qualified THEN {<<"active", "completed">>, <<"paused", "completed">>} ELSE {})

UpdateGoal(st) ==
  /\ Acts
  /\ <<goal.st, st>> \in GoalMoves
  /\ goal' = [goal EXCEPT !.st = st]
  /\ UNCHANGED <<exec, task, adm, reviewed, proof, main, view, history>>

Authorize ==
  /\ Acts
  /\ goal' = [goal EXCEPT !.authorized = ~@]
  /\ UNCHANGED <<exec, task, adm, reviewed, proof, main, view, history>>

StartExecution ==
  /\ ready # "unbound" /\ ~Busy
  /\ goal.st = "active" /\ Unsettled = {} /\ exec.st \notin {"active", "stopping"}
  /\ exec.id < MaxStarts
  /\ exec' = [NoExec EXCEPT !.id = exec.id + 1, !.st = "active", !.waited = Waiting]
  /\ task' = [t \in Tasks |-> [task[t] EXCEPT !.auto.fresh = FALSE]]
  /\ UNCHANGED <<goal, adm, reviewed, proof, main, view, history, bounds>>

StopExecution ==
  /\ Acts
  /\ exec.st \notin {"none", "stopped", "completed"}
  /\ exec' = [exec EXCEPT !.st = IF Unsettled # {} THEN "stopping" ELSE "stopped"]
  /\ exec' # exec
  /\ stopped' = stopped \cup {exec.id}
  /\ UNCHANGED <<goal, task, adm, reviewed, proof, main, view, lost, carried, stranded>>

(* updateTask: a task whose run is unknown leaves that state only after a   *)
(* review that fits the files.                                              *)
Reviewed(t) == IF task[t].exe = "unknown" THEN "other" ELSE task[t].exe

SetStatus(t, st) ==
  /\ Acts
  /\ st # task[t].st
  /\ st # "cancelled" => ~Unclear(t)
  /\ st = "completed" => t \in proof
  /\ LET a == task[t].auto
     IN  task' = [task EXCEPT ![t] =
                    [st |-> st, exe |-> IF st = "cancelled" THEN @.exe ELSE Reviewed(t),
                     auto |-> IF a.st \in {"ready", "claimed"} THEN Over(a) ELSE a]]
  /\ UNCHANGED <<goal, exec, adm, reviewed, proof, main, view, history>>

SetWait(t) ==
  /\ Acts
  /\ ~Unclear(t)
  /\ task' = [task EXCEPT ![t] = [st |-> "waiting", exe |-> Reviewed(t), auto |-> NoAuto]]
  /\ task' # task
  /\ UNCHANGED <<goal, exec, adm, reviewed, proof, main, view, history>>

(* The answer to a business decision sets the tasks free that it blocked.   *)
ResolveDecision(ts) ==
  /\ Acts
  /\ task' = [t \in Tasks |->
                IF t \in ts /\ task[t].st = "blocked" /\ task[t].exe # "unknown"
                THEN [task[t] EXCEPT !.st = "todo"] ELSE task[t]]
  /\ task' # task
  /\ UNCHANGED <<goal, exec, adm, reviewed, proof, main, view, history>>

ConfirmReview(t) ==
  /\ Acts
  /\ Unclear(t)
  /\ reviewed' = reviewed \cup {t} /\ lost' = lost \ {t}
  /\ UNCHANGED <<goal, exec, task, adm, proof, main, view, carried, stopped, stranded>>

(* An edit of the goal or of its tasks: the contract is another one, and so *)
(* are the criteria that were approved for acceptance.                      *)
EditContract ==
  /\ Acts
  /\ exec.st # "none" /\ exec.same
  /\ exec' = [exec EXCEPT !.same = FALSE]
  /\ proof' \in SUBSET (proof \ Bound)
  /\ UNCHANGED <<goal, task, adm, reviewed, main, view, history>>

(* Files of the project change, by a run or by anybody.                     *)
EditFiles ==
  /\ Acts
  /\ proof # {} \/ reviewed # {}
  /\ proof' = {} /\ reviewed' = {}
  /\ UNCHANGED <<goal, exec, task, adm, main, view, history>>

(* Acceptance by a command, while no agent is at work.                      *)
Verify(t) ==
  /\ Acts
  /\ ~Busy /\ t \notin proof
  /\ proof' = proof \cup {t}
  /\ task' = IF task[t].exe = "completed" THEN [task EXCEPT ![t].st = "completed"] ELSE task
  /\ UNCHANGED <<goal, exec, adm, reviewed, main, view, history>>

-----------------------------------------------------------------------------
Next ==
  \/ Expire \/ Refresh \/ Advance \/ ClaimNext \/ ClaimAfterWait
  \/ ChatEnds \/ GiveBack \/ Bind \/ Unbind \/ Reload \/ Crash
  \/ \E st \in {"active", "paused", "stopped", "completed"} : UpdateGoal(st)
  \/ Authorize \/ StartExecution \/ StopExecution \/ EditContract \/ EditFiles
  \/ \E ts \in SUBSET Tasks : ResolveDecision(ts)
  \/ \E t \in Tasks :
       \/ ReleaseWait(t) \/ SetWait(t) \/ ConfirmReview(t) \/ Verify(t)
       \/ \E st \in {"todo", "completed", "cancelled"} : SetStatus(t, st)
  \/ \E r \in Runs :
       \/ ChatAdmitted(r) \/ FinishUnsettled(r)
       \/ \E t \in Tasks : RunByHand(r, t)
       \/ \E outcome \in {"completed", "failed", "cancelled"}, verified \in BOOLEAN :
            Finish(r, outcome, verified)

(* The scheduler refreshes a project that is bound again and again, and a   *)
(* window gives back what it has finished.                                  *)
Fairness == WF_vars(Expire) /\ WF_vars(Refresh) /\ WF_vars(GiveBack)

Spec == Init /\ [][Next]_vars
FairSpec == Spec /\ Fairness

-----------------------------------------------------------------------------
Autos == [st : {"none", "ready", "claimed", "started", "failed"}, claim : {0} \cup Claims,
          exec : {0} \cup Starts, asks : BOOLEAN, fresh : BOOLEAN]

GoalRecs ==
  [st : {"active", "paused", "stopped", "completed"}, authorized : BOOLEAN, used : 0..Cap]
ExecRecs ==
  [id : {0} \cup Starts, current : Tasks \cup {NoTask},
   st : {"none", "active", "waiting", "stopping", "stopped", "blocked", "completed"},
   attempted : SUBSET Tasks, waited : SUBSET Tasks, same : BOOLEAN]
TaskRecs ==
  [st : {"todo", "ready", "in_progress", "waiting", "blocked", "completed", "failed", "cancelled"},
   exe : {"other", "completed", "unknown"}, auto : Autos]
RunRecs == [task : Tasks \cup {NoTask}, st : {"none", "running", "settled", "unknown"}]
ClaimRecs ==
  [id : {0} \cup Claims, task : Tasks \cup {NoTask}, exec : {0} \cup Starts,
   asks : BOOLEAN, sent : BOOLEAN]
WindowRecs ==
  [st : {"idle", "told", "waiting", "ended"}, claim : {0} \cup Claims,
   task : Tasks \cup {NoTask}, run : {0} \cup Runs]

TypeOK ==
  /\ goal \in GoalRecs /\ exec \in ExecRecs
  /\ task \in [Tasks -> TaskRecs] /\ adm \in [Runs -> RunRecs]
  /\ reviewed \subseteq Tasks /\ proof \subseteq Tasks
  /\ claim \in ClaimRecs /\ live \subseteq Runs
  /\ window \in WindowRecs /\ ready \in {"unbound", "busy", "ready"}

(* Two agents never work on the same task, whatever was reconciled, marked  *)
(* or claimed while one of them was at work (goalStore.cjs:201, :278).      *)
OneRunPerTask ==
  \A q, r \in live : adm[q].task = adm[r].task => q = r

(* Tasks, runs and claims fit together, and no task is worked on twice, in  *)
(* any order of scheduling, reconciliation, user's changes and crashes.     *)
RunsAccounted == TypeOK /\ OneRunPerTask

(* The permission to go on by itself after a wait is used Cap times at most *)
(* in the life of a goal, across stops, new executions and crashes, and a   *)
(* continuation is paid for before it starts (goalStore.cjs:202, :243).     *)
AllowanceKept == carried <= goal.used /\ goal.used <= Cap

(* A task whose run was cut off, by a crash or because its end could not be *)
(* written, is not run again before the user has reviewed what it did       *)
(* (docs/canvas-and-goals.md:35).                                           *)
InterruptedIsReviewed ==
  [][\A r \in live' \ live : adm'[r].task \notin lost]_vars

(* What the user has stopped, paused, edited or forbidden since does not    *)
(* start by itself, also when the window had already been told to.          *)
StopHolds ==
  [][window.st = "told" /\ window'.st = "waiting" =>
       /\ goal.st = "active" /\ (claim.asks => goal.authorized)
       /\ claim.exec # 0 => claim.exec \notin stopped /\ exec.same]_vars

Claimed == claim # NoClaim \/ \E t \in Tasks : task[t].auto.st = "claimed"

(* A claim becomes a run or is given up, so that it keeps neither its task  *)
(* nor the scheduler busy; except one that was sent and that the window     *)
(* then lost sight of.                                                      *)
EveryClaimEnds == []<>(Claimed => stranded \/ ready = "unbound")
=============================================================================
