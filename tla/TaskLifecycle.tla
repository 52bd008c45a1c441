---------------------------- MODULE TaskLifecycle ----------------------------
(***************************************************************************)
(* The life of delegated tasks (electron/subagents.cjs): delegate(),       *)
(* executeTask(), cancel_subagent_task, retry() and the task views that    *)
(* persistTaskView() keeps in <run>.subagents.json.  Attempts of several   *)
(* tasks run at the same time (delegate_tasks), share the slots of the     *)
(* scheduler with the retries, and end in any order; the parent's abort, a *)
(* cancellation and the deadline of an attempt may come at any point of    *)
(* it, a write of the views may fail, and the process may crash.           *)
(*                                                                         *)
(* The scheduler is what it promises, ReadersWriterLock (SubagentScheduler *)
(* is shown to implement it).  What the review makes of results is         *)
(* ResultReview's; here a dependency that is not confirmed is one of the   *)
(* reasons for which an attempt is refused.                                *)
(***************************************************************************)
EXTENDS Naturals, FiniteSets

CONSTANTS
  Tasks,           (* task ids                                              *)
  Shared,          (* the tasks that need the shared workspace for          *)
                   (* themselves (not parallelSafeTask)                     *)
  ReadOnly,        (* the tasks of READ_ONLY_ROLES; a verifier, which runs  *)
                   (* commands, is one of them and needs the workspace for  *)
                   (* itself as well                                        *)
  Limit,           (* slots of the scheduler                                *)
  MaxTasksPerRun, MaxAttemptsPerTask, MaxAttemptsPerRun,
  MaxCrashes,      (* bound: crashes                                        *)
  MaxFails         (* bound: writes of the task views that fail             *)

ASSUME LifecycleAssumption ==
  /\ Shared \subseteq Tasks /\ ReadOnly \subseteq Tasks
  /\ {Limit, MaxTasksPerRun, MaxAttemptsPerTask, MaxAttemptsPerRun} \subseteq Nat \ {0}
  /\ MaxCrashes \in Nat /\ MaxFails \in Nat /\ IsFiniteSet(Tasks)

Attempts == 1..MaxAttemptsPerTask
Executions == Tasks \X Attempts      (* one executionId for each attempt    *)

VARIABLES
  task,      (* the tasks of the manager                                    *)
  disk,      (* the same in the task views                                  *)
  count,     (* startedTaskCount and startedAttemptCount                    *)
  diskCount, (* the same in the task views                                  *)
  run,       (* how far delegate() has come with an attempt                 *)
  outcome,   (* what executeTask() returned: whether it was ok, and the     *)
             (* outcomeStatus                                               *)
  aborted,   (* attempts whose controller is aborted                        *)
  timedOut,  (* attempts whose deadline has passed                          *)
  redo,      (* retry() of a task: "none", "waiting" for the slot, "asking" *)
  parent,    (* whether the parent's signal is aborted                      *)
  launched,  (* history: how often an agent was started for an attempt      *)
  dirty,     (* history: the attempts of writing roles whose changes are in *)
             (* the workspace and are neither accepted nor compensated      *)
             (* (what the commands of a verifier change is not followed up) *)
  crashes, fails

vars == <<task, disk, count, diskCount, run, outcome, aborted, timedOut, redo,
          parent, launched, dirty, crashes, fails>>

Final == {"done", "failed", "blocked", "cancelled"}

NoTask == [st |-> "none", attempt |-> 0, started |-> FALSE, settled |-> FALSE, review |-> FALSE]
Queued(a) == [NoTask EXCEPT !.st = "queued", !.attempt = a]

(* TASK_TRANSITIONS, with the assignment of the present status as no move.  *)
MovesNoBlock(st) ==                 \* mutant: a cancelling task cannot time out
  CASE st = "queued"     -> {"queued", "running", "cancelling", "failed", "cancelled", "blocked"}
    [] st = "running"    -> {"running", "cancelling"} \cup Final
    [] st = "cancelling" -> {"cancelling", "cancelled", "failed"}
    [] OTHER             -> {st}

Moves(st) ==
  CASE st = "queued"     -> {"queued", "running", "cancelling", "failed", "cancelled", "blocked"}
    [] st = "running"    -> {"running", "cancelling"} \cup Final
    [] st = "cancelling" -> {"cancelling", "cancelled", "blocked", "failed"}
    [] OTHER             -> {st}

-----------------------------------------------------------------------------
(* The slots of the scheduler: held by attempts and by retries.             *)

Run(e) == <<"run", e>>
Redo(t) == <<"redo", t>>
Holders == {Run(e) : e \in Executions} \cup {Redo(t) : t \in Tasks}

InsideOf(r, d) ==
  {Run(e) : e \in {x \in Executions : r[x] \in {"granted", "working", "returned"}}}
    \cup {Redo(t) : t \in {u \in Tasks : d[u] = "asking"}}

Inside == InsideOf(run, redo)

Slots == INSTANCE ReadersWriterLock WITH
           Tasks <- Holders, limit <- Limit, inside <- Inside,
           Writers <- {Run(e) : e \in Shared \X Attempts} \cup {Redo(t) : t \in Tasks}

RedoFits(t) == Slots!Compatible(Inside \cup {Redo(t)})

-----------------------------------------------------------------------------
(* persistTaskView: a task becomes rec, and so does its view if the write   *)
(* works.  The counts of the file are raised by the first view of a task    *)
(* that has started and by the first of an attempt that has.                *)

Live(t) == {e \in Executions : e[1] = t /\ run[e] # "idle"}

Counted(t, rec) ==
  LET firstTask == rec.started /\ disk[t].attempt <= 1 /\ ~disk[t].started
      firstTry  == rec.started /\ (~disk[t].started \/ disk[t].attempt # rec.attempt)
  IN  [tasks    |-> diskCount.tasks + (IF firstTask THEN 1 ELSE 0),
       attempts |-> diskCount.attempts + (IF firstTry THEN 1 ELSE 0)]

Write(t, rec) ==
  /\ disk' = [disk EXCEPT ![t] = rec]
  /\ diskCount' = Counted(t, rec)
  /\ UNCHANGED fails

WriteFails ==
  /\ fails < MaxFails /\ fails' = fails + 1
  /\ UNCHANGED <<disk, diskCount>>

Persist(t, rec) == Write(t, rec) \/ WriteFails

Init ==
  /\ task = [t \in Tasks |-> NoTask] /\ disk = [t \in Tasks |-> NoTask]
  /\ count = [tasks |-> 0, attempts |-> 0] /\ diskCount = count
  /\ run = [e \in Executions |-> "idle"]
  /\ outcome = [e \in Executions |-> "none"]
  /\ aborted = {} /\ timedOut = {} /\ parent = FALSE
  /\ redo = [t \in Tasks |-> "none"]
  /\ launched = [t \in Tasks |-> 0] /\ dirty = {}
  /\ crashes = 0 /\ fails = 0

-----------------------------------------------------------------------------
(* delegate(), up to its wait for a slot.  A first write that fails leaves  *)
(* a task that fails without having started.                                *)

Enqueue(t, a) ==
  \/ /\ task' = [task EXCEPT ![t] = Queued(a)]
     /\ run' = [run EXCEPT ![<<t, a>>] = "waiting"]
     /\ Write(t, Queued(a))
  \/ /\ WriteFails
     /\ task' = [task EXCEPT ![t] = Queued(a)]
     /\ run' = [run EXCEPT ![<<t, a>>] = "failing"]

Delegate(t) ==
  /\ ~parent /\ task[t].st = "none"
  /\ Enqueue(t, 1)
  /\ UNCHANGED <<count, outcome, aborted, timedOut, redo, parent, launched, dirty, crashes>>

Enter(e) ==
  /\ run[e] = "waiting" /\ e \notin aborted
  /\ Slots!Compatible(Inside \cup {Run(e)})
  /\ run' = [run EXCEPT ![e] = "granted"]
  /\ UNCHANGED <<task, disk, count, diskCount, outcome, aborted, timedOut, redo, parent,
                 launched, dirty, crashes, fails>>

(* The abort listener: the task is cancelling, and that is saved if it can be. *)
AbortNow(S) ==
  /\ aborted' = aborted \cup S
  /\ task' = [t \in Tasks |-> IF \E e \in S \ aborted : e[1] = t
                              THEN [task[t] EXCEPT !.st = "cancelling"] ELSE task[t]]

ParentAbort ==
  /\ ~parent /\ parent' = TRUE
  /\ AbortNow({e \in Executions : run[e] # "idle"})
  /\ \E lost \in SUBSET {t \in Tasks : task'[t] # task[t]} :
       /\ fails' = fails + Cardinality(lost) /\ fails' <= MaxFails
       /\ disk' = [t \in Tasks |-> IF task'[t] = task[t] \/ t \in lost THEN disk[t] ELSE task'[t]]
  /\ UNCHANGED <<count, diskCount, run, outcome, timedOut, redo, launched, dirty, crashes>>

(* The timer of an attempt: it marks the attempt even if it is aborted.     *)
Deadline(e) ==
  /\ run[e] # "idle" /\ e \notin timedOut
  /\ timedOut' = timedOut \cup {e}
  /\ AbortNow({e})
  /\ IF e \in aborted THEN UNCHANGED <<disk, diskCount, fails>> ELSE Persist(e[1], task'[e[1]])
  /\ UNCHANGED <<count, run, outcome, redo, parent, launched, dirty, crashes>>

(* cancel_subagent_task: for a task with a reservation, or one that the     *)
(* views of an earlier process show as running.                             *)
Cancel(t) ==
  /\ Live(t) # {} \/ task[t].st = "running"
  /\ task' = [task EXCEPT ![t].st = "cancelling"]
  /\ aborted' = aborted \cup Live(t)
  /\ Persist(t, task'[t])
  /\ UNCHANGED <<count, run, outcome, timedOut, redo, parent, launched, dirty, crashes>>

-----------------------------------------------------------------------------
(* executeTask().                                                           *)

QuotaLeft(e) ==
  /\ (e[2] = 1) => count.tasks < MaxTasksPerRun
  /\ count.attempts < MaxAttemptsPerRun

(* Refused for a quota, a dependency, a candidate to be verified, or since  *)
(* its registration could not be saved.                                     *)
Refuse(e) ==
  /\ run[e] = "granted" /\ e \notin aborted
  /\ run' = [run EXCEPT ![e] = "returned"]
  /\ outcome' = [outcome EXCEPT ![e] = "failed"]
  /\ UNCHANGED <<task, disk, count, diskCount, aborted, timedOut, redo, parent, launched, dirty,
                 crashes, fails>>

StartLate(e) ==                     \* mutant: registered after the agent was started
  /\ run[e] = "granted" /\ e \notin aborted /\ QuotaLeft(e)
  /\ run' = [run EXCEPT ![e] = "working"]
  /\ task' = [task EXCEPT ![e[1]].st = "running", ![e[1]].started = TRUE]
  /\ Persist(e[1], task'[e[1]])
  /\ count' = [tasks |-> count.tasks + (IF e[2] = 1 THEN 1 ELSE 0), attempts |-> count.attempts + 1]
  /\ launched' = [launched EXCEPT ![e[1]] = @ + 1]
  /\ dirty' = IF e[1] \in ReadOnly THEN dirty ELSE dirty \cup {e}
  /\ UNCHANGED <<outcome, aborted, timedOut, redo, parent, crashes>>

Start(e) ==
  /\ run[e] = "granted" /\ e \notin aborted /\ QuotaLeft(e)
  /\ run' = [run EXCEPT ![e] = "working"]
  /\ task' = [task EXCEPT ![e[1]].st = "running", ![e[1]].started = TRUE]
  /\ Write(e[1], task'[e[1]])
  /\ count' = [tasks |-> count.tasks + (IF e[2] = 1 THEN 1 ELSE 0), attempts |-> count.attempts + 1]
  /\ launched' = [launched EXCEPT ![e[1]] = @ + 1]
  /\ dirty' = IF e[1] \in ReadOnly THEN dirty ELSE dirty \cup {e}
  /\ UNCHANGED <<outcome, aborted, timedOut, redo, parent, crashes>>

(* The agent has returned; the worktree is still to be summed up.           *)
Return(e) ==
  /\ run[e] = "working"
  /\ run' = [run EXCEPT ![e] = "returned"]
  /\ \E r \in {"done", "failed", "blocked"} : outcome' = [outcome EXCEPT ![e] = r]
  /\ UNCHANGED <<task, disk, count, diskCount, aborted, timedOut, redo, parent, launched, dirty, crashes, fails>>

-----------------------------------------------------------------------------
(* The end of delegate().  An attempt that was aborted while it waited, or  *)
(* between the grant and its first step, comes here without having started. *)

Ended(e) == run[e] \in {"returned", "failing"} \/ (run[e] \in {"waiting", "granted"} /\ e \in aborted)

Status(e) ==
  IF e \in aborted THEN IF e \in timedOut THEN "blocked" ELSE "cancelled"
  ELSE IF run[e] = "failing" THEN "failed" ELSE outcome[e]

Settle(e) ==
  LET t == e[1]
      rec == [task[t] EXCEPT !.st = Status(e), !.settled = TRUE,
                !.review = (Status(e) # "done" /\ task[t].started /\ t \notin ReadOnly)]
  IN
  /\ Ended(e)
  /\ Status(e) \in Moves(task[t].st)
  /\ \/ task' = [task EXCEPT ![t] = rec] /\ Write(t, rec)
     \/ task' = [task EXCEPT ![t] = [rec EXCEPT !.review = TRUE]] /\ WriteFails
  /\ run' = [run EXCEPT ![e] = "idle"]
  /\ dirty' = IF Status(e) = "done" THEN dirty \ {e} ELSE dirty
  /\ outcome' = [outcome EXCEPT ![e] = "none"]
  /\ aborted' = aborted \ {e} /\ timedOut' = timedOut \ {e}
  /\ UNCHANGED <<count, redo, parent, launched, crashes>>

-----------------------------------------------------------------------------
(* retry(): inspectRetry, the exclusive slot, the user's answer, the        *)
(* compensation, and delegate() for the next attempt, which queues before   *)
(* the slot is given back.                                                  *)

RetryableUnsettled(t) ==            \* mutant: does not look for an attempt under way
  /\ ~parent
  /\ task[t].st \in Final \cup {"cancelling"} /\ task[t].started
  /\ redo[t] = "none"
  /\ task[t].attempt < MaxAttemptsPerTask /\ count.attempts < MaxAttemptsPerRun

Retryable(t) ==
  /\ ~parent
  /\ task[t].settled /\ task[t].st \in Final
  /\ Live(t) = {} /\ redo[t] = "none"
  /\ task[t].started                 (* it has a request and an effectRoot  *)
  /\ task[t].attempt < MaxAttemptsPerTask /\ count.attempts < MaxAttemptsPerRun

AskRetry(t) ==
  /\ Retryable(t)
  /\ redo' = [redo EXCEPT ![t] = "waiting"]
  /\ UNCHANGED <<task, disk, count, diskCount, run, outcome, aborted, timedOut, parent,
                 launched, dirty, crashes, fails>>

EnterRedoShared(t) ==               \* mutant: the retry waits as a reader
  /\ redo[t] = "waiting" /\ ~parent
  /\ Cardinality(Inside) < Limit
  /\ redo' = [redo EXCEPT ![t] = "asking"]
  /\ UNCHANGED <<task, disk, count, diskCount, run, outcome, aborted, timedOut, parent,
                 launched, dirty, crashes, fails>>

EnterRedo(t) ==
  /\ redo[t] = "waiting" /\ ~parent
  /\ RedoFits(t)
  /\ redo' = [redo EXCEPT ![t] = "asking"]
  /\ UNCHANGED <<task, disk, count, diskCount, run, outcome, aborted, timedOut, parent,
                 launched, dirty, crashes, fails>>

(* Declined, cancelled, without quota, or changed since: nothing is undone. *)
GiveUpRetry(t) ==
  /\ redo[t] # "none"
  /\ redo' = [redo EXCEPT ![t] = "none"]
  /\ UNCHANGED <<task, disk, count, diskCount, run, outcome, aborted, timedOut, parent,
                 launched, dirty, crashes, fails>>

Redone(t) ==
  /\ redo[t] = "asking" /\ ~parent
  /\ dirty' = {e \in dirty : e[1] # t}
  /\ redo' = [redo EXCEPT ![t] = "none"]
  /\ Enqueue(t, task[t].attempt + 1)
  /\ UNCHANGED <<count, outcome, aborted, timedOut, parent, launched, crashes>>

-----------------------------------------------------------------------------
(* A crash, and hydrateTasks() of the manager of a new process.             *)

HydrateAttemptsOnly ==              \* mutant: the number of tasks is forgotten
  task' = disk /\ count' = [diskCount EXCEPT !.tasks = 0]

Hydrate == task' = disk /\ count' = diskCount

CrashRestart ==
  /\ crashes < MaxCrashes /\ crashes' = crashes + 1
  /\ Hydrate
  /\ run' = [e \in Executions |-> "idle"] /\ redo' = [t \in Tasks |-> "none"]
  /\ aborted' = {} /\ timedOut' = {} /\ parent' = FALSE
  /\ outcome' = [e \in Executions |-> "none"]
  /\ UNCHANGED <<disk, diskCount, launched, dirty, fails>>

Step ==
  \/ \E t \in Tasks : Delegate(t) \/ Cancel(t) \/ AskRetry(t) \/ EnterRedo(t) \/ GiveUpRetry(t) \/ Redone(t)
  \/ \E e \in Executions : Enter(e) \/ Deadline(e) \/ Refuse(e) \/ Start(e) \/ Return(e) \/ Settle(e)

Next == Step \/ ParentAbort \/ CrashRestart

(* A timer fires; an agent that is aborted returns; delegate() goes on when *)
(* what it waits for has come.  Nothing is assumed of an agent that is not  *)
(* aborted, of the user or of the slots.                                    *)
Fairness ==
  \A e \in Executions :
    /\ WF_vars(Deadline(e))
    /\ WF_vars(e \in aborted /\ Return(e))
    /\ WF_vars(Settle(e))

Spec == Init /\ [][Next]_vars
FairSpec == Spec /\ Fairness

-----------------------------------------------------------------------------
Records ==
  [st : {"none", "queued", "running", "cancelling"} \cup Final, attempt : 0..MaxAttemptsPerTask,
   started : BOOLEAN, settled : BOOLEAN, review : BOOLEAN]

Counts == [tasks : Nat, attempts : Nat]

(* The types of the variables.                                              *)
TypeOK ==
  /\ task \in [Tasks -> Records] /\ disk \in [Tasks -> Records]
  /\ count \in Counts /\ diskCount \in Counts
  /\ run \in [Executions -> {"idle", "waiting", "failing", "granted", "working", "returned"}]
  /\ outcome \in [Executions -> {"none"} \cup Final]
  /\ aborted \subseteq Executions /\ timedOut \subseteq aborted
  /\ redo \in [Tasks -> {"none", "waiting", "asking"}]
  /\ parent \in BOOLEAN /\ launched \in [Tasks -> Nat] /\ dirty \subseteq Executions
  /\ crashes \in 0..MaxCrashes /\ fails \in 0..MaxFails

(* The agents started for a task, numbered.                                 *)
Launches == UNION {{t} \X (1..launched[t]) : t \in Tasks}

(* However attempts are batched, refused, redone and interrupted by a       *)
(* crash, a run starts no more tasks and no more attempts than its limits.  *)
(* (docs/multi-agent.md, "Limits and budgets": failed and cancelled ones    *)
(* count.)                                                                  *)
QuotaKept ==
  /\ Cardinality({t \in Tasks : launched[t] > 0}) <= MaxTasksPerRun
  /\ Cardinality(Launches) <= MaxAttemptsPerRun

(* Changes of an attempt, of a role that may write, that were neither       *)
(* accepted nor undone can be found after a crash at any moment: its view   *)
(* is that of an attempt that started and did not end, or of one that has   *)
(* to be looked at (subagents.cjs:1823: the identity is persisted first,    *)
(* then the task is executed).                                              *)
ChangesAreTraced ==
  \A e \in dirty :
    LET v == disk[e[1]] IN v.attempt = e[2] /\ v.started /\ (~v.settled \/ v.review)

(* A task has one attempt under way at most, the one its record shows, and  *)
(* no retry of it has been asked for meanwhile.                             *)
OneExecution ==
  \A t \in Tasks, e \in Executions :
    e \in Live(t) => /\ Live(t) = {e} /\ task[t].attempt = e[2] /\ ~task[t].settled
                     /\ redo[t] = "none"

(* Tasks, attempts and their records fit together under every order of      *)
(* delegation, cancellation, deadline, retry and crash.                     *)
TasksAccounted == TypeOK /\ OneExecution

(* Files are put back only while no agent is at work.                       *)
UndoneAlone ==
  [][\A t \in Tasks : redo[t] = "asking" /\ Live(t)' # {} => \A e \in Executions : run[e] # "working"]_vars

(* What was delegated settles, or the process crashes: sooner or later no   *)
(* attempt is under way, although agents may never return by themselves,    *)
(* the user may never answer a retry that holds the slot, and the parent    *)
(* may never abort.  (There are finitely many attempts in a run.)           *)
EveryAttemptSettles == <>[](\A e \in Executions : run[e] = "idle")
=============================================================================
