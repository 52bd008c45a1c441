----------------------------- MODULE TaskProofs -----------------------------
(***************************************************************************)
(* What is proved about the tasks of sub-agents.                           *)
(*                                                                         *)
(* Their life cycle, for any number of tasks, slots, attempts, crashes and *)
(* failed writes: a task has one attempt under way at most, what an attempt*)
(* left in the workspace can be found in the views after a crash at any    *)
(* moment, a retry puts files back only while no agent is at work, and the *)
(* run stays within its quotas.                                            *)
(*                                                                         *)
(* The review of their results, for any dependencies, worktrees, calls,    *)
(* attempts, edits and crashes: the books about merged code are true, what *)
(* was retracted stays so until there is another attempt, and a confirmed  *)
(* result rests on confirmed results only.                                 *)
(***************************************************************************)
EXTENDS TaskLifecycle, ResultReview, WellFoundedInduction, FiniteSetTheorems, TLAPS

(* An attempt under way is the one that the record of its task shows.       *)
Under(e) ==
  run[e] # "idle" => /\ task[e[1]].attempt = e[2] /\ ~task[e[1]].settled
                     /\ redo[e[1]] = "none"

(* A record without a state is the one of a task that was never delegated.  *)
Blank(v) == v.st = "none" => v = NoTask

(* A retry that has been asked for is of an attempt that is over.           *)
Redoable(t) ==
  redo[t] # "none" => /\ task[t].st \in Final /\ task[t].settled
                      /\ task[t].attempt < MaxAttemptsPerTask

(* A record that shows the changes of an attempt.                           *)
Shows(v, e) == v.attempt = e[2] /\ v.started /\ (~v.settled \/ v.review)

Traced(e) ==
  e \in dirty => Shows(task[e[1]], e) /\ Shows(disk[e[1]], e) /\ e[1] \notin ReadOnly

(* A retry that holds the slot is alone with it.                            *)
Alone(t) ==
  redo[t] = "asking" => /\ \A e \in Executions : run[e] \notin {"granted", "working", "returned"}
                        /\ \A u \in Tasks : redo[u] = "asking" => u = t

IInv ==
  /\ TypeOK
  /\ \A e \in Executions : Under(e) /\ Traced(e)
  /\ \A t \in Tasks : Blank(task[t]) /\ Blank(disk[t]) /\ Redoable(t) /\ Alone(t)

-----------------------------------------------------------------------------
(* Pairs.                                                                   *)

LEMMA ExecutionPairs ==
  /\ \A e \in Executions : e[1] \in Tasks /\ e[2] \in Attempts
  /\ \A e, f \in Executions : e[1] = f[1] /\ e[2] = f[2] => e = f
  /\ \A t \in Tasks, a \in Attempts : <<t, a>> \in Executions /\ <<t, a>>[1] = t /\ <<t, a>>[2] = a
BY DEF Executions

LEMMA HoldersDiffer ==
  /\ \A e \in Executions, t \in Tasks : Run(e) # Redo(t)
  /\ \A t, u \in Tasks : Redo(t) = Redo(u) => t = u
BY DEF Run, Redo

(* A retry that is let in finds nobody, and an attempt finds no retry.      *)
LEMMA RedoIsAlone ==
  ASSUME NEW t \in Tasks, RedoFits(t)
  PROVE  /\ \A e \in Executions : run[e] \notin {"granted", "working", "returned"}
         /\ \A u \in Tasks : redo[u] = "asking" => u = t
<1> DEFINE W == {Run(e) : e \in Shared \X Attempts} \cup {Redo(u) : u \in Tasks}
<1>1. Redo(t) \in (Inside \cup {Redo(t)}) \cap W
  OBVIOUS
<1>2. Inside \cup {Redo(t)} = {Redo(t)}
  BY <1>1 DEF RedoFits, Slots!Compatible
<1>3. \A e \in Executions : run[e] \in {"granted", "working", "returned"} => Run(e) \in Inside
  BY DEF Inside, InsideOf
<1>4. \A u \in Tasks : redo[u] = "asking" => Redo(u) \in Inside
  BY DEF Inside, InsideOf
<1>5. QED
  BY <1>2, <1>3, <1>4, HoldersDiffer

LEMMA EnterFindsNoRedo ==
  ASSUME NEW e \in Executions, Slots!Compatible(Inside \cup {Run(e)}), NEW u \in Tasks
  PROVE  redo[u] # "asking"
<1> SUFFICES ASSUME redo[u] = "asking" PROVE FALSE
  OBVIOUS
<1> DEFINE W == {Run(f) : f \in Shared \X Attempts} \cup {Redo(t) : t \in Tasks}
<1>1. Redo(u) \in Inside
  BY DEF Inside, InsideOf
<1>2. Redo(u) \in (Inside \cup {Run(e)}) \cap W
  BY <1>1
<1>3. Inside \cup {Run(e)} = {Redo(u)}
  BY <1>2 DEF Slots!Compatible
<1>4. QED
  BY <1>3, HoldersDiffer

-----------------------------------------------------------------------------
(* One lemma for each kind of step.                                         *)

LEMMA InitGood == Init => IInv
<1> SUFFICES ASSUME Init PROVE IInv
  OBVIOUS
<1>1. NoTask \in Records
  BY LifecycleAssumption DEF NoTask, Records
<1>2. TypeOK
  <2>1. task \in [Tasks -> Records] /\ disk \in [Tasks -> Records]
    BY <1>1 DEF Init
  <2>2. count \in Counts /\ diskCount \in Counts
    BY DEF Init, Counts
  <2>3. /\ run \in [Executions -> {"idle", "waiting", "failing", "granted", "working", "returned"}]
        /\ outcome \in [Executions -> {"none"} \cup Final]
        /\ redo \in [Tasks -> {"none", "waiting", "asking"}] /\ launched \in [Tasks -> Nat]
    BY DEF Init
  <2>4. crashes \in 0..MaxCrashes /\ fails \in 0..MaxFails
    BY LifecycleAssumption DEF Init
  <2>5. QED BY <2>1, <2>2, <2>3, <2>4 DEF Init, TypeOK
<1>3. QED
  BY <1>2, ExecutionPairs DEF Init, IInv, Under, Traced, Blank, Redoable, Alone

(* Nothing that the invariant is about changes but the states of attempts.  *)
LEMMA EnterGood ==
  ASSUME IInv, NEW e \in Executions, Enter(e)
  PROVE  IInv'
<1>1. \A u \in Tasks : redo[u] # "asking"
  BY EnterFindsNoRedo DEF Enter
<1>2. TypeOK'
  BY DEF IInv, TypeOK, Enter
<1>3. \A f \in Executions : Under(f)' /\ Traced(f)'
  BY DEF IInv, Under, Traced, Shows, Enter, TypeOK
<1>4. \A t \in Tasks : Blank(task[t])' /\ Blank(disk[t])' /\ Redoable(t)' /\ Alone(t)'
  BY <1>1 DEF IInv, Blank, Redoable, Alone, Enter, TypeOK
<1>5. QED
  BY <1>2, <1>3, <1>4 DEF IInv

LEMMA LeaveGood ==
  ASSUME IInv, NEW e \in Executions, Refuse(e) \/ Return(e)
  PROVE  IInv'
<1>1. /\ run[e] \in {"granted", "working"} /\ run' = [run EXCEPT ![e] = "returned"]
      /\ UNCHANGED <<task, disk, count, diskCount, aborted, timedOut, redo, parent, launched,
                     dirty, crashes, fails>>
      /\ outcome' \in [Executions -> {"none"} \cup Final]
  <2>1. outcome \in [Executions -> {"none"} \cup Final]
    BY DEF IInv, TypeOK
  <2>2. CASE Refuse(e)
    BY <2>1, <2>2 DEF Refuse, Final
  <2>3. CASE Return(e)
    BY <2>1, <2>3 DEF Return, Final
  <2>4. QED BY <2>2, <2>3
<1>2. TypeOK'
  BY <1>1 DEF IInv, TypeOK
<1>3. \A f \in Executions : Under(f)' /\ Traced(f)'
  BY <1>1 DEF IInv, Under, Traced, Shows, TypeOK
<1>4. \A t \in Tasks : Blank(task[t])' /\ Blank(disk[t])' /\ Redoable(t)' /\ Alone(t)'
  BY <1>1 DEF IInv, Blank, Redoable, Alone, TypeOK
<1>5. QED
  BY <1>2, <1>3, <1>4 DEF IInv

LEMMA RedoMovesGood ==
  ASSUME IInv, NEW t \in Tasks, AskRetry(t) \/ EnterRedo(t) \/ GiveUpRetry(t)
  PROVE  IInv'
<1>1. /\ UNCHANGED <<task, disk, count, diskCount, run, outcome, aborted, timedOut, parent,
                     launched, dirty, crashes, fails>>
      /\ \E s \in {"none", "waiting", "asking"} : redo' = [redo EXCEPT ![t] = s]
  BY DEF AskRetry, EnterRedo, GiveUpRetry
<1>2. redo'[t] # "none" => /\ task[t].st \in Final /\ task[t].settled
                           /\ task[t].attempt < MaxAttemptsPerTask
                           /\ \A e \in Executions : e[1] = t => run[e] = "idle"
  <2>1. CASE AskRetry(t)
    BY <2>1 DEF AskRetry, Retryable, Live
  <2>2. CASE EnterRedo(t)
    BY <2>2 DEF EnterRedo, IInv, Redoable, Under
  <2>3. CASE GiveUpRetry(t)
    BY <2>3 DEF GiveUpRetry, IInv, TypeOK
  <2>4. QED BY <2>1, <2>2, <2>3
<1>3. redo'[t] = "asking" => /\ \A e \in Executions : run[e] \notin {"granted", "working", "returned"}
                             /\ \A u \in Tasks : redo[u] = "asking" => u = t
  <2>1. CASE AskRetry(t)
    BY <2>1 DEF AskRetry, IInv, TypeOK
  <2>2. CASE EnterRedo(t)
    BY <2>2, RedoIsAlone DEF EnterRedo
  <2>3. CASE GiveUpRetry(t)
    BY <2>3 DEF GiveUpRetry, IInv, TypeOK
  <2>4. QED BY <2>1, <2>2, <2>3
<1>4. TypeOK'
  BY <1>1 DEF IInv, TypeOK
<1>5. \A e \in Executions : Under(e)' /\ Traced(e)'
  BY <1>1, <1>2, ExecutionPairs DEF IInv, Under, Traced, Shows, TypeOK
<1>6. \A u \in Tasks : Blank(task[u])' /\ Blank(disk[u])' /\ Redoable(u)'
  BY <1>1, <1>2 DEF IInv, Blank, Redoable, TypeOK
<1>7. \A u \in Tasks : Alone(u)'
  <2> SUFFICES ASSUME NEW u \in Tasks, redo'[u] = "asking"
               PROVE  /\ \A e \in Executions : run[e] \notin {"granted", "working", "returned"}
                      /\ \A v \in Tasks : redo'[v] = "asking" => v = u
    BY <1>1 DEF Alone
  <2>1. CASE redo'[t] = "asking"
    <3>1. \A v \in Tasks : v # t => redo[v] # "asking" /\ redo'[v] = redo[v]
      BY <1>1, <1>3, <2>1 DEF IInv, TypeOK
    <3>2. u = t
      BY <3>1
    <3>3. QED BY <1>3, <2>1, <3>1, <3>2
  <2>2. CASE redo'[t] # "asking"
    BY <1>1, <2>2 DEF IInv, TypeOK, Alone
  <2>3. QED BY <2>1, <2>2
<1>8. QED
  BY <1>4, <1>5, <1>6, <1>7 DEF IInv

(* persistTaskView of a task whose record has just become rec.              *)
LEMMA PersistTypes ==
  ASSUME IInv, NEW t \in Tasks, NEW rec \in Records, Persist(t, rec)
  PROVE  /\ disk' \in [Tasks -> Records] /\ diskCount' \in Counts /\ fails' \in 0..MaxFails
         /\ disk' = disk \/ disk' = [disk EXCEPT ![t] = rec]
<1>1. disk \in [Tasks -> Records] /\ diskCount \in Counts /\ fails \in 0..MaxFails
  BY DEF IInv, TypeOK
<1>2. CASE Write(t, rec)
  <2>1. Counted(t, rec) \in Counts
    BY <1>1 DEF Counted, Counts
  <2>2. QED BY <1>1, <1>2, <2>1 DEF Write
<1>3. CASE WriteFails
  BY <1>1, <1>3, LifecycleAssumption DEF WriteFails
<1>4. QED BY <1>2, <1>3 DEF Persist

(* A step that makes an attempt or a task cancelling, and saves that or not.*)
LEMMA CancellingGood ==
  ASSUME IInv,
         UNCHANGED <<run, redo, dirty>>,
         TypeOK',
         \A t \in Tasks : task'[t] = task[t] \/ (task'[t] = [task[t] EXCEPT !.st = "cancelling"] /\ redo[t] = "none" /\ task[t].st # "none"),
         \A t \in Tasks : disk'[t] = disk[t] \/ disk'[t] = task'[t]
  PROVE  IInv'
<1>1. /\ task \in [Tasks -> Records] /\ disk \in [Tasks -> Records]
      /\ task' \in [Tasks -> Records] /\ disk' \in [Tasks -> Records]
  BY DEF IInv, TypeOK
<1>2. \A t \in Tasks : /\ task'[t].attempt = task[t].attempt /\ task'[t].started = task[t].started
                       /\ task'[t].settled = task[t].settled /\ task'[t].review = task[t].review
                       /\ redo[t] # "none" => task'[t] = task[t]
                       /\ task'[t].st = "none" => task'[t] = task[t]
  BY <1>1 DEF Records
<1>3. \A e \in Executions : Under(e)'
  BY <1>2, ExecutionPairs DEF IInv, Under
<1>4. \A e \in Executions : Traced(e)'
  BY <1>2, ExecutionPairs DEF IInv, Traced, Shows
<1>5. \A t \in Tasks : Blank(task[t])' /\ Blank(disk[t])' /\ Redoable(t)' /\ Alone(t)'
  BY <1>2 DEF IInv, Blank, Redoable, Alone
<1>6. QED
  BY <1>3, <1>4, <1>5 DEF IInv

(* The listeners of the controllers of S, all of them of attempts under way.*)
LEMMA AbortTypes ==
  ASSUME IInv, NEW S \in SUBSET Executions, \A e \in S : run[e] # "idle", AbortNow(S)
  PROVE  /\ task' \in [Tasks -> Records] /\ aborted' \in SUBSET Executions
         /\ \A t \in Tasks : task'[t] = task[t] \/ (task'[t] = [task[t] EXCEPT !.st = "cancelling"] /\ redo[t] = "none" /\ task[t].st # "none")
<1>1. task \in [Tasks -> Records] /\ aborted \in SUBSET Executions
  BY DEF IInv, TypeOK
<1>2. \A t \in Tasks : [task[t] EXCEPT !.st = "cancelling"] \in Records
  BY <1>1 DEF Records
<1>3. \A e \in S : redo[e[1]] = "none" /\ task[e[1]].st # "none"
  <2> SUFFICES ASSUME NEW e \in S PROVE redo[e[1]] = "none" /\ task[e[1]].st # "none"
    OBVIOUS
  <2>1. task[e[1]].attempt = e[2] /\ redo[e[1]] = "none" /\ e[2] \in Attempts /\ e[1] \in Tasks
    BY ExecutionPairs DEF IInv, Under
  <2>2. task[e[1]] # NoTask
    BY <2>1 DEF NoTask, Attempts
  <2>3. QED BY <2>1, <2>2 DEF IInv, Blank
<1>4. QED
  BY <1>1, <1>2, <1>3 DEF AbortNow

LEMMA DeadlineGood ==
  ASSUME IInv, NEW e \in Executions, Deadline(e)
  PROVE  IInv'
<1>1. {e} \in SUBSET Executions /\ \A f \in {e} : run[f] # "idle"
  BY DEF Deadline
<1>2. AbortNow({e})
  BY DEF Deadline
<1>3. /\ task' \in [Tasks -> Records] /\ aborted' \in SUBSET Executions
      /\ \A t \in Tasks : task'[t] = task[t] \/ (task'[t] = [task[t] EXCEPT !.st = "cancelling"] /\ redo[t] = "none" /\ task[t].st # "none")
  BY <1>1, <1>2, AbortTypes
<1>4. /\ disk' \in [Tasks -> Records] /\ diskCount' \in Counts /\ fails' \in 0..MaxFails
      /\ \A t \in Tasks : disk'[t] = disk[t] \/ disk'[t] = task'[t]
  <2>0. disk \in [Tasks -> Records] /\ diskCount \in Counts /\ fails \in 0..MaxFails
    BY DEF IInv, TypeOK
  <2>1. CASE e \in aborted
    BY <2>0, <2>1 DEF Deadline
  <2>2. CASE e \notin aborted
    <3>1. task'[e[1]] \in Records /\ e[1] \in Tasks
      BY <1>3, ExecutionPairs
    <3>2. Persist(e[1], task'[e[1]])
      BY <2>2 DEF Deadline
    <3>3. /\ disk' \in [Tasks -> Records] /\ diskCount' \in Counts /\ fails' \in 0..MaxFails
          /\ disk' = disk \/ disk' = [disk EXCEPT ![e[1]] = task'[e[1]]]
      BY <3>1, <3>2, PersistTypes
    <3>4. QED BY <2>0, <3>3
  <2>3. QED BY <2>1, <2>2
<1>5. TypeOK'
  <2>1. aborted' = aborted \cup {e} /\ timedOut' = timedOut \cup {e}
    BY <1>2 DEF AbortNow, Deadline
  <2>2. UNCHANGED <<count, run, outcome, redo, parent, launched, dirty, crashes>>
    BY DEF Deadline
  <2>3. QED BY <1>3, <1>4, <2>1, <2>2 DEF IInv, TypeOK
<1>6. UNCHANGED <<run, redo, dirty>>
  BY DEF Deadline
<1>7. QED
  BY <1>3, <1>4, <1>5, <1>6, CancellingGood

LEMMA ParentAbortGood ==
  ASSUME IInv, ParentAbort
  PROVE  IInv'
<1> DEFINE S == {e \in Executions : run[e] # "idle"}
<1>1. S \in SUBSET Executions /\ \A f \in S : run[f] # "idle"
  OBVIOUS
<1>2. AbortNow(S)
  BY DEF ParentAbort
<1>3. /\ task' \in [Tasks -> Records] /\ aborted' \in SUBSET Executions /\ aborted' = aborted \cup S
      /\ \A t \in Tasks : task'[t] = task[t] \/ (task'[t] = [task[t] EXCEPT !.st = "cancelling"] /\ redo[t] = "none" /\ task[t].st # "none")
  <2> HIDE DEF S
  <2>1. QED BY <1>1, <1>2, AbortTypes DEF AbortNow
<1>4. PICK lost \in SUBSET {t \in Tasks : task'[t] # task[t]} :
        /\ fails' = fails + Cardinality(lost) /\ fails' <= MaxFails
        /\ disk' = [t \in Tasks |-> IF task'[t] = task[t] \/ t \in lost THEN disk[t] ELSE task'[t]]
  BY DEF ParentAbort
<1>5. Cardinality(lost) \in Nat
  BY LifecycleAssumption, FS_Subset, FS_CardinalityType
<1>6. fails' \in 0..MaxFails
  BY <1>4, <1>5, LifecycleAssumption DEF IInv, TypeOK
<1>7. /\ disk' \in [Tasks -> Records]
      /\ \A t \in Tasks : disk'[t] = disk[t] \/ disk'[t] = task'[t]
  BY <1>3, <1>4 DEF IInv, TypeOK
<1>8. UNCHANGED <<count, diskCount, run, outcome, timedOut, redo, launched, dirty, crashes>> /\ parent' = TRUE
  BY DEF ParentAbort
<1>9. TypeOK'
  BY <1>3, <1>6, <1>7, <1>8 DEF IInv, TypeOK
<1>10. QED
  BY <1>3, <1>7, <1>8, <1>9, CancellingGood
LEMMA CancelGood ==
  ASSUME IInv, NEW t \in Tasks, Cancel(t)
  PROVE  IInv'
<1>1. /\ task \in [Tasks -> Records] /\ disk \in [Tasks -> Records]
      /\ task' = [task EXCEPT ![t].st = "cancelling"]
  BY DEF Cancel, IInv, TypeOK
<1>2. task'[t] = [task[t] EXCEPT !.st = "cancelling"] /\ task'[t] \in Records
  BY <1>1 DEF Records
<1>3. redo[t] = "none" /\ task[t].st # "none"
  <2>1. CASE task[t].st = "running"
    BY <2>1 DEF IInv, Redoable, Final
  <2>2. ASSUME NEW e \in Live(t) PROVE redo[t] = "none" /\ task[t].st # "none"
    <3>1. e \in Executions /\ e[1] = t /\ run[e] # "idle" /\ e[2] \in Attempts
      BY ExecutionPairs DEF Live
    <3>2. task[t].attempt = e[2] /\ redo[t] = "none"
      BY <3>1 DEF IInv, Under
    <3>3. task[t] # NoTask
      BY <3>1, <3>2 DEF NoTask, Attempts
    <3>4. QED BY <3>2, <3>3 DEF IInv, Blank
  <2>3. QED BY <2>1, <2>2 DEF Cancel
<1>4. /\ disk' \in [Tasks -> Records] /\ diskCount' \in Counts /\ fails' \in 0..MaxFails
      /\ \A u \in Tasks : disk'[u] = disk[u] \/ disk'[u] = task'[u]
  <2>1. Persist(t, task'[t])
    BY DEF Cancel
  <2>2. /\ disk' \in [Tasks -> Records] /\ diskCount' \in Counts /\ fails' \in 0..MaxFails
        /\ disk' = disk \/ disk' = [disk EXCEPT ![t] = task'[t]]
    BY <1>2, <2>1, PersistTypes
  <2>3. QED BY <1>1, <2>2
<1>5. task' \in [Tasks -> Records] /\ aborted' = aborted \cup Live(t) /\ Live(t) \subseteq Executions
  BY <1>1, <1>2 DEF Cancel, Live
<1>6. UNCHANGED <<count, run, outcome, timedOut, redo, parent, launched, dirty, crashes>>
  BY DEF Cancel
<1>7. TypeOK'
  BY <1>4, <1>5, <1>6 DEF IInv, TypeOK
<1>8. \A u \in Tasks : task'[u] = task[u] \/ (task'[u] = [task[u] EXCEPT !.st = "cancelling"] /\ redo[u] = "none" /\ task[u].st # "none")
  BY <1>1, <1>2, <1>3
<1>9. QED
  BY <1>4, <1>6, <1>7, <1>8, CancellingGood

(* delegate() of a task that has no attempt under way and left no changes.  *)
LEMMA EnqueueGood ==
  ASSUME IInv, NEW t \in Tasks, NEW a \in Attempts,
         Enqueue(t, a),
         \A e \in Executions : e[1] = t => run[e] = "idle" /\ e \notin dirty',
         dirty' \subseteq dirty,
         \A u \in Tasks : redo'[u] = IF u = t THEN "none" ELSE redo[u],
         redo' \in [Tasks -> {"none", "waiting", "asking"}],
         UNCHANGED <<count, outcome, aborted, timedOut, parent, launched, crashes>>
  PROVE  IInv'
<1>1. Queued(a) \in Records /\ Queued(a).attempt = a /\ ~Queued(a).settled /\ Queued(a).st # "none"
  <2>1. NoTask \in Records
    BY LifecycleAssumption DEF NoTask, Records
  <2>2. a \in 0..MaxAttemptsPerTask
    BY LifecycleAssumption DEF Attempts
  <2>3. Queued(a) \in Records /\ Queued(a).attempt = a /\ Queued(a).st = "queued" /\ Queued(a).settled = NoTask.settled
    BY <2>1, <2>2 DEF Queued, Records
  <2>4. ~NoTask.settled
    BY DEF NoTask
  <2>5. QED BY <2>3, <2>4
<1>2. Persist(t, Queued(a))
  BY DEF Enqueue, Persist
<1>3. /\ disk' \in [Tasks -> Records] /\ diskCount' \in Counts /\ fails' \in 0..MaxFails
      /\ disk' = disk \/ disk' = [disk EXCEPT ![t] = Queued(a)]
  BY <1>1, <1>2, PersistTypes
<1>4. task' = [task EXCEPT ![t] = Queued(a)]
  BY DEF Enqueue
<1>5. PICK s \in {"waiting", "failing"} : run' = [run EXCEPT ![<<t, a>>] = s]
  BY DEF Enqueue
<1>6. /\ task \in [Tasks -> Records] /\ disk \in [Tasks -> Records]
      /\ run \in [Executions -> {"idle", "waiting", "failing", "granted", "working", "returned"}]
  BY DEF IInv, TypeOK
<1>7. TypeOK'
  <2>1. task' \in [Tasks -> Records]
    BY <1>1, <1>4, <1>6
  <2>2. run' \in [Executions -> {"idle", "waiting", "failing", "granted", "working", "returned"}]
    BY <1>5, <1>6
  <2>3. QED BY <1>3, <2>1, <2>2 DEF IInv, TypeOK
<1>8. \A e \in Executions : Under(e)'
  <2> SUFFICES ASSUME NEW e \in Executions, run'[e] # "idle"
               PROVE  task'[e[1]].attempt = e[2] /\ ~task'[e[1]].settled /\ redo'[e[1]] = "none"
    BY DEF Under
  <2>1. CASE e = <<t, a>>
    BY <2>1, <1>1, <1>4, <1>6, ExecutionPairs
  <2>2. CASE e # <<t, a>>
    <3>1. run[e] # "idle"
      BY <1>5, <1>6, <2>2
    <3>2. e[1] # t /\ e[1] \in Tasks
      BY <3>1, ExecutionPairs
    <3>3. QED BY <1>4, <1>6, <3>1, <3>2 DEF IInv, Under
  <2>3. QED BY <2>1, <2>2
<1>9. \A e \in Executions : Traced(e)'
  <2> SUFFICES ASSUME NEW e \in Executions, e \in dirty'
               PROVE  Shows(task'[e[1]], e) /\ Shows(disk'[e[1]], e) /\ e[1] \notin ReadOnly
    BY DEF Traced
  <2>1. e[1] # t /\ e[1] \in Tasks
    BY ExecutionPairs
  <2>2. task'[e[1]] = task[e[1]] /\ disk'[e[1]] = disk[e[1]]
    BY <1>3, <1>4, <1>6, <2>1
  <2>3. QED BY <2>2 DEF IInv, Traced
<1>10. \A u \in Tasks : Blank(task[u])' /\ Blank(disk[u])' /\ Redoable(u)'
  BY <1>1, <1>3, <1>4, <1>6 DEF IInv, Blank, Redoable
<1>11. \A u \in Tasks : Alone(u)'
  BY <1>5, <1>6 DEF IInv, Alone
<1>12. QED
  BY <1>7, <1>8, <1>9, <1>10, <1>11 DEF IInv

LEMMA DelegateGood ==
  ASSUME IInv, NEW t \in Tasks, Delegate(t) \/ Redone(t)
  PROVE  IInv'
<1>0. /\ task \in [Tasks -> Records] /\ redo \in [Tasks -> {"none", "waiting", "asking"}]
      /\ dirty \subseteq Executions
  BY DEF IInv, TypeOK
<1>1. CASE Delegate(t)
  <2>1. task[t] = NoTask
    BY <1>1 DEF Delegate, IInv, Blank
  <2>2. task[t].attempt = 0 /\ ~task[t].started
    BY <2>1 DEF NoTask
  <2>3. \A e \in Executions : e[1] = t => run[e] = "idle" /\ e \notin dirty
    BY <2>2, ExecutionPairs DEF IInv, Under, Traced, Shows, Attempts
  <2>4. /\ Enqueue(t, 1)
        /\ UNCHANGED <<count, outcome, aborted, timedOut, redo, parent, launched, dirty, crashes>>
    BY <1>1 DEF Delegate
  <2>5. redo[t] = "none"
    BY <1>0, <1>1 DEF Delegate, IInv, Redoable, Final
  <2>6. 1 \in Attempts
    BY LifecycleAssumption DEF Attempts
  <2>7. QED BY <1>0, <2>3, <2>4, <2>5, <2>6, EnqueueGood
<1>2. CASE Redone(t)
  <2>1. /\ Enqueue(t, task[t].attempt + 1)
        /\ dirty' = {e \in dirty : e[1] # t} /\ redo' = [redo EXCEPT ![t] = "none"]
        /\ UNCHANGED <<count, outcome, aborted, timedOut, parent, launched, crashes>>
        /\ redo[t] # "none"
    BY <1>2 DEF Redone
  <2>2. task[t].attempt + 1 \in Attempts
    <3>1. task[t].attempt \in 0..MaxAttemptsPerTask
      BY <1>0 DEF Records
    <3>2. task[t].attempt < MaxAttemptsPerTask
      BY <2>1 DEF IInv, Redoable
    <3>3. QED BY <3>1, <3>2, LifecycleAssumption DEF Attempts
  <2>3. \A e \in Executions : e[1] = t => run[e] = "idle" /\ e \notin dirty'
    BY <2>1 DEF IInv, Under
  <2>4. redo' \in [Tasks -> {"none", "waiting", "asking"}] /\ \A u \in Tasks : redo'[u] = IF u = t THEN "none" ELSE redo[u]
    BY <1>0, <2>1
  <2>5. QED BY <2>1, <2>2, <2>3, <2>4, EnqueueGood
<1>3. QED BY <1>1, <1>2
LEMMA StartGood ==
  ASSUME IInv, NEW e \in Executions, Start(e)
  PROVE  IInv'
<1> DEFINE t == e[1]
           rec == [task[t] EXCEPT !.st = "running", !.started = TRUE]
<1>1. /\ task \in [Tasks -> Records] /\ disk \in [Tasks -> Records]
      /\ run \in [Executions -> {"idle", "waiting", "failing", "granted", "working", "returned"}]
      /\ t \in Tasks
  BY ExecutionPairs DEF IInv, TypeOK
<1>2. rec \in Records /\ rec.st = "running" /\ rec.started /\ rec.attempt = task[t].attempt
      /\ rec.settled = task[t].settled
  <2>1. task[t] \in Records
    BY <1>1
  <2>2. PICK old \in Records : old = task[t]
    BY <2>1
  <2>3. /\ [old EXCEPT !.st = "running", !.started = TRUE] \in Records
        /\ [old EXCEPT !.st = "running", !.started = TRUE].st = "running"
        /\ [old EXCEPT !.st = "running", !.started = TRUE].started
        /\ [old EXCEPT !.st = "running", !.started = TRUE].attempt = old.attempt
        /\ [old EXCEPT !.st = "running", !.started = TRUE].settled = old.settled
    BY DEF Records
  <2>4. QED BY <2>2, <2>3
<1>3. task' = [task EXCEPT ![t] = rec]
  BY <1>1 DEF Start
<1>4. run[e] = "granted" /\ run' = [run EXCEPT ![e] = "working"]
  BY DEF Start
<1>5. Persist(t, rec) /\ disk' = [disk EXCEPT ![t] = rec]
  BY <1>1, <1>3 DEF Start, Write, Persist
<1>6. disk' \in [Tasks -> Records] /\ diskCount' \in Counts /\ fails' \in 0..MaxFails
  <2> HIDE DEF rec, t
  <2>1. QED BY <1>1, <1>2, <1>5, PersistTypes
<1>7. /\ count' \in Counts /\ launched' \in [Tasks -> Nat]
      /\ dirty' \subseteq dirty \cup {e}
      /\ e \in dirty' => e \in dirty \/ t \notin ReadOnly
      /\ UNCHANGED <<outcome, aborted, timedOut, redo, parent, crashes>>
  <2>1. count' \in Counts
    BY DEF Start, Counts, IInv, TypeOK
  <2>2. launched' \in [Tasks -> Nat]
    BY <1>1 DEF Start, IInv, TypeOK
  <2>3. dirty' \subseteq dirty \cup {e} /\ (e \in dirty' => e \in dirty \/ t \notin ReadOnly)
    <3>1. dirty' = IF t \in ReadOnly THEN dirty ELSE dirty \cup {e}
      BY DEF Start
    <3>2. QED BY <3>1
  <2>4. UNCHANGED <<outcome, aborted, timedOut, redo, parent, crashes>>
    BY DEF Start
  <2>5. QED BY <2>1, <2>2, <2>3, <2>4
<1> HIDE DEF rec
<1>8. TypeOK'
  <2>1. task' \in [Tasks -> Records]
    BY <1>1, <1>2, <1>3
  <2>2. run' \in [Executions -> {"idle", "waiting", "failing", "granted", "working", "returned"}]
    BY <1>1, <1>4
  <2>3. QED BY <1>6, <1>7, <2>1, <2>2 DEF IInv, TypeOK
<1>9. task[t].attempt = e[2] /\ ~task[t].settled /\ redo[t] = "none"
  BY <1>4 DEF IInv, Under
<1>10. \A f \in Executions : Under(f)'
  <2>1. \A f \in Executions : run'[f] # "idle" => run[f] # "idle"
    BY <1>1, <1>4
  <2>2. \A u \in Tasks : task'[u].attempt = task[u].attempt /\ task'[u].settled = task[u].settled
    BY <1>1, <1>2, <1>3
  <2>3. QED BY <1>7, <2>1, <2>2, ExecutionPairs DEF IInv, Under
<1>11. \A f \in Executions : Traced(f)'
  <2> SUFFICES ASSUME NEW f \in Executions, f \in dirty'
               PROVE  Shows(task'[f[1]], f) /\ Shows(disk'[f[1]], f) /\ f[1] \notin ReadOnly
    BY DEF Traced
  <2>1. CASE f[1] = t
    <3>1. f = e
      <4>1. CASE f \in dirty
        <5>1. f[2] = task[t].attempt
          BY <2>1, <4>1 DEF IInv, Traced, Shows
        <5>2. QED BY <2>1, <5>1, <1>9, ExecutionPairs
      <4>2. CASE f \notin dirty
        BY <4>2, <1>7
      <4>3. QED BY <4>1, <4>2
    <3>2. task'[t] = rec /\ disk'[t] = rec
      BY <1>1, <1>3, <1>5
    <3>3. Shows(rec, e)
      BY <1>2, <1>9 DEF Shows
    <3>4. t \notin ReadOnly
      BY <3>1, <1>7 DEF IInv, Traced
    <3>5. QED BY <3>1, <3>2, <3>3, <3>4
  <2>2. CASE f[1] # t
    <3>1. f \in dirty /\ f[1] \in Tasks
      BY <1>7, <2>2, ExecutionPairs
    <3>2. task'[f[1]] = task[f[1]] /\ disk'[f[1]] = disk[f[1]]
      BY <1>1, <1>3, <1>5, <2>2, <3>1
    <3>3. QED BY <3>1, <3>2 DEF IInv, Traced
  <2>3. QED BY <2>1, <2>2
<1>12. \A u \in Tasks : Blank(task[u])' /\ Blank(disk[u])' /\ Redoable(u)'
  BY <1>1, <1>2, <1>3, <1>5, <1>7, <1>9 DEF IInv, Blank, Redoable
<1>13. \A u \in Tasks : Alone(u)'
  BY <1>1, <1>4, <1>7 DEF IInv, Alone
<1>14. QED
  BY <1>8, <1>10, <1>11, <1>12, <1>13 DEF IInv

SettledAs(v, st, look) == [v EXCEPT !.st = st, !.settled = TRUE, !.review = look]

LEMMA SettledRecord ==
  ASSUME NEW v \in Records, NEW st \in Final, NEW look \in BOOLEAN
  PROVE  /\ SettledAs(v, st, look) \in Records
         /\ SettledAs(v, st, look).st = st
         /\ SettledAs(v, st, look).attempt = v.attempt
         /\ SettledAs(v, st, look).started = v.started
         /\ look => SettledAs(v, st, look).review
         /\ [SettledAs(v, st, look) EXCEPT !.review = TRUE] \in Records
BY DEF Records, SettledAs

LEMMA SettleGood ==
  ASSUME IInv, NEW e \in Executions, Settle(e)
  PROVE  IInv'
<1> DEFINE t == e[1]
           st == Status(e)
           look == st # "done" /\ task[t].started /\ t \notin ReadOnly
           rec == [task[t] EXCEPT !.st = st, !.settled = TRUE, !.review = look]
<1>1. /\ task \in [Tasks -> Records] /\ disk \in [Tasks -> Records]
      /\ run \in [Executions -> {"idle", "waiting", "failing", "granted", "working", "returned"}]
      /\ t \in Tasks
  BY ExecutionPairs DEF IInv, TypeOK
<1>2. run[e] # "idle"
  BY DEF Settle, Ended
<1>3. task[t].attempt = e[2] /\ ~task[t].settled /\ redo[t] = "none"
  BY <1>2 DEF IInv, Under
<1>4. st \in Final
  <2>1. CASE e \in aborted
    BY <2>1 DEF Status, Final
  <2>2. CASE e \notin aborted /\ run[e] = "failing"
    BY <2>2 DEF Status, Final
  <2>3. CASE e \notin aborted /\ run[e] # "failing"
    <3>1. st = outcome[e] /\ outcome[e] \in {"none"} \cup Final
      BY <2>3 DEF Status, IInv, TypeOK
    <3>2. st # "none"
      <4>1. task[t].st # "none"
        <5>1. task[t] # NoTask
          BY <1>3, ExecutionPairs DEF NoTask, Attempts
        <5>2. QED BY <1>1, <5>1 DEF IInv, Blank
      <4>2. "none" \notin Moves(task[t].st)
        <5>1. CASE task[t].st = "queued"
          BY <5>1 DEF Moves
        <5>2. CASE task[t].st = "running"
          BY <5>2 DEF Moves, Final
        <5>3. CASE task[t].st = "cancelling"
          BY <5>3 DEF Moves
        <5>4. CASE task[t].st \notin {"queued", "running", "cancelling"}
          BY <4>1, <5>4 DEF Moves
        <5>5. QED BY <5>1, <5>2, <5>3, <5>4
      <4>3. st \in Moves(task[t].st)
        BY DEF Settle
      <4>4. QED BY <4>2, <4>3
    <3>3. QED BY <3>1, <3>2
  <2>4. QED BY <2>1, <2>2, <2>3
<1>a. look \in BOOLEAN
  OBVIOUS
<1> HIDE DEF look, st
<1>b. task[t] \in Records
  BY <1>1
<1>d. rec = SettledAs(task[t], st, look)
  BY DEF SettledAs
<1> HIDE DEF t, rec
<1>c. /\ rec \in Records /\ rec.st = st /\ rec.attempt = task[t].attempt /\ rec.started = task[t].started
      /\ look => rec.review
      /\ [rec EXCEPT !.review = TRUE] \in Records
  BY <1>4, <1>a, <1>b, <1>d, SettledRecord
<1>5. /\ rec \in Records /\ rec.st = st /\ rec.attempt = task[t].attempt /\ rec.started = task[t].started
      /\ [rec EXCEPT !.review = TRUE] \in Records
  BY <1>c
<1>6. st # "done" /\ task[t].started /\ t \notin ReadOnly => rec.review
  BY <1>c DEF look
<1> USE DEF t, rec
<1>7. PICK v \in {rec, [rec EXCEPT !.review = TRUE]} :
        task' = [task EXCEPT ![t] = v] /\ ((v = rec /\ Write(t, rec)) \/ WriteFails)
  BY DEF Settle, look, st
<1>8. /\ run' = [run EXCEPT ![e] = "idle"]
      /\ dirty' = IF st = "done" THEN dirty \ {e} ELSE dirty
      /\ outcome' = [outcome EXCEPT ![e] = "none"]
      /\ aborted' = aborted \ {e} /\ timedOut' = timedOut \ {e}
      /\ UNCHANGED <<count, redo, parent, launched, crashes>>
  BY DEF Settle, st
<1> HIDE DEF rec
<1>9. /\ v \in Records /\ v.st \in Final /\ v.attempt = e[2] /\ v.started = task[t].started
      /\ st # "done" /\ task[t].started /\ t \notin ReadOnly => v.review
  BY <1>3, <1>4, <1>5, <1>6 DEF Records
<1>10. Persist(t, rec)
  BY <1>7 DEF Persist
<1>11. /\ disk' \in [Tasks -> Records] /\ diskCount' \in Counts /\ fails' \in 0..MaxFails
       /\ disk' = disk \/ disk' = [disk EXCEPT ![t] = rec]
  <2> HIDE DEF t
  <2>1. QED BY <1>1, <1>5, <1>10, PersistTypes
<1>12. TypeOK'
  <2>1. task' \in [Tasks -> Records]
    BY <1>1, <1>7, <1>9
  <2>2. /\ run' \in [Executions -> {"idle", "waiting", "failing", "granted", "working", "returned"}]
        /\ outcome' \in [Executions -> {"none"} \cup Final]
    BY <1>1, <1>8 DEF IInv, TypeOK
  <2>3. dirty' \subseteq Executions /\ aborted' \subseteq Executions /\ timedOut' \subseteq aborted'
    BY <1>8 DEF IInv, TypeOK
  <2>4. QED BY <1>8, <1>11, <2>1, <2>2, <2>3 DEF IInv, TypeOK
<1>13. \A f \in Executions : Under(f)'
  <2> SUFFICES ASSUME NEW f \in Executions, run'[f] # "idle"
               PROVE  task'[f[1]].attempt = f[2] /\ ~task'[f[1]].settled /\ redo'[f[1]] = "none"
    BY DEF Under
  <2>1. f # e /\ run[f] # "idle"
    BY <1>1, <1>8
  <2>2. f[1] # t /\ f[1] \in Tasks
    BY <1>3, <2>1, ExecutionPairs DEF IInv, Under
  <2>3. task'[f[1]] = task[f[1]]
    BY <1>1, <1>7, <2>2
  <2>4. QED BY <1>8, <2>1, <2>3 DEF IInv, Under
<1>14. \A f \in Executions : Traced(f)'
  <2> SUFFICES ASSUME NEW f \in Executions, f \in dirty'
               PROVE  Shows(task'[f[1]], f) /\ Shows(disk'[f[1]], f) /\ f[1] \notin ReadOnly
    BY DEF Traced
  <2>0. f \in dirty /\ Traced(f)
    BY <1>8 DEF IInv
  <2>1. CASE f[1] = t
    <3>1. f = e
      BY <1>3, <2>0, <2>1, ExecutionPairs DEF Traced, Shows
    <3>2. st # "done" /\ task[t].started /\ t \notin ReadOnly
      BY <1>8, <2>0, <3>1 DEF Traced, Shows
    <3>3. v.review /\ rec.review
      BY <1>6, <1>9, <3>2
    <3>4. Shows(v, e) /\ Shows(rec, e) /\ Shows(disk[t], e)
      BY <1>3, <1>5, <1>9, <2>0, <3>1, <3>2, <3>3 DEF Shows, Traced
    <3>5. task'[t] = v /\ (disk'[t] = disk[t] \/ disk'[t] = rec)
      BY <1>1, <1>7, <1>11
    <3>6. QED BY <2>1, <3>1, <3>2, <3>4, <3>5
  <2>2. CASE f[1] # t
    <3>1. f[1] \in Tasks
      BY ExecutionPairs
    <3>2. task'[f[1]] = task[f[1]] /\ disk'[f[1]] = disk[f[1]]
      BY <1>1, <1>7, <1>11, <2>2, <3>1
    <3>3. QED BY <2>0, <3>2 DEF Traced
  <2>3. QED BY <2>1, <2>2
<1>15. \A u \in Tasks : Blank(task[u])' /\ Blank(disk[u])' /\ Redoable(u)'
  <2>1. v.st # "none" /\ rec.st # "none"
    BY <1>4, <1>5, <1>9 DEF Final
  <2>2. QED BY <1>1, <1>3, <1>7, <1>8, <1>11, <2>1 DEF IInv, Blank, Redoable
<1>16. \A u \in Tasks : Alone(u)'
  BY <1>1, <1>8 DEF IInv, Alone
<1>17. QED
  BY <1>12, <1>13, <1>14, <1>15, <1>16 DEF IInv

LEMMA CrashGood ==
  ASSUME IInv, CrashRestart
  PROVE  IInv'
<1>1. TypeOK'
  <2>1. crashes' \in 0..MaxCrashes
    BY LifecycleAssumption DEF CrashRestart, IInv, TypeOK
  <2>2. QED BY <2>1 DEF CrashRestart, Hydrate, IInv, TypeOK
<1>2. \A e \in Executions : Under(e)' /\ Traced(e)'
  BY DEF CrashRestart, Hydrate, IInv, Under, Traced
<1>3. \A t \in Tasks : Blank(task[t])' /\ Blank(disk[t])' /\ Redoable(t)' /\ Alone(t)'
  BY DEF CrashRestart, Hydrate, IInv, Blank, Redoable, Alone
<1>4. QED
  BY <1>1, <1>2, <1>3 DEF IInv

LEMMA NextGood == IInv /\ [Next]_vars => IInv'
<1> SUFFICES ASSUME IInv, [Next]_vars PROVE IInv'
  OBVIOUS
<1>1. ASSUME NEW t \in Tasks,
             Delegate(t) \/ Cancel(t) \/ AskRetry(t) \/ EnterRedo(t) \/ GiveUpRetry(t) \/ Redone(t)
      PROVE  IInv'
  BY <1>1, DelegateGood, CancelGood, RedoMovesGood
<1>2. ASSUME NEW e \in Executions,
             Enter(e) \/ Deadline(e) \/ Refuse(e) \/ Start(e) \/ Return(e) \/ Settle(e)
      PROVE  IInv'
  BY <1>2, EnterGood, DeadlineGood, LeaveGood, StartGood, SettleGood
<1>3. CASE ParentAbort
  BY <1>3, ParentAbortGood
<1>4. CASE CrashRestart
  BY <1>4, CrashGood
<1>5. CASE UNCHANGED vars
  BY <1>5 DEF vars, IInv, TypeOK, Under, Traced, Blank, Redoable, Alone
<1>6. QED
  BY <1>1, <1>2, <1>3, <1>4, <1>5 DEF Next, Step

LEMMA AlwaysGood == Spec => []IInv
<1>1. QED
  BY InitGood, NextGood, PTL DEF Spec

-----------------------------------------------------------------------------
(* The quotas.  The counts of the manager are those of the views, since the *)
(* view of an attempt is written before its agent is started and shows that *)
(* it has started for as long as its record does.                           *)

Begun(v) == v.started \/ v.attempt > 1

Registered(t) ==
  /\ task[t].started => disk[t].started /\ disk[t].attempt = task[t].attempt
  /\ redo[t] # "none" => task[t].started
  /\ Begun(task[t]) \/ Begun(disk[t]) => launched[t] > 0

(* The view of an attempt that waits is the one its registration wrote.     *)
Fresh(e) ==
  run[e] \in {"waiting", "granted"} =>
    ~task[e[1]].started /\ ~disk[e[1]].started /\ disk[e[1]].attempt = e[2]

Started == {t \in Tasks : launched[t] > 0}

Counting ==
  /\ count = diskCount
  /\ IsFiniteSet(Launches)
  /\ Cardinality(Launches) = count.attempts /\ count.attempts <= MaxAttemptsPerRun
  /\ Cardinality(Started) <= count.tasks /\ count.tasks <= MaxTasksPerRun

Quota ==
  /\ Counting
  /\ \A t \in Tasks : Registered(t)
  /\ \A e \in Executions : Fresh(e)

Same(v, w) == v.started = w.started /\ v.attempt = w.attempt

(* A view that shows no start that it did not show before counts nothing.   *)
LEMMA CountsStay ==
  ASSUME IInv, NEW t \in Tasks, NEW rec,
         rec.started => disk[t].started /\ disk[t].attempt = rec.attempt,
         Persist(t, rec)
  PROVE  /\ diskCount' = diskCount
         /\ disk' = disk \/ disk' = [disk EXCEPT ![t] = rec]
<1>1. diskCount = [tasks |-> diskCount.tasks + 0, attempts |-> diskCount.attempts + 0]
  BY DEF IInv, TypeOK, Counts
<1>2. Counted(t, rec) = [tasks |-> diskCount.tasks + 0, attempts |-> diskCount.attempts + 0]
  BY DEF Counted
<1> QED
  BY <1>1, <1>2 DEF Persist, Write, WriteFails

LEMMA InitQuota == Init => Quota
<1> SUFFICES ASSUME Init PROVE Quota
  OBVIOUS
<1>1. Launches = {} /\ Started = {}
  BY DEF Init, Launches, Started
<1>2. Counting
  BY <1>1, FS_EmptySet, LifecycleAssumption DEF Init, Counting
<1>3. \A t \in Tasks : Registered(t)
  BY DEF Init, Registered, Begun, NoTask
<1>4. \A e \in Executions : Fresh(e)
  BY DEF Init, Fresh
<1> QED
  BY <1>2, <1>3, <1>4 DEF Quota

(* A step that starts nothing, puts nothing into a queue, and gives a task  *)
(* neither another attempt nor a view that says that it started.            *)
LEMMA QuietQuota ==
  ASSUME IInv, Quota,
         UNCHANGED <<count, diskCount, launched>>,
         \A t \in Tasks : Same(task'[t], task[t]),
         \A t \in Tasks : Same(disk'[t], disk[t]) \/ Same(disk'[t], task[t]),
         \A t \in Tasks : redo'[t] # "none" => redo[t] # "none" \/ task[t].started,
         \A e \in Executions : run'[e] \in {"waiting", "granted"} =>
                                 run[e] \in {"waiting", "granted"}
  PROVE  Quota'
<1>1. Counting'
  BY DEF Quota, Counting, Launches, Started
<1>2. \A t \in Tasks : Registered(t)'
  BY DEF Quota, Registered, Begun, Same
<1>3. ASSUME NEW e \in Executions PROVE Fresh(e)'
  <2> SUFFICES ASSUME run'[e] \in {"waiting", "granted"} PROVE Fresh(e)'
    BY DEF Fresh
  <2>1. /\ e[1] \in Tasks /\ task[e[1]].attempt = e[2]
        /\ ~task[e[1]].started /\ ~disk[e[1]].started /\ disk[e[1]].attempt = e[2]
    BY ExecutionPairs DEF IInv, Under, Quota, Fresh
  <2> QED
    BY <2>1 DEF Fresh, Same
<1> QED
  BY <1>1, <1>2, <1>3 DEF Quota

LEMMA MoveQuota ==
  ASSUME IInv, Quota, NEW e \in Executions, Enter(e) \/ Refuse(e) \/ Return(e)
  PROVE  Quota'
<1>1. UNCHANGED <<task, disk, count, diskCount, redo, launched>>
  BY DEF Enter, Refuse, Return
<1>2. \A f \in Executions : run'[f] \in {"waiting", "granted"} =>
                              run[f] \in {"waiting", "granted"}
  BY DEF Enter, Refuse, Return, IInv, TypeOK
<1> QED
  BY <1>1, <1>2, QuietQuota DEF Same

LEMMA RedoQuota ==
  ASSUME IInv, Quota, NEW t \in Tasks, AskRetry(t) \/ EnterRedo(t) \/ GiveUpRetry(t)
  PROVE  Quota'
<1>1. UNCHANGED <<task, disk, count, diskCount, run, launched>>
  BY DEF AskRetry, EnterRedo, GiveUpRetry
<1>2. \A u \in Tasks : redo'[u] # "none" => redo[u] # "none" \/ task[u].started
  BY DEF AskRetry, Retryable, EnterRedo, GiveUpRetry, IInv, TypeOK
<1> QED
  BY <1>1, <1>2, QuietQuota DEF Same

(* Cancelling changes neither the attempt of a task nor whether it started. *)
LEMMA CancellingIsSame ==
  ASSUME IInv, NEW t \in Tasks
  PROVE  Same([task[t] EXCEPT !.st = "cancelling"], task[t]) /\ Same(task[t], task[t])
BY DEF IInv, TypeOK, Records, Same

LEMMA AbortIsSame ==
  ASSUME IInv, NEW S, AbortNow(S)
  PROVE  \A t \in Tasks : Same(task'[t], task[t])
BY CancellingIsSame DEF AbortNow

LEMMA DeadlineQuota ==
  ASSUME IInv, Quota, NEW e \in Executions, Deadline(e)
  PROVE  Quota'
<1>1. /\ AbortNow({e}) /\ e[1] \in Tasks
      /\ UNCHANGED <<count, run, redo, launched>>
  BY ExecutionPairs DEF Deadline
<1>2. \A t \in Tasks : Same(task'[t], task[t])
  BY <1>1, AbortIsSame
<1>3. /\ diskCount' = diskCount
      /\ disk' = disk \/ disk' = [disk EXCEPT ![e[1]] = task'[e[1]]]
  <2>1. CASE e \in aborted
    BY <2>1 DEF Deadline
  <2>2. CASE e \notin aborted
    <3>1. Persist(e[1], task'[e[1]])
      BY <2>2 DEF Deadline
    <3>2. task'[e[1]].started =>
            disk[e[1]].started /\ disk[e[1]].attempt = task'[e[1]].attempt
      BY <1>1, <1>2 DEF Same, Quota, Registered
    <3> QED
      BY <1>1, <3>1, <3>2, CountsStay
  <2> QED
    BY <2>1, <2>2
<1>4. \A t \in Tasks : Same(disk'[t], disk[t]) \/ Same(disk'[t], task[t])
  BY <1>2, <1>3 DEF IInv, TypeOK, Same
<1> QED
  BY <1>1, <1>2, <1>3, <1>4, QuietQuota

LEMMA ParentAbortQuota ==
  ASSUME IInv, Quota, ParentAbort
  PROVE  Quota'
<1>1. \A t \in Tasks : Same(task'[t], task[t])
  BY AbortIsSame DEF ParentAbort
<1>2. /\ UNCHANGED <<count, diskCount, run, redo, launched>>
      /\ \A t \in Tasks : disk'[t] = disk[t] \/ disk'[t] = task'[t]
  BY DEF ParentAbort
<1> QED
  BY <1>1, <1>2, QuietQuota DEF Same

LEMMA CancelQuota ==
  ASSUME IInv, Quota, NEW t \in Tasks, Cancel(t)
  PROVE  Quota'
<1>1. /\ task' = [task EXCEPT ![t] = [task[t] EXCEPT !.st = "cancelling"]]
      /\ Persist(t, task'[t])
      /\ UNCHANGED <<count, run, redo, launched>>
  BY DEF Cancel
<1>2. \A u \in Tasks : Same(task'[u], task[u])
  BY <1>1, CancellingIsSame DEF IInv, TypeOK
<1>3. task'[t].started => disk[t].started /\ disk[t].attempt = task'[t].attempt
  BY <1>2 DEF Same, Quota, Registered
<1>4. /\ diskCount' = diskCount
      /\ disk' = disk \/ disk' = [disk EXCEPT ![t] = task'[t]]
  BY <1>1, <1>3, CountsStay
<1>5. \A u \in Tasks : Same(disk'[u], disk[u]) \/ Same(disk'[u], task[u])
  BY <1>2, <1>4 DEF IInv, TypeOK, Same
<1> QED
  BY <1>1, <1>2, <1>4, <1>5, QuietQuota
LEMMA SettleQuota ==
  ASSUME IInv, Quota, NEW e \in Executions, Settle(e)
  PROVE  Quota'
<1> DEFINE t == e[1]
           rec == [task[t] EXCEPT !.st = Status(e), !.settled = TRUE,
                     !.review = (Status(e) # "done" /\ task[t].started /\ t \notin ReadOnly)]
           low == [rec EXCEPT !.review = TRUE]
<1>1. /\ t \in Tasks /\ task[t] \in Records
      /\ run' = [run EXCEPT ![e] = "idle"]
      /\ UNCHANGED <<count, redo, launched>>
  BY ExecutionPairs DEF Settle, IInv, TypeOK
<1>2. Same(rec, task[t]) /\ Same(low, task[t])
  BY <1>1 DEF Records, Same
<1>3. /\ task' = [task EXCEPT ![t] = rec] \/ task' = [task EXCEPT ![t] = low]
      /\ Persist(t, rec)
  BY DEF Settle, Persist
<1> HIDE DEF rec, low
<1>4. rec.started => disk[t].started /\ disk[t].attempt = rec.attempt
  BY <1>1, <1>2 DEF Same, Quota, Registered
<1>5. /\ diskCount' = diskCount
      /\ disk' = disk \/ disk' = [disk EXCEPT ![t] = rec]
  BY <1>1, <1>3, <1>4, CountsStay
<1>6. \A u \in Tasks : Same(task'[u], task[u])
  BY <1>1, <1>2, <1>3 DEF IInv, TypeOK, Same
<1>7. \A u \in Tasks : Same(disk'[u], disk[u]) \/ Same(disk'[u], task[u])
  BY <1>1, <1>2, <1>5 DEF IInv, TypeOK, Same
<1>8. \A f \in Executions : run'[f] \in {"waiting", "granted"} =>
                              run[f] \in {"waiting", "granted"}
  BY <1>1 DEF IInv, TypeOK
<1> QED
  BY <1>1, <1>5, <1>6, <1>7, <1>8, QuietQuota

LEMMA EnqueueQuota ==
  ASSUME IInv, Quota, NEW t \in Tasks, NEW a \in Attempts,
         Enqueue(t, a), a > 1 => launched[t] > 0,
         \A e \in Executions : e[1] = t => run[e] = "idle",
         \A u \in Tasks : redo'[u] = IF u = t THEN "none" ELSE redo[u],
         UNCHANGED <<count, launched>>
  PROVE  Quota'
<1>1. Queued(a).attempt = a /\ ~Queued(a).started
  BY DEF Queued, NoTask
<1>2. Persist(t, Queued(a)) /\ task' = [task EXCEPT ![t] = Queued(a)]
  BY DEF Enqueue, Persist
<1>3. /\ diskCount' = diskCount
      /\ disk' = disk \/ disk' = [disk EXCEPT ![t] = Queued(a)]
  BY <1>1, <1>2, CountsStay
<1>4. Counting'
  BY <1>3 DEF Quota, Counting, Launches, Started
<1>5. ASSUME NEW u \in Tasks PROVE Registered(u)'
  <2>1. CASE u = t
    <3>1. task'[t] = Queued(a) /\ disk'[t] \in {disk[t], Queued(a)} /\ redo'[t] = "none"
      BY <1>2, <1>3 DEF IInv, TypeOK
    <3> QED
      BY <1>1, <2>1, <3>1 DEF Quota, Registered, Begun
  <2>2. CASE u # t
    <3>1. task'[u] = task[u] /\ disk'[u] = disk[u] /\ redo'[u] = redo[u]
      BY <1>2, <1>3, <2>2 DEF IInv, TypeOK
    <3> QED
      BY <3>1 DEF Quota, Registered
  <2> QED
    BY <2>1, <2>2
<1>6. ASSUME NEW e \in Executions, run'[e] \in {"waiting", "granted"}
      PROVE  ~task'[e[1]].started /\ ~disk'[e[1]].started /\ disk'[e[1]].attempt = e[2]
  <2>1. CASE e = <<t, a>>
    <3>1. run'[e] = "waiting" => disk' = [disk EXCEPT ![t] = Queued(a)]
      BY <2>1 DEF Enqueue, Write, IInv, TypeOK
    <3>2. run'[e] \in {"waiting", "failing"}
      BY <2>1 DEF Enqueue, IInv, TypeOK
    <3>3. task'[t] = Queued(a) /\ disk'[t] = Queued(a) /\ e[1] = t /\ e[2] = a
      BY <1>2, <1>6, <2>1, <3>1, <3>2, ExecutionPairs DEF IInv, TypeOK
    <3> QED
      BY <1>1, <3>3
  <2>2. CASE e # <<t, a>>
    <3>1. run'[e] = run[e]
      BY <2>2 DEF Enqueue, IInv, TypeOK
    <3>2. e[1] # t /\ e[1] \in Tasks
      BY <1>6, <3>1, ExecutionPairs
    <3>3. task'[e[1]] = task[e[1]] /\ disk'[e[1]] = disk[e[1]]
      BY <1>2, <1>3, <3>2 DEF IInv, TypeOK
    <3> QED
      BY <1>6, <3>1, <3>3 DEF Quota, Fresh
  <2> QED
    BY <2>1, <2>2
<1> QED
  BY <1>4, <1>5, <1>6 DEF Quota, Fresh

LEMMA DelegateQuota ==
  ASSUME IInv, Quota, NEW t \in Tasks, Delegate(t) \/ Redone(t)
  PROVE  Quota'
<1>0. task \in [Tasks -> Records] /\ redo \in [Tasks -> {"none", "waiting", "asking"}]
  BY DEF IInv, TypeOK
<1>1. CASE Delegate(t)
  <2>1. task[t].attempt = 0
    BY <1>1 DEF Delegate, IInv, Blank, NoTask
  <2>2. \A e \in Executions : e[1] = t => run[e] = "idle"
    BY <2>1, ExecutionPairs DEF IInv, Under, Attempts
  <2>3. Enqueue(t, 1) /\ UNCHANGED <<count, redo, launched>>
    BY <1>1 DEF Delegate
  <2>4. redo[t] = "none"
    BY <1>0, <1>1 DEF Delegate, IInv, Redoable, Final
  <2>5. 1 \in Attempts
    BY LifecycleAssumption DEF Attempts
  <2> QED
    BY <2>2, <2>3, <2>4, <2>5, EnqueueQuota
<1>2. CASE Redone(t)
  <2>1. /\ Enqueue(t, task[t].attempt + 1) /\ redo[t] # "none"
        /\ redo' = [redo EXCEPT ![t] = "none"]
        /\ UNCHANGED <<count, launched>>
    BY <1>2 DEF Redone
  <2>2. task[t].attempt + 1 \in Attempts
    <3>1. task[t].attempt \in 0..MaxAttemptsPerTask
      BY <1>0 DEF Records
    <3>2. task[t].attempt < MaxAttemptsPerTask
      BY <2>1 DEF IInv, Redoable
    <3> QED
      BY <3>1, <3>2, LifecycleAssumption DEF Attempts
  <2>3. \A e \in Executions : e[1] = t => run[e] = "idle"
    BY <2>1 DEF IInv, Under
  <2>4. launched[t] > 0
    BY <2>1 DEF Quota, Registered, Begun
  <2>5. \A u \in Tasks : redo'[u] = IF u = t THEN "none" ELSE redo[u]
    BY <1>0, <2>1
  <2> QED
    BY <2>1, <2>2, <2>3, <2>4, <2>5, EnqueueQuota
<1> QED
  BY <1>1, <1>2

(* One more agent for t is one more launch.                                 *)
LEMMA LaunchCounts ==
  ASSUME NEW t \in Tasks, launched \in [Tasks -> Nat],
         launched' = [launched EXCEPT ![t] = @ + 1],
         IsFiniteSet(Launches)
  PROVE  /\ IsFiniteSet(Launches') /\ Cardinality(Launches') = Cardinality(Launches) + 1
         /\ launched[t] > 0 => Started' = Started
         /\ Cardinality(Started') <= Cardinality(Started) + 1
         /\ Cardinality(Started') \in Nat /\ Cardinality(Started) \in Nat
<1> DEFINE new == <<t, launched[t] + 1>>
<1>1. launched'[t] = launched[t] + 1 /\ \A u \in Tasks \ {t} : launched'[u] = launched[u]
  OBVIOUS
<1>2. \A u, n : <<u, n>> \in Launches <=> u \in Tasks /\ n \in 1..launched[u]
  BY DEF Launches
<1>3. \A u, n : <<u, n>> \in Launches' <=> u \in Tasks /\ n \in 1..launched'[u]
  BY DEF Launches
<1>4. /\ \A x \in Launches : x = <<x[1], x[2]>>
      /\ \A x \in Launches' : x = <<x[1], x[2]>>
  BY DEF Launches
<1>5. \A u \in Tasks : \A n : n \in 1..launched'[u] <=> n \in 1..launched[u] \/ <<u, n>> = new
  <2> SUFFICES ASSUME NEW u \in Tasks, NEW n
               PROVE  n \in 1..launched'[u] <=> n \in 1..launched[u] \/ <<u, n>> = new
    OBVIOUS
  <2>1. CASE u = t
    <3>1. launched[t] \in Nat
      OBVIOUS
    <3>2. 1..(launched[t] + 1) = (1..launched[t]) \cup {launched[t] + 1}
      BY <3>1
    <3> QED
      BY <1>1, <2>1, <3>2
  <2>2. CASE u # t
    BY <1>1, <2>2
  <2> QED
    BY <2>1, <2>2
<1>6. new \notin Launches
  BY <1>2
<1>7. Launches' = Launches \cup {new}
  <2>1. \A u, n : <<u, n>> \in Launches' <=> <<u, n>> \in Launches \cup {new}
    BY <1>2, <1>3, <1>5
  <2>2. \A x \in Launches \cup {new} : x = <<x[1], x[2]>>
    BY <1>4
  <2> HIDE DEF new
  <2> QED
    BY <1>4, <2>1, <2>2
<1>8. IsFiniteSet(Launches') /\ Cardinality(Launches') = Cardinality(Launches) + 1
  BY <1>6, <1>7, FS_AddElement
<1>9. Started \in SUBSET Tasks /\ Started' = Started \cup {t}
  BY <1>1 DEF Started
<1>10. IsFiniteSet(Started)
  BY <1>9, LifecycleAssumption, FS_Subset
<1>11. Cardinality(Started) \in Nat /\ IsFiniteSet(Started \cup {t})
  BY <1>10, FS_CardinalityType, FS_AddElement
<1>12. Cardinality(Started') \in Nat
  BY <1>9, <1>11, FS_CardinalityType
<1>13. Cardinality(Started') <= Cardinality(Started) + 1
  BY <1>9, <1>10, <1>11, FS_AddElement
<1>14. launched[t] > 0 => Started' = Started
  BY <1>9 DEF Started
<1> QED
  BY <1>8, <1>11, <1>12, <1>13, <1>14

LEMMA StartQuota ==
  ASSUME IInv, Quota, NEW e \in Executions, Start(e)
  PROVE  Quota'
<1> DEFINE t == e[1]
           rec == [task[t] EXCEPT !.st = "running", !.started = TRUE]
           one == IF e[2] = 1 THEN 1 ELSE 0
<1>1. /\ task \in [Tasks -> Records] /\ disk \in [Tasks -> Records]
      /\ run \in [Executions -> {"idle", "waiting", "failing", "granted", "working", "returned"}]
      /\ launched \in [Tasks -> Nat] /\ count \in Counts /\ diskCount \in Counts
      /\ t \in Tasks /\ e[2] \in Attempts
  BY ExecutionPairs DEF IInv, TypeOK
<1>2. /\ run[e] = "granted" /\ run' = [run EXCEPT ![e] = "working"] /\ QuotaLeft(e)
      /\ disk' = [disk EXCEPT ![t] = task'[t]] /\ diskCount' = Counted(t, task'[t])
      /\ count' = [tasks |-> count.tasks + one, attempts |-> count.attempts + 1]
      /\ launched' = [launched EXCEPT ![t] = @ + 1] /\ redo' = redo
  BY DEF Start, Write
<1>3. /\ task[t].attempt = e[2] /\ ~task[t].started /\ redo[t] = "none"
      /\ ~disk[t].started /\ disk[t].attempt = e[2]
  BY <1>2 DEF IInv, Under, Quota, Fresh
<1>4. task' = [task EXCEPT ![t] = rec]
  BY <1>1 DEF Start
<1>5. rec.started /\ rec.attempt = e[2]
  BY <1>1, <1>3 DEF Records
<1> HIDE DEF rec
<1>6. task'[t] = rec /\ disk'[t] = rec /\ launched'[t] > 0
  BY <1>1, <1>2, <1>4
<1>7. \A u \in Tasks \ {t} : /\ task'[u] = task[u] /\ disk'[u] = disk[u]
                             /\ launched'[u] = launched[u]
  BY <1>1, <1>2, <1>4
<1>8. ASSUME NEW u \in Tasks PROVE Registered(u)'
  <2>1. CASE u = t
    BY <1>2, <1>3, <1>5, <1>6, <2>1 DEF Registered
  <2>2. CASE u # t
    BY <1>2, <1>7, <2>2 DEF Quota, Registered
  <2> QED
    BY <2>1, <2>2
<1>9. ASSUME NEW f \in Executions, run'[f] \in {"waiting", "granted"}
      PROVE  ~task'[f[1]].started /\ ~disk'[f[1]].started /\ disk'[f[1]].attempt = f[2]
  <2>1. f # e /\ run[f] \in {"waiting", "granted"}
    BY <1>1, <1>2, <1>9
  <2>2. f[1] # t /\ f[1] \in Tasks
    BY <1>3, <2>1, ExecutionPairs DEF IInv, Under
  <2> QED
    BY <1>7, <2>1, <2>2 DEF Quota, Fresh
<1>10. count' = diskCount'
  <2>1. e[2] <= 1 <=> e[2] = 1
    BY <1>1, LifecycleAssumption DEF Attempts
  <2>2. Counted(t, rec) = [tasks |-> diskCount.tasks + one, attempts |-> diskCount.attempts + 1]
    BY <1>3, <1>5, <2>1 DEF Counted
  <2>3. count = diskCount
    BY DEF Quota, Counting
  <2> QED
    BY <1>2, <1>6, <2>2, <2>3
<1>11. /\ IsFiniteSet(Launches') /\ Cardinality(Launches') = Cardinality(Launches) + 1
       /\ launched[t] > 0 => Started' = Started
       /\ Cardinality(Started') <= Cardinality(Started) + 1
       /\ Cardinality(Started') \in Nat /\ Cardinality(Started) \in Nat
  BY <1>1, <1>2, LaunchCounts DEF Quota, Counting
<1>12. /\ count'.attempts = count.attempts + 1 /\ count'.tasks = count.tasks + one
       /\ count.attempts \in Nat /\ count.tasks \in Nat
       /\ Cardinality(Launches) = count.attempts /\ Cardinality(Started) <= count.tasks
       /\ count.attempts < MaxAttemptsPerRun /\ count.tasks <= MaxTasksPerRun
       /\ e[2] = 1 => count.tasks < MaxTasksPerRun
  BY <1>1, <1>2 DEF Counts, Quota, Counting, QuotaLeft
<1>13. Cardinality(Started') <= count'.tasks /\ count'.tasks <= MaxTasksPerRun
  <2>1. CASE e[2] = 1
    BY <1>11, <1>12, <2>1, LifecycleAssumption
  <2>2. CASE e[2] # 1
    <3>1. e[2] > 1
      BY <1>1, <2>2, LifecycleAssumption DEF Attempts
    <3>2. launched[t] > 0
      BY <1>1, <1>3, <3>1 DEF Quota, Registered, Begun
    <3> QED
      BY <1>11, <1>12, <2>2, <3>2, LifecycleAssumption
  <2> QED
    BY <2>1, <2>2
<1>14. Cardinality(Launches') = count'.attempts /\ count'.attempts <= MaxAttemptsPerRun
  BY <1>11, <1>12, LifecycleAssumption
<1> QED
  BY <1>8, <1>9, <1>10, <1>11, <1>13, <1>14 DEF Quota, Counting, Fresh

LEMMA CrashQuota == IInv /\ Quota /\ CrashRestart => Quota'
<1> SUFFICES ASSUME Quota, CrashRestart PROVE Quota'
  OBVIOUS
<1>1. /\ task' = disk /\ disk' = disk /\ count' = diskCount /\ diskCount' = diskCount
      /\ launched' = launched
      /\ \A e \in Executions : run'[e] = "idle"
      /\ \A t \in Tasks : redo'[t] = "none"
  BY DEF CrashRestart, Hydrate
<1>2. Counting'
  BY <1>1 DEF Quota, Counting, Launches, Started
<1>3. \A t \in Tasks : Registered(t)'
  BY <1>1 DEF Quota, Registered
<1>4. \A e \in Executions : Fresh(e)'
  BY <1>1 DEF Fresh
<1> QED
  BY <1>2, <1>3, <1>4 DEF Quota

LEMMA NextQuota == IInv /\ Quota /\ [Next]_vars => Quota'
<1> SUFFICES ASSUME IInv, Quota, [Next]_vars PROVE Quota'
  OBVIOUS
<1>1. ASSUME NEW t \in Tasks,
             Delegate(t) \/ Cancel(t) \/ AskRetry(t) \/ EnterRedo(t) \/ GiveUpRetry(t) \/ Redone(t)
      PROVE  Quota'
  BY <1>1, DelegateQuota, CancelQuota, RedoQuota
<1>2. ASSUME NEW e \in Executions,
             Enter(e) \/ Deadline(e) \/ Refuse(e) \/ Start(e) \/ Return(e) \/ Settle(e)
      PROVE  Quota'
  BY <1>2, MoveQuota, DeadlineQuota, StartQuota, SettleQuota
<1>3. CASE ParentAbort
  BY <1>3, ParentAbortQuota
<1>4. CASE CrashRestart
  BY <1>4, CrashQuota
<1>5. CASE UNCHANGED vars
  BY <1>5, QuietQuota DEF vars, Same
<1> QED
  BY <1>1, <1>2, <1>3, <1>4, <1>5 DEF Next, Step

-----------------------------------------------------------------------------
(* A task has one attempt under way at most, the one its record shows, and  *)
(* no retry of it has been asked for meanwhile: delegate(), retry() and     *)
(* cancel_subagent_task never meet over an attempt that is not settled.     *)
THEOREM AlwaysAccounted == Spec => []TasksAccounted
<1>1. IInv => TasksAccounted
  <2> SUFFICES ASSUME IInv PROVE TasksAccounted
    OBVIOUS
  <2>1. ASSUME NEW t \in Tasks, NEW e \in Live(t)
        PROVE  /\ Live(t) = {e} /\ task[t].attempt = e[2] /\ ~task[t].settled
               /\ redo[t] = "none"
    <3>1. \A f \in Live(t) : f \in Executions /\ f[1] = t /\ task[t].attempt = f[2] /\ ~task[t].settled /\ redo[t] = "none"
      BY DEF Live, IInv, Under
    <3>2. \A f \in Live(t) : f = e
      BY <3>1, ExecutionPairs
    <3>3. QED BY <3>1, <3>2
  <2>2. OneExecution
    BY <2>1 DEF OneExecution
  <2>3. QED BY <2>2 DEF TasksAccounted, IInv
<1>2. QED BY <1>1, AlwaysGood, PTL

(* What an attempt left in the workspace, neither accepted nor undone, can  *)
(* be found in the views after a crash at any moment (subagents.cjs:1823).  *)
THEOREM ChangesAlwaysTraced == Spec => []ChangesAreTraced
<1>1. IInv => ChangesAreTraced
  BY DEF IInv, TypeOK, Traced, Shows, ChangesAreTraced
<1>2. QED BY <1>1, AlwaysGood, PTL

(* retry() puts files back while no agent of the run is at work: the slot   *)
(* it takes is exclusive.                                                   *)
THEOREM FilesUndoneAlone == Spec => UndoneAlone
<1>1. IInv => \A t \in Tasks : redo[t] = "asking" /\ Live(t)' # {} => \A e \in Executions : run[e] # "working"
  BY DEF IInv, Alone
<1>2. QED BY <1>1, AlwaysGood, PTL DEF UndoneAlone

(* However attempts are batched, refused, redone and interrupted by a       *)
(* crash, a run starts no more tasks and no more agents than its limits:    *)
(* the counts a new process reads from the views are those of the old one.  *)
THEOREM QuotaAlwaysKept == Spec => []QuotaKept
<1>1. IInv /\ Quota => QuotaKept
  <2> SUFFICES ASSUME IInv, Quota PROVE QuotaKept
    OBVIOUS
  <2>1. /\ Cardinality(Started) <= count.tasks /\ count.tasks <= MaxTasksPerRun
        /\ Cardinality(Launches) <= MaxAttemptsPerRun
    BY DEF Quota, Counting
  <2>2. count.tasks \in Nat
    BY DEF IInv, TypeOK, Counts
  <2>3. Cardinality(Started) \in Nat
    BY LifecycleAssumption, FS_Subset, FS_CardinalityType DEF Started
  <2>4. Cardinality(Started) <= MaxTasksPerRun
    BY <2>1, <2>2, <2>3, LifecycleAssumption
  <2> QED
    BY <2>1, <2>4 DEF QuotaKept, Started
<1>2. Init => IInv /\ Quota
  BY InitGood, InitQuota
<1>3. IInv /\ Quota /\ [Next]_vars => IInv' /\ Quota'
  BY NextGood, NextQuota
<1> QED
  BY <1>1, <1>2, <1>3, PTL DEF Spec

-----------------------------------------------------------------------------
(***************************************************************************)
(* Reviews.  RInv is inductive: types and calls (Typed, CallFits), what a  *)
(* record says by itself and beside the one in memory (RecsOk), the views  *)
(* and the order of the writes to come (ViewsFit), and merges (MergesFit). *)
(***************************************************************************)

LEMMA LeastNat ==
  ASSUME NEW S \in SUBSET Nat, S # {}
  PROVE  \E x \in S : \A y \in S : x <= y
<1>1. PICK x \in S : \A y \in S : ~(<<y, x>> \in OpToRel(<, Nat))
  BY NatLessThanWellFounded, WFMin, Zenon
<1>2. \A y \in S : ~(y < x)
  BY <1>1 DEF OpToRel
<1>3. QED BY <1>2

-----------------------------------------------------------------------------
(* A review was answered after its time limit.                              *)
Late == "late" \in lapses

Active(h) == call[h].step # "idle"

MergeCalls ==
  [task : Ids, step : {"asking", "checking", "merging", "merged"},
   attempt : 1..MaxAttempts, head : Nat, prev : [st : {"none", "pending", "candidate", "needs_recheck"},
                                                 by : 0..N, merged : BOOLEAN]]

Typed == ReviewTypeOK /\ call \in [Reviews -> MergeCalls \cup {NoCall}]

(* A call is of an attempt that is over; the one the parent waits for is of *)
(* the last attempt, which nobody retracts meanwhile.                       *)
CallFits(h) ==
  /\ Active(h) =>
       LET t == call[h].task IN
       /\ t \in Isolated /\ call[h].head <= head
       /\ call[h].attempt <= result[t].attempt
       /\ call[h].attempt = result[t].attempt => result[t].phase = "done"
  /\ waiting = h =>
       LET t == call[h].task IN
       /\ Active(h) /\ call[h].attempt = result[t].attempt
       /\ Late \/ result[t].rev.st # "retracted"

RerunFits ==
  rerun # 0 /\ result[rerun].phase \in {"done", "failed"} => result[rerun].attempt < MaxAttempts

(* What a record of a task says by itself ...                               *)
Sound(t, rec) ==
  /\ rec.rev.st = "confirmed" =>
       /\ rec.phase = "done"
       /\ t \in Isolated => rec.rev.merged /\ (Late \/ merges[t] > 0)
  /\ rec.rev.st = "retracted" => rec.phase \notin {"queued", "running"}

(* ... and beside the record in memory.                                     *)
Past(t, rec) ==
  /\ rec.attempt <= result[t].attempt
  /\ rec.rev.st = "confirmed" /\ rec.attempt = result[t].attempt => result[t].phase = "done"
  /\ rec.rev.st = "retracted" =>
       Late \/ result[t].rev.st = "retracted" \/ rec.attempt < result[t].attempt

RecOk(t, rec) == Sound(t, rec) /\ Past(t, rec)

RecsOk ==
  /\ \A t \in Ids : RecOk(t, result[t]) /\ RecOk(t, saved[t])
  /\ \A w \in writes : RecOk(w.task, w.rec)

(* The views have the attempt of the record in memory, or are about to.     *)
InStep(t) ==
  \/ /\ saved[t].attempt = result[t].attempt
     /\ \A w \in writes : w.task = t => w.rec.attempt = result[t].attempt
  \/ \E q \in writes :
       /\ q.task = t /\ q.rank = N + 2
       /\ q.rec.attempt = result[t].attempt /\ q.rec.rev.st = "none"
       /\ \A w \in writes : w.task = t /\ w # q => w.rank < N + 2

(* A record that may replace another one in the views.                      *)
Replaces(s, r) ==
  r.rev.st = "retracted" => s.rev.st = "retracted" \/ s.attempt > r.attempt

InOrder ==
  /\ \A w \in writes : Replaces(w.rec, saved[w.task])
  /\ \A v, w \in writes : v.task = w.task /\ v.rank <= w.rank /\ v # w => Replaces(w.rec, v.rec)

ViewsFit == Late \/ (InOrder /\ \A t \in Ids : InStep(t))

(* Merges and the worktrees they come from.                                 *)
MergesFit ==
  /\ \A t \in Ids : merges[t] <= 1 /\ (wt[t] = "pending" => merges[t] = 0)
  /\ \A h \in Reviews : Active(h) /\ call[h].attempt = result[call[h].task].attempt =>
       LET t == call[h].task IN
       /\ call[h].step = "merging" => wt[t] # "pending" /\ (head = call[h].head => merges[t] = 0)
       /\ call[h].step = "merged" => merges[t] > 0

RInv ==
  /\ Typed /\ RerunFits /\ RecsOk /\ ViewsFit /\ MergesFit
  /\ \A h \in Reviews : CallFits(h)

-----------------------------------------------------------------------------
(* Helpers of the model.                                                    *)

LEMMA MinIn ==
  ASSUME NEW S \in SUBSET Nat, S # {}
  PROVE  Min(S) \in S
<1>1. \E x \in S : \A y \in S : x <= y
  BY LeastNat
<1> QED
  BY <1>1 DEF Min

LEMMA MaxIn ==
  ASSUME NEW S \in SUBSET Ids, S # {}
  PROVE  Max(S) \in S
<1> DEFINE U == {N - x : x \in S}
<1>1. N \in Nat /\ \A x \in S : x \in Nat /\ x <= N
  BY ReviewAssumption DEF Ids
<1>2. U \in SUBSET Nat /\ U # {}
  BY <1>1
<1>3. PICK u \in U : \A y \in U : u <= y
  BY <1>2, LeastNat
<1>4. PICK x \in S : u = N - x
  BY <1>3
<1>5. ASSUME NEW y \in S PROVE x >= y
  <2>1. N - y \in U
    OBVIOUS
  <2>2. N - x <= N - y
    BY <1>3, <1>4, <2>1
  <2> QED
    BY <1>1, <2>2
<1> QED
  BY <1>5 DEF Max

LEMMA DistanceIn ==
  ASSUME NEW tk, NEW r, NEW t
  PROVE  Distance(tk, r, t) \in 0..N
<1> DEFINE S == {n \in 0..N : t \in Within(tk, r)[n]} \cup {N}
<1>1. S \in SUBSET Nat /\ S # {} /\ S \subseteq 0..N
  BY ReviewAssumption
<1>2. Distance(tk, r, t) = Min(S)
  BY DEF Distance
<1> HIDE DEF S
<1> QED
  BY <1>1, <1>2, MinIn

LEMMA FirstBadIn ==
  ASSUME NEW t \in Ids, ~DepsShareable(t)
  PROVE  FirstBad(t) \in Deps[t] /\ FirstBad(t) \in Ids /\ ~Shareable(FirstBad(t))
<1> DEFINE S == {d \in Deps[t] : ~Shareable(d)}
<1>1. S # {} /\ Deps[t] \in SUBSET Ids /\ Ids \in SUBSET Nat
  BY ReviewAssumption DEF DepsShareable, Ids
<1>2. Min(S) \in S
  BY <1>1, MinIn
<1>3. FirstBad(t) = Min(S)
  BY DEF FirstBad
<1> QED
  BY <1>1, <1>2, <1>3

(* A record that is the old one, or the old one marked for a re-check.      *)
Marked(r, s) ==
  /\ r.rev.st # "retracted"
  /\ s.phase = r.phase /\ s.attempt = r.attempt
  /\ s.rev.st = "needs_recheck" /\ s.rev.merged = r.rev.merged

Marks(tk, new) ==
  /\ new \in [Ids -> Recs]
  /\ \A t \in Ids : new[t] = tk[t] \/ Marked(tk[t], new[t])

Rechecked(r, b) == [r EXCEPT !.rev.st = "needs_recheck", !.rev.by = b]

LEMMA MarkRecord ==
  ASSUME NEW r \in Recs, r.rev.st # "retracted", NEW b \in 0..N
  PROVE  Rechecked(r, b) \in Recs /\ Marked(r, Rechecked(r, b)) /\ Rechecked(r, b).rev.by = b
BY DEF Recs, Marked, Rechecked

LEMMA IdsAreNumbers == N \in Nat /\ Ids \subseteq 0..N /\ 0 \notin Ids /\ IsFiniteSet(Ids)
BY ReviewAssumption, FS_Interval DEF Ids

LEMMA InvalidateMarks ==
  ASSUME NEW tk \in [Ids -> Recs], NEW r \in Ids
  PROVE  Marks(tk, Invalidate(tk, r))
<1>1. ASSUME NEW t \in Ids
      PROVE  /\ Invalidate(tk, r)[t] \in Recs
             /\ Invalidate(tk, r)[t] = tk[t] \/ Marked(tk[t], Invalidate(tk, r)[t])
  <2>1. tk[t] \in Recs /\ r \in 0..N
    BY IdsAreNumbers
  <2>2. CASE t \in Down(tk, r) /\ tk[t].rev.st # "retracted"
    <3>1. Invalidate(tk, r)[t] = Rechecked(tk[t], r)
      BY <2>2 DEF Invalidate, Rechecked
    <3> QED
      BY <2>1, <2>2, <3>1, MarkRecord
  <2>3. CASE ~(t \in Down(tk, r) /\ tk[t].rev.st # "retracted")
    BY <2>1, <2>3 DEF Invalidate
  <2> QED
    BY <2>2, <2>3
<1>2. Invalidate(tk, r) = [t \in Ids |-> Invalidate(tk, r)[t]]
  BY DEF Invalidate
<1> QED
  BY <1>1, <1>2 DEF Marks

LEMMA MarkNeedsRecheckMarks ==
  ASSUME NEW tk \in [Ids -> Recs], NEW r \in Ids
  PROVE  Marks(tk, MarkNeedsRecheck(tk, r))
<1>1. CASE tk[r].rev.st = "retracted"
  BY <1>1 DEF MarkNeedsRecheck, Marks
<1>2. CASE tk[r].rev.st # "retracted"
  <2> DEFINE s == Rechecked(tk[r], r)
             own == [tk EXCEPT ![r] = s]
  <2>1. s \in Recs /\ Marked(tk[r], s)
    BY <1>2, MarkRecord, IdsAreNumbers
  <2>2. own = [tk EXCEPT ![r].rev.st = "needs_recheck", ![r].rev.by = r]
    BY DEF Rechecked
  <2>3. own \in [Ids -> Recs] /\ own[r] = s /\ \A t \in Ids \ {r} : own[t] = tk[t]
    BY <2>1
  <2>4. MarkNeedsRecheck(tk, r) = Invalidate(own, r)
    BY <1>2, <2>2 DEF MarkNeedsRecheck
  <2> HIDE DEF own, s
  <2>5. Marks(own, Invalidate(own, r))
    BY <2>3, InvalidateMarks
  <2> QED
    BY <2>1, <2>3, <2>4, <2>5 DEF Marks, Marked
<1> QED
  BY <1>1, <1>2

LEMMA MarkBadDepMarks ==
  ASSUME result \in [Ids -> Recs], NEW t \in Ids, ~DepsShareable(t)
  PROVE  Marks(result, MarkBadDep(t))
BY FirstBadIn, MarkNeedsRecheckMarks DEF MarkBadDep, Marks

LEMMA HydrateMarks ==
  ASSUME NEW tk \in [Ids -> Recs]
  PROVE  Marks(tk, HydrateTasks(tk))
<1> DEFINE Gone(t) == tk[t].rev.st = "retracted"
           Self(t) == tk[t].rev.st = "needs_recheck" /\ tk[t].rev.by = t
           down == [u \in {v \in Ids : Gone(v) \/ Self(v)} |-> Down(tk, u)]
           Above(t) == {u \in DOMAIN down : t \in down[u]}
           Root(t) == Gone(t) \/ Above(t) = {}
           Roots(t) == {u \in Above(t) : Root(u)}
<1>1. HydrateTasks(tk) =
        [t \in Ids |->
           IF Roots(t) # {} /\ ~Gone(t)
           THEN Rechecked(tk[t], Max(Roots(t))) ELSE tk[t]]
  BY DEF HydrateTasks, Rechecked
<1>2. \A t \in Ids : Roots(t) \in SUBSET Ids
  OBVIOUS
<1> HIDE DEF Roots
<1>3. ASSUME NEW t \in Ids
      PROVE  /\ HydrateTasks(tk)[t] \in Recs
             /\ HydrateTasks(tk)[t] = tk[t] \/ Marked(tk[t], HydrateTasks(tk)[t])
  <2>1. CASE Roots(t) # {} /\ ~Gone(t)
    <3>1. Max(Roots(t)) \in 0..N
      BY <1>2, <2>1, MaxIn, IdsAreNumbers
    <3> QED
      BY <1>1, <2>1, <3>1, MarkRecord
  <2>2. CASE ~(Roots(t) # {} /\ ~Gone(t))
    BY <1>1, <2>2
  <2> QED
    BY <2>1, <2>2
<1>4. HydrateTasks(tk) = [t \in Ids |-> HydrateTasks(tk)[t]]
  BY <1>1
<1> QED
  BY <1>3, <1>4 DEF Marks

-----------------------------------------------------------------------------
(* Steps that follow from one synchronous part of the manager.              *)

(* The writes of the records of new, one for each task.                     *)
FreshWrites(W, new) ==
  /\ W \subseteq [task : Ids, rec : Recs, rank : 0..N + 2]
  /\ \A w \in W : w.rec = new[w.task]
  /\ \A v, w \in W : v.task = w.task => v = w

LEMMA ChangedAreFresh ==
  ASSUME NEW tk \in [Ids -> Recs], NEW r
  PROVE  FreshWrites(Changed(tk, r), tk)
<1>1. \A t \in Ids : Distance(result, r, t) \in 0..N + 2
  BY DistanceIn, IdsAreNumbers
<1> QED
  BY <1>1 DEF FreshWrites, Changed, ViewWrite

Follows(r, s) == s.attempt = r.attempt /\ (r.phase = "done" => s.phase = "done")

Keeps(r, s) == r.rev.st = "retracted" => s.rev.st = "retracted"

AllSound == \A t \in Ids : Sound(t, result[t])

LEMMA MarkedFollows ==
  ASSUME NEW r, NEW s, r = s \/ Marked(r, s)
  PROVE  Follows(r, s) /\ Keeps(r, s)
BY DEF Marked, Follows, Keeps

SavedOk == \A t \in Ids : RecOk(t, saved[t])

LEMMA FreshFit ==
  ASSUME result' \in [Ids -> Recs], FreshWrites(writes', result'), AllSound', SavedOk',
         Late' \/ \A t \in Ids : saved'[t].attempt = result'[t].attempt
  PROVE  RecsOk' /\ ViewsFit'
<1>1. ASSUME NEW t \in Ids PROVE RecOk(t, result[t])' /\ RecOk(t, saved[t])'
  <2>1. Sound(t, result[t])' /\ result'[t].attempt \in Nat
    BY DEF AllSound, Recs
  <2>2. RecOk(t, result[t])'
    BY <2>1 DEF RecOk, Past, Sound
  <2> QED
    BY <2>2 DEF SavedOk
<1>2. RecsOk'
  <2>1. ASSUME NEW w \in writes' PROVE RecOk(w.task, w.rec)'
    BY <1>1, <2>1 DEF FreshWrites, RecOk, Past, Sound
  <2> QED
    BY <1>1, <2>1 DEF RecsOk
<1>3. ViewsFit'
  <2> SUFFICES ASSUME ~Late' PROVE InOrder' /\ \A t \in Ids : InStep(t)'
    BY DEF ViewsFit
  <2>1. \A t \in Ids : saved'[t].attempt = result'[t].attempt /\ result'[t].attempt \in Nat
    BY DEF Recs
  <2>2. \A t \in Ids : InStep(t)'
    BY <2>1 DEF InStep, FreshWrites
  <2>3. ASSUME NEW w \in writes' PROVE Replaces(w.rec, saved'[w.task])
    BY <1>1, <2>1, <2>3 DEF FreshWrites, Replaces, RecOk, Past
  <2>4. InOrder'
    BY <2>3 DEF InOrder, FreshWrites
  <2> QED
    BY <2>2, <2>4
<1> QED
  BY <1>2, <1>3

LEMMA SavedInStep ==
  ASSUME RInv, Quiet
  PROVE  /\ SavedOk
         /\ Late \/ \A t \in Ids : saved[t].attempt = result[t].attempt
         /\ \A t \in Ids : saved[t].attempt \in Nat /\ result[t].attempt \in Nat
BY DEF RInv, Typed, ReviewTypeOK, Recs, RecsOk, SavedOk, Quiet, ViewsFit, InStep

LEMMA FreshKeepsRecords ==
  ASSUME RInv, Quiet, UNCHANGED <<saved, merges>>, Late => Late',
         result' \in [Ids -> Recs], FreshWrites(writes', result'), AllSound',
         \A t \in Ids : Follows(result[t], result'[t]),
         Late' \/ \A t \in Ids : Keeps(result[t], result'[t])
  PROVE  RecsOk' /\ ViewsFit'
<1>1. /\ SavedOk /\ (Late \/ \A t \in Ids : saved[t].attempt = result[t].attempt)
      /\ \A t \in Ids : saved[t].attempt \in Nat /\ result[t].attempt \in Nat
  BY SavedInStep
<1>2. ASSUME NEW t \in Ids PROVE RecOk(t, saved[t])'
  BY <1>1 DEF SavedOk, RecOk, Past, Sound, Follows, Keeps
<1> QED
  BY <1>1, <1>2, FreshFit DEF SavedOk, Follows

LEMMA ActiveCall ==
  ASSUME Typed, NEW h \in Reviews, Active(h)
  PROVE  /\ call[h] \in MergeCalls /\ call[h].task \in Ids
         /\ call[h].attempt \in 1..MaxAttempts /\ call[h].head \in Nat
<1>1. NoCall.step = "idle"
  BY DEF NoCall
<1>2. call[h] \in MergeCalls \cup {NoCall}
  BY DEF Typed
<1>3. call[h] \in MergeCalls
  BY <1>1, <1>2 DEF Active
<1> QED
  BY <1>3 DEF MergeCalls

(* Nothing about the calls changes when nobody waits for one.               *)
LEMMA FollowKeepsFits ==
  ASSUME RInv, UNCHANGED <<call, waiting, head>>, Late => Late',
         \A t \in Ids : Follows(result[t], result'[t]),
         waiting # Nobody => \A t \in Ids : result'[t] = result[t]
  PROVE  \A h \in Reviews : CallFits(h)'
<1>1. \A h \in Reviews : Active(h) => call[h].task \in Ids
  BY ActiveCall DEF RInv
<1>2. ASSUME NEW h \in Reviews PROVE CallFits(h)'
  <2>1. Nobody # h
    BY ReviewAssumption DEF Nobody
  <2> QED
    BY <1>1, <2>1 DEF RInv, CallFits, Active, Follows
<1> QED
  BY <1>2

LEMMA FollowKeepsCalls ==
  ASSUME RInv, UNCHANGED <<call, waiting, git>>, Late => Late',
         \A t \in Ids : Follows(result[t], result'[t]),
         waiting # Nobody => \A t \in Ids : result'[t] = result[t]
  PROVE  MergesFit' /\ \A h \in Reviews : CallFits(h)'
<1>1. \A h \in Reviews : Active(h) => call[h].task \in Ids
  BY ActiveCall DEF RInv
<1>2. UNCHANGED <<wt, merges, head>>
  BY DEF git
<1>3. MergesFit'
  BY <1>1, <1>2 DEF RInv, MergesFit, Active, Follows
<1> QED
  BY <1>2, <1>3, FollowKeepsFits

LEMMA FreeStep ==
  ASSUME RInv, Free, UNCHANGED <<saved, git, env, call, waiting, rerun, lapses>>,
         result' \in [Ids -> Recs], FreshWrites(writes', result'), AllSound',
         \A t \in Ids : Follows(result[t], result'[t]) /\ Keeps(result[t], result'[t])
  PROVE  RInv'
<1>1. /\ Quiet /\ waiting = Nobody /\ rerun = 0
      /\ UNCHANGED <<merges, wt, head, current>>
      /\ Late' = Late
  BY DEF Free, git, env, Late
<1>2. RecsOk' /\ ViewsFit'
  BY <1>1, FreshKeepsRecords
<1>3. MergesFit' /\ \A h \in Reviews : CallFits(h)'
  BY <1>1, FollowKeepsCalls
<1>4. Typed'
  BY <1>1 DEF RInv, Typed, ReviewTypeOK, FreshWrites
<1>5. RerunFits'
  BY <1>1 DEF RerunFits
<1> QED
  BY <1>2, <1>3, <1>4, <1>5 DEF RInv

(* Marks alone.                                                             *)
LEMMA MarksStep ==
  ASSUME RInv, Free, UNCHANGED <<saved, git, env, call, waiting, rerun, lapses>>,
         NEW tk, Marks(result, tk), NEW r, Becomes(tk, r)
  PROVE  RInv'
<1>1. tk \in [Ids -> Recs] /\ result' = tk /\ writes' = Changed(tk, r)
  BY DEF Marks, Becomes
<1>2. \A t \in Ids : Follows(result[t], result'[t]) /\ Keeps(result[t], result'[t])
  BY <1>1, MarkedFollows DEF Marks
<1>3. AllSound'
  <2>1. \A t \in Ids : Sound(t, result[t])
    BY DEF RInv, RecsOk, RecOk
  <2>2. merges' = merges /\ lapses' = lapses
    BY DEF git
  <2> QED
    BY <1>1, <2>1, <2>2 DEF AllSound, Sound, Marks, Marked, Late
<1> QED
  BY <1>1, <1>2, <1>3, ChangedAreFresh, FreeStep

LEMMA LookGood == ASSUME RInv, NEW t \in Ids, Look(t) PROVE RInv'
<1>1. result \in [Ids -> Recs]
  BY DEF RInv, Typed, ReviewTypeOK
<1>2. Marks(result, MarkNeedsRecheck(result, t))
  BY <1>1, MarkNeedsRecheckMarks
<1> QED
  BY <1>2, MarksStep DEF Look

LEMMA MarksTwice ==
  ASSUME NEW f, NEW g, NEW k, Marks(f, g), Marks(g, k)
  PROVE  Marks(f, k)
BY DEF Marks, Marked

LEMMA ConfirmRefusedGood == ASSUME RInv, NEW t \in Ids, ConfirmRefused(t) PROVE RInv'
<1>1. result \in [Ids -> Recs]
  BY DEF RInv, Typed, ReviewTypeOK
<1>2. CASE DepsShareable(t)
  BY <1>1, <1>2, MarkNeedsRecheckMarks, MarksStep DEF ConfirmRefused
<1>3. CASE ~DepsShareable(t)
  <2>1. Marks(result, MarkBadDep(t))
    BY <1>1, <1>3, MarkBadDepMarks
  <2>2. Marks(MarkBadDep(t), MarkNeedsRecheck(MarkBadDep(t), t))
    BY <2>1, MarkNeedsRecheckMarks DEF Marks
  <2> QED
    BY <1>3, <2>1, <2>2, MarksTwice, MarksStep DEF ConfirmRefused
<1> QED
  BY <1>2, <1>3

(* The record of t gets another review.                                     *)
LEMMA ReviewedRecord ==
  ASSUME NEW tk \in [Ids -> Recs], NEW t \in Ids,
         NEW st \in {"none", "pending", "candidate", "needs_recheck", "confirmed",
                     "retracted", "integrating"}
  PROVE  LET new == WithReview(tk, t, Review(st, 0, FALSE)) IN
         /\ new \in [Ids -> Recs]
         /\ \A u \in Ids \ {t} : new[u] = tk[u]
         /\ new[t].phase = tk[t].phase /\ new[t].attempt = tk[t].attempt
         /\ new[t].rev.st = st /\ ~new[t].rev.merged
<1> DEFINE rec == [tk[t] EXCEPT !.rev = Review(st, 0, FALSE)]
<1>1. /\ rec \in Recs /\ rec.phase = tk[t].phase /\ rec.attempt = tk[t].attempt
      /\ rec.rev.st = st /\ ~rec.rev.merged
  <2>1. tk[t] \in Recs /\ 0 \in 0..N
    BY IdsAreNumbers
  <2> QED
    BY <2>1 DEF Review, Recs
<1>2. WithReview(tk, t, Review(st, 0, FALSE)) = [tk EXCEPT ![t] = rec]
  BY DEF WithReview
<1> HIDE DEF rec
<1> QED
  BY <1>1, <1>2

LEMMA ConfirmGood == ASSUME RInv, NEW t \in Ids, Confirm(t) PROVE RInv'
<1> DEFINE new == WithReview(result, t, Review("confirmed", 0, FALSE))
<1>1. result \in [Ids -> Recs] /\ \A u \in Ids : Sound(u, result[u])
  BY DEF RInv, Typed, ReviewTypeOK, RecsOk, RecOk
<1>2. /\ new \in [Ids -> Recs]
      /\ \A u \in Ids \ {t} : new[u] = result[u]
      /\ new[t].phase = result[t].phase /\ new[t].attempt = result[t].attempt
      /\ new[t].rev.st = "confirmed" /\ ~new[t].rev.merged
  BY <1>1, ReviewedRecord
<1> HIDE DEF new
<1>3. /\ Free /\ result[t].phase = "done" /\ result[t].rev.st # "retracted" /\ t \notin Isolated
      /\ result' = new /\ writes' = Changed(new, t)
      /\ UNCHANGED <<saved, git, env, call, waiting, rerun, lapses>>
  BY DEF Confirm, Reviewable, Becomes, new
<1>4. \A u \in Ids : Follows(result[u], new[u]) /\ Keeps(result[u], new[u])
  BY <1>2, <1>3 DEF Follows, Keeps
<1>5. AllSound'
  <2>1. merges' = merges /\ Late' = Late
    BY <1>3 DEF git, Late
  <2>2. ASSUME NEW u \in Ids PROVE Sound(u, result[u])'
    BY <1>1, <1>2, <1>3, <2>1 DEF Sound
  <2> QED
    BY <2>2 DEF AllSound
<1> QED
  BY <1>2, <1>3, <1>4, <1>5, ChangedAreFresh, FreeStep

LEMMA RetractGood == ASSUME RInv, NEW t \in Ids, Retract(t) PROVE RInv'
<1> DEFINE own == WithReview(result, t, Review("retracted", 0, FALSE))
           new == Invalidate(own, t)
<1>1. result \in [Ids -> Recs] /\ \A u \in Ids : Sound(u, result[u])
  BY DEF RInv, Typed, ReviewTypeOK, RecsOk, RecOk
<1>2. /\ own \in [Ids -> Recs]
      /\ \A u \in Ids \ {t} : own[u] = result[u]
      /\ own[t].phase = result[t].phase /\ own[t].attempt = result[t].attempt
      /\ own[t].rev.st = "retracted" /\ ~own[t].rev.merged
  BY <1>1, ReviewedRecord
<1>3. /\ Free /\ result[t].phase = "done"
      /\ result' = new /\ writes' = Changed(new, t)
      /\ UNCHANGED <<saved, git, env, call, waiting, rerun, lapses>>
  BY DEF Retract, Becomes
<1> HIDE DEF own
<1>4. Marks(own, new)
  BY <1>2, InvalidateMarks
<1> HIDE DEF new
<1>5. \A u \in Ids : Follows(result[u], new[u]) /\ Keeps(result[u], new[u])
  BY <1>2, <1>4, MarkedFollows DEF Follows, Keeps, Marks
<1>6. AllSound'
  <2>1. merges' = merges /\ Late' = Late
    BY <1>3 DEF git, Late
  <2>2. ASSUME NEW u \in Ids PROVE Sound(u, result[u])'
    BY <1>1, <1>2, <1>3, <1>4, <2>1 DEF Sound, Marks, Marked
  <2> QED
    BY <2>2 DEF AllSound
<1> QED
  BY <1>3, <1>4, <1>5, <1>6, ChangedAreFresh, FreeStep DEF Marks

-----------------------------------------------------------------------------
(* The calls of confirm_and_merge.                                          *)

LEMMA ReviewInitGood == ASSUME ReviewInit PROVE RInv
<1>1. 1 \in 1..MaxAttempts
  BY ReviewAssumption
<1>2. result \in [Ids -> Recs] /\ saved \in [Ids -> Recs]
  BY <1>1, IdsAreNumbers DEF ReviewInit, Recs, Review
<1>3. Typed
  <2>1. writes \subseteq [task : Ids, rec : Recs, rank : 0..N + 2] /\ lapses \subseteq {"late", "lost", "cut"}
    BY DEF ReviewInit
  <2>2. current \in [Ids -> BOOLEAN] /\ wt \in [Ids -> {"pending", "clean", "moved"}]
    BY DEF ReviewInit
  <2>3. merges \in [Ids -> Nat] /\ head \in Nat /\ rerun \in 0..N /\ waiting = Nobody
    BY IdsAreNumbers DEF ReviewInit
  <2>4. call \in [Reviews -> MergeCalls \cup {NoCall}]
    BY DEF ReviewInit
  <2>5. \A h \in Reviews : call[h].step = "idle"
    BY DEF ReviewInit, NoCall
  <2> QED
    BY <1>2, <2>1, <2>2, <2>3, <2>4, <2>5 DEF Typed, ReviewTypeOK
<1>4. RerunFits
  BY DEF ReviewInit, RerunFits
<1>5. RecsOk
  <2>1. ASSUME NEW t \in Ids PROVE RecOk(t, result[t]) /\ RecOk(t, saved[t])
    BY <1>1 DEF ReviewInit, RecOk, Sound, Past, Review
  <2> QED
    BY <2>1 DEF RecsOk, ReviewInit
<1>6. ViewsFit
  <2>1. \A t \in Ids : InStep(t)
    BY DEF ReviewInit, InStep
  <2> QED
    BY <2>1 DEF ReviewInit, ViewsFit, InOrder
<1>7. MergesFit
  BY DEF ReviewInit, MergesFit, Active, NoCall
<1>8. ASSUME NEW h \in Reviews PROVE CallFits(h)
  BY ReviewAssumption DEF ReviewInit, CallFits, Active, NoCall, Nobody
<1> QED
  BY <1>3, <1>4, <1>5, <1>6, <1>7, <1>8 DEF RInv

LEMMA SameRecords ==
  ASSUME RInv, UNCHANGED <<result, saved, writes, lapses>>,
         merges' \in [Ids -> Nat], \A t \in Ids : merges'[t] >= merges[t]
  PROVE  RecsOk' /\ ViewsFit'
<1>1. merges \in [Ids -> Nat] /\ Late' = Late
  BY DEF RInv, Typed, ReviewTypeOK, Late
<1>2. ASSUME NEW t \in Ids, NEW rec, RecOk(t, rec) PROVE RecOk(t, rec)'
  <2>1. merges[t] > 0 => merges'[t] > 0
    BY <1>1
  <2> QED
    BY <1>1, <1>2, <2>1 DEF RecOk, Sound, Past
<1>3. \A w \in writes : w.task \in Ids
  BY DEF RInv, Typed, ReviewTypeOK
<1>4. RecsOk'
  BY <1>2, <1>3 DEF RInv, RecsOk
<1>5. ViewsFit'
  BY <1>1 DEF RInv, ViewsFit, InOrder, InStep
<1> QED
  BY <1>4, <1>5

(* One call goes on or ends while the records stay as they are or follow.   *)
LEMMA OthersFit ==
  ASSUME RInv, NEW h \in Reviews, Late => Late', head' \in Nat, head' >= head,
         \A g \in Reviews \ {h} : call'[g] = call[g],
         waiting' # waiting => waiting' \in {h, Nobody},
         \A t \in Ids : Follows(result[t], result'[t]),
         Late' \/ \A t \in Ids : Keeps(result'[t], result[t])
  PROVE  \A g \in Reviews \ {h} : CallFits(g)'
<1> SUFFICES ASSUME NEW g \in Reviews, g # h PROVE CallFits(g)'
  OBVIOUS
<1>1. Nobody # g /\ CallFits(g) /\ call'[g] = call[g] /\ head \in Nat
  BY ReviewAssumption DEF Nobody, RInv, Typed, ReviewTypeOK
<1>2. Active(g) => call[g].task \in Ids /\ call[g].head \in Nat
  BY ActiveCall DEF RInv
<1>3. waiting' = g => waiting = g
  BY <1>1
<1>4. Active(g)' = Active(g)
  BY <1>1 DEF Active
<1> DEFINE t == call[g].task
<1>5. ASSUME Active(g)
      PROVE  /\ t \in Isolated /\ call[g].head <= head'
             /\ call[g].attempt <= result'[t].attempt
             /\ call[g].attempt = result'[t].attempt => result'[t].phase = "done"
  BY <1>1, <1>2, <1>5 DEF CallFits, Follows
<1>6. ASSUME waiting' = g
      PROVE  /\ Active(g) /\ call[g].attempt = result'[t].attempt
             /\ Late' \/ result'[t].rev.st # "retracted"
  BY <1>1, <1>2, <1>3, <1>6 DEF CallFits, Follows, Keeps
<1> QED
  BY <1>1, <1>4, <1>5, <1>6 DEF CallFits

LEMMA StepsTyped ==
  ASSUME NEW f \in [Reviews -> MergeCalls \cup {NoCall}]
  PROVE  \A h \in Reviews : f[h].step \in {"idle", "asking", "checking", "merging", "merged"}
<1>1. NoCall.step = "idle"
  BY DEF NoCall
<1>2. \A c \in MergeCalls : c.step \in {"asking", "checking", "merging", "merged"}
  BY DEF MergeCalls
<1> QED
  BY <1>1, <1>2

LEMMA AskMergeGood == ASSUME RInv, NEW h \in Reviews, NEW t \in Ids, AskMerge(h, t) PROVE RInv'
<1> DEFINE c == [task |-> t, step |-> "asking", attempt |-> result[t].attempt,
                 head |-> head, prev |-> result[t].rev]
<1>1. /\ Free /\ t \in Isolated /\ call' = [call EXCEPT ![h] = c] /\ waiting' = h
      /\ result[t].phase = "done" /\ result[t].rev.st \notin {"integrating", "confirmed", "retracted"}
      /\ UNCHANGED <<result, saved, writes, wt, merges, head, current, rerun, lapses>>
  BY DEF AskMerge, Reviewable, git, env
<1>2. result[t] \in Recs /\ head \in Nat /\ call \in [Reviews -> MergeCalls \cup {NoCall}]
  BY DEF RInv, Typed, ReviewTypeOK
<1>3. c \in MergeCalls
  BY <1>1, <1>2 DEF Recs, MergeCalls
<1>4. call' \in [Reviews -> MergeCalls \cup {NoCall}] /\ call'[h] = c
      /\ \A g \in Reviews \ {h} : call'[g] = call[g]
  BY <1>1, <1>2, <1>3
<1>5. Typed'
  <2>1. /\ UNCHANGED <<result, saved, writes, current, wt, merges, head, rerun, lapses>>
        /\ rerun = 0 /\ waiting' = h
    BY <1>1 DEF Free
  <2>2. ReviewTypeOK /\ h \in Reviews \cup {Nobody}
    BY DEF RInv, Typed
  <2>3. ReviewTypeOK'
    BY <1>4, <2>1, <2>2, StepsTyped DEF ReviewTypeOK
  <2> QED
    BY <1>4, <2>3 DEF Typed
<1>6. RecsOk' /\ ViewsFit'
  BY <1>1, SameRecords DEF RInv, Typed, ReviewTypeOK
<1>7. Late' = Late
  BY <1>1 DEF Late
<1>8. \A g \in Reviews \ {h} : CallFits(g)'
  BY <1>1, <1>2, <1>4, <1>7, OthersFit DEF Follows, Keeps
<1>9. CallFits(h)'
  <2>1. result[t].attempt \in Nat
    BY <1>2 DEF Recs
  <2> QED
    BY <1>1, <1>2, <1>4, <2>1 DEF CallFits, Active
<1>10. MergesFit'
  <2>1. ASSUME NEW g \in Reviews, Active(g)', call'[g].attempt = result'[call'[g].task].attempt
        PROVE  /\ call'[g].step = "merging" => wt'[call'[g].task] # "pending" /\ (head' = call'[g].head => merges'[call'[g].task] = 0)
               /\ call'[g].step = "merged" => merges'[call'[g].task] > 0
    <3>1. CASE g = h
      BY <1>4, <3>1
    <3>2. CASE g # h
      BY <1>1, <1>4, <2>1, <3>2 DEF RInv, MergesFit, Active
    <3> QED
      BY <3>1, <3>2
  <2> QED
    BY <1>1, <2>1 DEF RInv, MergesFit
<1>11. RerunFits'
  BY <1>1 DEF RInv, RerunFits
<1> QED
  BY <1>5, <1>6, <1>8, <1>9, <1>10, <1>11 DEF RInv

LEMMA TimeOutGood == ASSUME RInv, NEW h \in Reviews, TimeOut(h) PROVE RInv'
<1>1. /\ waiting = h /\ waiting' = Nobody
      /\ UNCHANGED <<result, saved, writes, wt, merges, head, current, call, rerun, lapses>>
  BY DEF TimeOut, git, env
<1>2. RecsOk' /\ ViewsFit'
  BY <1>1, SameRecords DEF RInv, Typed, ReviewTypeOK
<1>3. Typed' /\ RerunFits' /\ MergesFit'
  BY <1>1 DEF RInv, Typed, ReviewTypeOK, RerunFits, MergesFit, Active
<1>4. \A g \in Reviews : CallFits(g)'
  BY <1>1, ReviewAssumption DEF RInv, CallFits, Active, Nobody, Late
<1> QED
  BY <1>2, <1>3, <1>4 DEF RInv

Revs == [st : {"none", "pending", "candidate", "needs_recheck", "confirmed",
               "retracted", "integrating"}, by : 0..N, merged : BOOLEAN]

(* The record that the handler of h writes.                                 *)
Answered(h, rv) == [phase |-> "done", attempt |-> call[h].attempt, rev |-> rv]

(* An answer may be given to an object that the manager no longer has; the  *)
(* parent did not wait for it then.                                         *)
LEMMA SetsStep ==
  ASSUME RInv, Quiet, NEW h \in Reviews, Active(h), UNCHANGED <<saved, merges>>,
         NEW rv \in Revs, rv.st # "retracted",
         rv.st = "confirmed" => rv.merged /\ (Late' \/ merges[call[h].task] > 0),
         NEW isSaved, Sets(h, rv, isSaved)
  PROVE  /\ RecsOk' /\ ViewsFit'
         /\ result' \in [Ids -> Recs] /\ writes' \subseteq [task : Ids, rec : Recs, rank : 0..N + 2]
         /\ \A t \in Ids : Follows(result[t], result'[t]) /\ Keeps(result'[t], result[t])
         /\ Late => Late'
         /\ waiting # h => Late'
         /\ call[h].attempt = result[call[h].task].attempt => result'[call[h].task] = Answered(h, rv)
<1> SUFFICES ASSUME NEW t, t = call[h].task, NEW rec, rec = Answered(h, rv)
             PROVE  /\ RecsOk' /\ ViewsFit'
                    /\ result' \in [Ids -> Recs] /\ writes' \subseteq [task : Ids, rec : Recs, rank : 0..N + 2]
                    /\ \A u \in Ids : Follows(result[u], result'[u]) /\ Keeps(result'[u], result[u])
                    /\ Late => Late'
                    /\ waiting # h => Late'
                    /\ call[h].attempt = result[t].attempt => result'[t] = rec
  OBVIOUS
<1>1. /\ result \in [Ids -> Recs] /\ saved \in [Ids -> Recs] /\ writes = {} /\ CallFits(h)
      /\ \A u \in Ids : RecOk(u, result[u]) /\ RecOk(u, saved[u])
      /\ lapses \subseteq {"late", "lost", "cut"}
  BY DEF RInv, Typed, ReviewTypeOK, Quiet, RecsOk
<1>2. t \in Ids /\ call[h].attempt \in 1..MaxAttempts
  BY ActiveCall DEF RInv
<1>3. rec \in Recs /\ rec.phase = "done" /\ rec.attempt = call[h].attempt /\ rec.rev = rv
  BY <1>2 DEF Answered, Revs, Recs
<1>4. /\ result' = IF result[t].attempt = rec.attempt THEN [result EXCEPT ![t] = rec] ELSE result
      /\ writes' \subseteq {ViewWrite(t, rec, 0)}
      /\ (Late => Late') /\ (waiting # h => Late')
  BY <1>3 DEF Sets, Answered, Late
<1>5. \A r \in Nat : ViewWrite(t, rec, r).task = t /\ ViewWrite(t, rec, r).rec = rec
  BY DEF ViewWrite
<1>6. writes' \subseteq [task : Ids, rec : Recs, rank : 0..N + 2]
  BY <1>2, <1>3, <1>4, IdsAreNumbers DEF ViewWrite
<1>7. \A w \in writes' : w = ViewWrite(t, rec, 0)
  BY <1>4
<1>8. Sound(t, rec)'
  BY <1>1, <1>2, <1>3 DEF Sound
<1>9. CASE result[t].attempt = rec.attempt
  <2>1. /\ result' \in [Ids -> Recs] /\ result'[t] = rec
        /\ \A u \in Ids \ {t} : result'[u] = result[u]
    BY <1>1, <1>2, <1>3, <1>4, <1>9
  <2>2. \A u \in Ids : Follows(result[u], result'[u]) /\ Keeps(result'[u], result[u])
    BY <1>3, <1>9, <2>1 DEF Follows, Keeps
  <2>3. Late' \/ result[t].rev.st # "retracted"
    BY <1>1, <1>4 DEF CallFits
  <2>4. Late' \/ \A u \in Ids : Keeps(result[u], result'[u])
    BY <2>1, <2>3 DEF Keeps
  <2>5. FreshWrites(writes', result')
    BY <1>5, <1>6, <1>7, <2>1 DEF FreshWrites
  <2>6. AllSound'
    <3>1. \A u \in Ids : Sound(u, result[u])'
      BY <1>1, <1>4, <1>8, <2>1 DEF Sound, RecOk
    <3> QED
      BY <3>1 DEF AllSound
  <2>7. RecsOk' /\ ViewsFit'
    BY <1>4, <2>1, <2>2, <2>4, <2>5, <2>6, FreshKeepsRecords
  <2> QED
    BY <1>4, <1>6, <2>1, <2>2, <2>7
<1>10. CASE result[t].attempt # rec.attempt
  <2>1. result' = result /\ rec.attempt <= result[t].attempt /\ waiting # h
    BY <1>1, <1>3, <1>4, <1>10 DEF CallFits
  <2>2. Late'
    BY <1>4, <2>1
  <2>3. \A u \in Ids : RecOk(u, result[u])' /\ RecOk(u, saved[u])'
    BY <1>1, <2>1, <2>2 DEF RecOk, Sound, Past
  <2>4. RecOk(t, rec)'
    BY <1>3, <1>8, <1>10, <2>1, <2>2 DEF RecOk, Past
  <2>5. RecsOk'
    BY <1>5, <1>7, <2>3, <2>4 DEF RecsOk
  <2>6. \A u \in Ids : Follows(result[u], result'[u]) /\ Keeps(result'[u], result[u])
    BY <2>1 DEF Follows, Keeps
  <2> QED
    BY <1>1, <1>3, <1>4, <1>6, <1>10, <2>1, <2>2, <2>5, <2>6 DEF ViewsFit
<1> QED
  BY <1>9, <1>10

LEMMA IdleCall == NoCall.step = "idle"
BY DEF NoCall

(* After the answer a call ends, or goes on to the checks of mergeWorktree. *)
LEMMA AnswerStep ==
  ASSUME RInv, Quiet, NEW h \in Reviews, Active(h), UNCHANGED <<saved, git, env, rerun>>,
         NEW rv \in Revs, rv.st # "retracted",
         rv.st = "confirmed" => rv.merged /\ (Late' \/ merges[call[h].task] > 0),
         NEW isSaved, Sets(h, rv, isSaved), Ends(h) \/ Goto(h, "checking")
  PROVE  RInv'
<1>1. /\ UNCHANGED <<wt, merges, head, current>> /\ head \in Nat
      /\ call \in [Reviews -> MergeCalls \cup {NoCall}] /\ waiting \in Reviews \cup {Nobody}
  BY DEF git, env, RInv, Typed, ReviewTypeOK
<1>2. /\ RecsOk' /\ ViewsFit'
      /\ result' \in [Ids -> Recs] /\ writes' \subseteq [task : Ids, rec : Recs, rank : 0..N + 2]
      /\ \A t \in Ids : Follows(result[t], result'[t]) /\ Keeps(result'[t], result[t])
      /\ Late => Late'
      /\ waiting # h => Late'
      /\ call[h].attempt = result[call[h].task].attempt => result'[call[h].task] = Answered(h, rv)
  BY <1>1, SetsStep
<1> DEFINE c == [call[h] EXCEPT !.step = "checking"]
<1>3. call[h] \in MergeCalls /\ call[h].task \in Ids
  BY ActiveCall DEF RInv
<1>4. /\ c \in MergeCalls /\ c.step = "checking" /\ c.task = call[h].task
      /\ c.attempt = call[h].attempt /\ c.head = call[h].head
  BY <1>3 DEF MergeCalls
<1>5. \/ call' = [call EXCEPT ![h] = NoCall] /\ waiting' = IF waiting = h THEN Nobody ELSE waiting
      \/ call' = [call EXCEPT ![h] = c] /\ waiting' = waiting
  BY DEF Ends, Goto
<1> HIDE DEF c
<1>6. /\ call' \in [Reviews -> MergeCalls \cup {NoCall}] /\ call'[h] \in {NoCall, c}
      /\ \A g \in Reviews \ {h} : call'[g] = call[g]
      /\ call'[h] = NoCall => waiting' # h
      /\ waiting' \in {waiting, Nobody}
  <2>1. Nobody # h
    BY ReviewAssumption DEF Nobody
  <2> QED
    BY <1>1, <1>4, <1>5, <2>1, IdleCall
<1>7. \A g \in Reviews \ {h} : CallFits(g)'
  BY <1>1, <1>2, <1>6, OthersFit
<1>8. CallFits(h)'
  <2>1. CASE call'[h] = NoCall
    BY <1>6, <2>1 DEF CallFits, Active, NoCall
  <2>2. CASE call'[h] = c
    <3>1. Active(h)' /\ CallFits(h) /\ Nobody # h
      BY <1>4, <2>2, ReviewAssumption DEF Active, RInv, Nobody
    <3>2. waiting' = h => Late' \/ result'[c.task].rev.st # "retracted"
      BY <1>2, <1>3, <1>4, <1>6, <3>1 DEF CallFits, Keeps
    <3> QED
      BY <1>1, <1>2, <1>3, <1>4, <1>6, <2>2, <3>1, <3>2 DEF CallFits, Follows
  <2> QED
    BY <1>6, <2>1, <2>2
<1>9. MergesFit'
  <2>1. ASSUME NEW g \in Reviews, Active(g)', call'[g].attempt = result'[call'[g].task].attempt
        PROVE  /\ call'[g].step = "merging" => wt'[call'[g].task] # "pending" /\ (head' = call'[g].head => merges'[call'[g].task] = 0)
               /\ call'[g].step = "merged" => merges'[call'[g].task] > 0
    <3>1. CASE g = h
      <4>1. call'[g].step \in {"idle", "checking"}
        BY <1>4, <1>6, <3>1, IdleCall
      <4> QED
        BY <4>1
    <3>2. CASE g # h
      <4>1. call'[g] = call[g] /\ Active(g)
        BY <1>6, <2>1, <3>2 DEF Active
      <4>2. call[g].task \in Ids
        BY <4>1, ActiveCall DEF RInv
      <4>3. call[g].attempt = result[call[g].task].attempt
        BY <1>2, <2>1, <4>1, <4>2 DEF Follows
      <4> QED
        BY <1>1, <4>1, <4>3 DEF RInv, MergesFit
    <3> QED
      BY <3>1, <3>2
  <2> QED
    BY <1>1, <2>1 DEF RInv, MergesFit
<1>10. Typed'
  <2>1. ReviewTypeOK /\ lapses' \subseteq {"late", "lost", "cut"}
    BY DEF RInv, Typed, ReviewTypeOK, Sets
  <2>2. waiting' \in Reviews \cup {Nobody} /\ (waiting' = Nobody \/ rerun' = 0)
    BY <1>1, <1>6, <2>1 DEF ReviewTypeOK
  <2>3. ReviewTypeOK'
    BY <1>1, <1>2, <1>6, <2>1, <2>2, StepsTyped DEF ReviewTypeOK
  <2> QED
    BY <1>6, <2>3 DEF Typed
<1>11. RerunFits'
  <2>1. rerun \in 0..N /\ (rerun # 0 => rerun \in Ids)
    BY ReviewAssumption DEF RInv, Typed, ReviewTypeOK, Ids
  <2>2. ASSUME NEW t \in Ids, result'[t] # result[t]
        PROVE  result[t].phase = "done" /\ result'[t].attempt = result[t].attempt
    <3>1. CallFits(h) /\ t = call[h].task /\ result[t].attempt = call[h].attempt
      BY <2>2, <1>3 DEF Sets, RInv, Typed, ReviewTypeOK
    <3> QED
      BY <1>2, <2>2, <3>1 DEF CallFits, Follows
  <2> QED
    BY <2>1, <2>2 DEF RInv, RerunFits
<1> QED
  BY <1>2, <1>7, <1>8, <1>9, <1>10, <1>11 DEF RInv

(* One call changes and the records stay as they are.                       *)
LEMMA CallStep ==
  ASSUME RInv, NEW h \in Reviews, UNCHANGED <<result, saved, writes, env, rerun, lapses>>,
         wt' \in [Ids -> {"pending", "clean", "moved"}], merges' \in [Ids -> Nat],
         \A t \in Ids : merges'[t] >= merges[t], head' \in Nat, head' >= head,
         NEW c \in MergeCalls \cup {NoCall}, call' = [call EXCEPT ![h] = c],
         waiting' \in {waiting, Nobody}, CallFits(h)', MergesFit'
  PROVE  RInv'
<1>1. ReviewTypeOK /\ call \in [Reviews -> MergeCalls \cup {NoCall}] /\ UNCHANGED current /\ Late' = Late
  BY DEF RInv, Typed, env, Late
<1>2. /\ call' \in [Reviews -> MergeCalls \cup {NoCall}]
      /\ \A g \in Reviews \ {h} : call'[g] = call[g]
  BY <1>1
<1>3. Typed'
  <2>1. ReviewTypeOK'
    BY <1>1, <1>2, StepsTyped DEF ReviewTypeOK
  <2> QED
    BY <1>2, <2>1 DEF Typed
<1>4. \A g \in Reviews \ {h} : CallFits(g)'
  <2>1. \A t \in Ids : Follows(result[t], result'[t]) /\ Keeps(result'[t], result[t])
    BY DEF Follows, Keeps
  <2> QED
    BY <1>1, <1>2, <2>1, OthersFit
<1>5. RecsOk' /\ ViewsFit'
  BY SameRecords
<1>6. RerunFits'
  BY DEF RInv, RerunFits
<1> QED
  BY <1>3, <1>4, <1>5, <1>6 DEF RInv

LEMMA ReviewIn ==
  ASSUME NEW st \in {"none", "pending", "candidate", "needs_recheck", "confirmed",
                     "retracted", "integrating"}, NEW by \in 0..N, NEW m \in BOOLEAN
  PROVE  Review(st, by, m) \in Revs /\ Review(st, by, m).st = st /\ Review(st, by, m).merged = m
BY DEF Review, Revs

LEMMA AnswerGood == ASSUME RInv, NEW h \in Reviews, Answer(h) PROVE RInv'
<1>1. /\ Quiet /\ Active(h) /\ UNCHANGED <<saved, git, env, rerun>>
      /\ UNCHANGED <<wt, merges, head>>
  BY DEF Answer, Active, git
<1>2. 0 \in 0..N
  BY IdsAreNumbers
<1>3. CASE Ends(h) /\ UNCHANGED <<result, writes, lapses>>
  <2>1. /\ call' = [call EXCEPT ![h] = NoCall] /\ waiting' \in {waiting, Nobody} /\ waiting' # h
        /\ call \in [Reviews -> MergeCalls \cup {NoCall}]
        /\ wt \in [Ids -> {"pending", "clean", "moved"}] /\ merges \in [Ids -> Nat] /\ head \in Nat
    BY <1>3, ReviewAssumption DEF Ends, Nobody, RInv, Typed, ReviewTypeOK
  <2>2. CallFits(h)'
    BY <2>1, IdleCall DEF CallFits, Active
  <2>3. MergesFit'
    <3>1. \A g \in Reviews : Active(g)' => Active(g) /\ call'[g] = call[g]
      BY <2>1, IdleCall DEF Active
    <3> QED
      BY <1>1, <1>3, <3>1 DEF RInv, MergesFit
  <2>4. head' >= head /\ \A t \in Ids : merges'[t] >= merges[t]
    BY <1>1, <2>1
  <2> QED
    BY <1>1, <1>3, <2>1, <2>2, <2>3, <2>4, CallStep
<1>4. CASE Sets(h, Review("integrating", 0, FALSE), TRUE) /\ Goto(h, "checking")
  BY <1>1, <1>2, <1>4, ReviewIn, AnswerStep
<1>5. CASE Sets(h, call[h].prev, FALSE) /\ Ends(h)
  <2>1. call[h] \in MergeCalls
    BY <1>1, ActiveCall DEF RInv
  <2>2. call[h].prev \in Revs /\ call[h].prev.st \notin {"confirmed", "retracted"}
    BY <2>1 DEF MergeCalls, Revs
  <2> QED
    BY <1>1, <1>5, <2>2, AnswerStep
<1> QED
  BY <1>3, <1>4, <1>5 DEF Answer

LEMMA MergeFailsGood == ASSUME RInv, NEW h \in Reviews, MergeFails(h) PROVE RInv'
<1>1. Quiet /\ Active(h) /\ UNCHANGED <<saved, git, env, rerun>> /\ Ends(h)
  BY DEF MergeFails, Active
<1>2. PICK isSaved \in BOOLEAN : Sets(h, Review("candidate", 0, FALSE), isSaved)
  BY DEF MergeFails
<1>3. 0 \in 0..N
  BY IdsAreNumbers
<1> QED
  BY <1>1, <1>2, <1>3, ReviewIn, AnswerStep

LEMMA MergedGood == ASSUME RInv, NEW h \in Reviews, Merged(h) PROVE RInv'
<1>1. Quiet /\ Active(h) /\ call[h].step = "merged" /\ UNCHANGED <<saved, git, env, rerun>> /\ Ends(h)
  BY DEF Merged, Active
<1>2. call[h].task \in Ids /\ CallFits(h)
  BY <1>1, ActiveCall DEF RInv
<1>3. call[h].task \in 0..N /\ 0 \in 0..N
  <2>1. Ids \subseteq 0..N /\ N \in Nat
    BY IdsAreNumbers
  <2>2. 0 \in 0..N
    BY <2>1
  <2>3. call[h].task \in 0..N
    BY <1>2, <2>1, Zenon
  <2> QED
    BY <2>2, <2>3
<1>4. CASE Sets(h, Review("confirmed", 0, TRUE), TRUE)
  <2>1. Late' \/ merges[call[h].task] > 0
    BY <1>1, <1>2, <1>4 DEF RInv, MergesFit, CallFits, Sets, Late
  <2> QED
    BY <1>1, <1>3, <1>4, <2>1, ReviewIn, AnswerStep
<1>5. CASE Sets(h, Review("integrating", 0, TRUE), FALSE)
  BY <1>1, <1>3, <1>5, ReviewIn, AnswerStep
<1>6. ASSUME NEW isSaved \in BOOLEAN, Sets(h, Review("needs_recheck", call[h].task, TRUE), isSaved)
      PROVE  RInv'
  BY <1>1, <1>3, <1>6, ReviewIn, AnswerStep
<1> QED
  BY <1>4, <1>5, <1>6 DEF Merged

LEMMA MergeCheckGood == ASSUME RInv, NEW h \in Reviews, MergeCheck(h) PROVE RInv'
<1> DEFINE c == [call[h] EXCEPT !.step = "merging"]
<1> SUFFICES ASSUME NEW t, t = call[h].task
             PROVE  RInv'
  OBVIOUS
<1>1. /\ Quiet /\ Active(h) /\ head = call[h].head
      /\ wt[t] = "pending" \/ (wt[t] = "clean" /\ merges[t] = 0)
      /\ wt' = [wt EXCEPT ![t] = IF wt[t] = "pending" THEN "moved" ELSE wt[t]]
      /\ call' = [call EXCEPT ![h] = c] /\ UNCHANGED waiting
      /\ UNCHANGED <<result, saved, writes, merges, head, env, rerun, lapses>>
  BY DEF MergeCheck, Active, Goto
<1>2. /\ call[h] \in MergeCalls /\ t \in Ids /\ CallFits(h) /\ call \in [Reviews -> MergeCalls \cup {NoCall}]
      /\ wt \in [Ids -> {"pending", "clean", "moved"}] /\ merges \in [Ids -> Nat] /\ head \in Nat
  BY <1>1, ActiveCall DEF RInv, Typed, ReviewTypeOK
<1>3. /\ c \in MergeCalls /\ c.step = "merging" /\ c.task = t
      /\ c.attempt = call[h].attempt /\ c.head = call[h].head
  BY <1>2 DEF MergeCalls
<1> HIDE DEF c
<1>4. /\ call'[h] = c /\ \A g \in Reviews \ {h} : call'[g] = call[g]
      /\ wt' \in [Ids -> {"pending", "clean", "moved"}] /\ wt'[t] # "pending"
      /\ \A u \in Ids : wt'[u] = "pending" => wt[u] = "pending"
  BY <1>1, <1>2
<1>5. CallFits(h)'
  BY <1>1, <1>2, <1>3, <1>4 DEF CallFits, Active, Late
<1>6. MergesFit'
  <2>1. ASSUME NEW g \in Reviews, Active(g)', call'[g].attempt = result'[call'[g].task].attempt
        PROVE  /\ call'[g].step = "merging" => wt'[call'[g].task] # "pending" /\ (head' = call'[g].head => merges'[call'[g].task] = 0)
               /\ call'[g].step = "merged" => merges'[call'[g].task] > 0
    <3>1. CASE g = h
      <4>1. merges[t] = 0
        BY <1>1, <1>2 DEF RInv, MergesFit
      <4> QED
        BY <1>1, <1>3, <1>4, <3>1, <4>1
    <3>2. CASE g # h
      <4>1. call'[g] = call[g] /\ Active(g)
        BY <1>4, <2>1, <3>2 DEF Active
      <4>2. call[g].task \in Ids
        BY <4>1, ActiveCall DEF RInv
      <4> QED
        BY <1>1, <1>4, <2>1, <4>1, <4>2 DEF RInv, MergesFit
    <3> QED
      BY <3>1, <3>2
  <2>2. \A u \in Ids : merges'[u] <= 1 /\ (wt'[u] = "pending" => merges'[u] = 0)
    BY <1>1, <1>4 DEF RInv, MergesFit
  <2> QED
    BY <2>1, <2>2 DEF MergesFit
<1>7. head' >= head /\ \A u \in Ids : merges'[u] >= merges[u]
  BY <1>1, <1>2
<1> QED
  BY <1>1, <1>2, <1>3, <1>4, <1>5, <1>6, <1>7, CallStep

LEMMA MergeGood == ASSUME RInv, NEW h \in Reviews, Merge(h) PROVE RInv'
<1> DEFINE c == [call[h] EXCEPT !.step = "merged"]
<1> SUFFICES ASSUME NEW t, t = call[h].task
             PROVE  RInv'
  OBVIOUS
<1>1. /\ Quiet /\ Active(h) /\ head = call[h].head /\ call[h].step = "merging"
      /\ merges' = [merges EXCEPT ![t] = IF result[t].attempt = call[h].attempt THEN @ + 1 ELSE @]
      /\ head' = head + 1
      /\ call' = [call EXCEPT ![h] = c] /\ UNCHANGED waiting
      /\ UNCHANGED <<result, saved, writes, wt, env, rerun, lapses>>
  BY DEF Merge, Active, Goto
<1>2. /\ call[h] \in MergeCalls /\ t \in Ids /\ CallFits(h) /\ call \in [Reviews -> MergeCalls \cup {NoCall}]
      /\ wt \in [Ids -> {"pending", "clean", "moved"}] /\ merges \in [Ids -> Nat] /\ head \in Nat
  BY <1>1, ActiveCall DEF RInv, Typed, ReviewTypeOK
<1>3. /\ c \in MergeCalls /\ c.step = "merged" /\ c.task = t
      /\ c.attempt = call[h].attempt /\ c.head = call[h].head
  BY <1>2 DEF MergeCalls
<1> HIDE DEF c
<1>4. /\ call'[h] = c /\ \A g \in Reviews \ {h} : call'[g] = call[g]
      /\ merges' \in [Ids -> Nat] /\ \A u \in Ids : merges'[u] >= merges[u]
      /\ \A u \in Ids \ {t} : merges'[u] = merges[u]
      /\ merges'[t] = IF result[t].attempt = call[h].attempt THEN merges[t] + 1 ELSE merges[t]
      /\ head' \in Nat /\ head' >= head
  BY <1>1, <1>2
<1>5. CallFits(h)'
  BY <1>1, <1>2, <1>3, <1>4 DEF CallFits, Active, Late
<1>6. call[h].attempt = result[t].attempt => merges[t] = 0 /\ wt[t] # "pending"
  BY <1>1 DEF RInv, MergesFit
<1>7. MergesFit'
  <2>1. ASSUME NEW g \in Reviews, Active(g)', call'[g].attempt = result'[call'[g].task].attempt
        PROVE  /\ call'[g].step = "merging" => wt'[call'[g].task] # "pending" /\ (head' = call'[g].head => merges'[call'[g].task] = 0)
               /\ call'[g].step = "merged" => merges'[call'[g].task] > 0
    <3>1. CASE g = h
      BY <1>1, <1>2, <1>3, <1>4, <2>1, <3>1
    <3>2. CASE g # h
      <4>1. call'[g] = call[g] /\ Active(g) /\ CallFits(g)
        BY <1>4, <2>1, <3>2 DEF Active, RInv
      <4>2. call[g].task \in Ids /\ call[g].head \in Nat
        BY <4>1, ActiveCall DEF RInv
      <4>3. head' # call[g].head
        BY <1>1, <1>2, <4>1, <4>2 DEF CallFits
      <4>4. call[g].step = "merged" => merges'[call[g].task] > 0
        BY <1>1, <1>2, <1>4, <2>1, <4>1, <4>2 DEF RInv, MergesFit
      <4>5. call[g].step = "merging" => wt[call[g].task] # "pending"
        BY <1>1, <2>1, <4>1 DEF RInv, MergesFit
      <4> QED
        BY <1>1, <4>1, <4>3, <4>4, <4>5
    <3> QED
      BY <3>1, <3>2
  <2>2. \A u \in Ids : merges'[u] <= 1 /\ (wt'[u] = "pending" => merges'[u] = 0)
    BY <1>1, <1>2, <1>4, <1>6 DEF RInv, MergesFit
  <2> QED
    BY <2>1, <2>2 DEF MergesFit
<1> QED
  BY <1>1, <1>2, <1>3, <1>4, <1>5, <1>7, CallStep

-----------------------------------------------------------------------------
(* Retries.                                                                 *)

LEMMA RerunIs ==
  ASSUME RInv, rerun # 0
  PROVE  rerun \in Ids /\ waiting = Nobody /\ result[rerun] \in Recs
BY ReviewAssumption DEF RInv, Typed, ReviewTypeOK, Ids

LEMMA InspectRetryGood == ASSUME RInv, NEW t \in Ids, InspectRetry(t) PROVE RInv'
<1>1. /\ waiting = Nobody /\ rerun' = t /\ result[t].attempt < MaxAttempts
      /\ UNCHANGED <<result, saved, writes, wt, merges, head, current, call, waiting, lapses>>
  BY DEF InspectRetry, Free, git, env
<1>2. RecsOk' /\ ViewsFit'
  BY <1>1, SameRecords DEF RInv, Typed, ReviewTypeOK
<1>3. Typed' /\ MergesFit' /\ RerunFits'
  BY <1>1, IdsAreNumbers DEF RInv, Typed, ReviewTypeOK, RerunFits, MergesFit, Active
<1>4. \A g \in Reviews : CallFits(g)'
  BY <1>1 DEF RInv, CallFits, Active, Late
<1> QED
  BY <1>2, <1>3, <1>4 DEF RInv

LEMMA RetryRefusedGood == ASSUME RInv, RetryRefused PROVE RInv'
<1>1. /\ rerun' = 0
      /\ UNCHANGED <<result, saved, writes, wt, merges, head, current, call, waiting, lapses>>
  BY DEF RetryRefused, git, env
<1>2. RecsOk' /\ ViewsFit'
  BY <1>1, SameRecords DEF RInv, Typed, ReviewTypeOK
<1>3. Typed' /\ MergesFit' /\ RerunFits'
  BY <1>1, IdsAreNumbers DEF RInv, Typed, ReviewTypeOK, RerunFits, MergesFit, Active
<1>4. \A g \in Reviews : CallFits(g)'
  BY <1>1 DEF RInv, CallFits, Active, Late
<1> QED
  BY <1>2, <1>3, <1>4 DEF RInv

(* A step of a retry that leaves the attempt as it is.                      *)
LEMMA RetryStep ==
  ASSUME RInv, Quiet, rerun # 0, UNCHANGED <<saved, git, env, call, waiting, lapses>>,
         rerun' = 0 \/ (rerun' = rerun /\ result'[rerun].phase \in {"queued", "running"}),
         result' \in [Ids -> Recs], FreshWrites(writes', result'), AllSound',
         \A t \in Ids : Follows(result[t], result'[t]) /\ Keeps(result[t], result'[t])
  PROVE  RInv'
<1>1. /\ waiting = Nobody /\ UNCHANGED <<merges, wt, head, current>> /\ Late' = Late
  BY RerunIs DEF git, env, Late
<1>2. RecsOk' /\ ViewsFit'
  BY <1>1, FreshKeepsRecords
<1>3. MergesFit' /\ \A h \in Reviews : CallFits(h)'
  BY <1>1, FollowKeepsCalls
<1>4. Typed'
  BY <1>1, IdsAreNumbers DEF RInv, Typed, ReviewTypeOK, FreshWrites
<1>5. RerunFits'
  BY DEF RerunFits
<1> QED
  BY <1>2, <1>3, <1>4, <1>5 DEF RInv

LEMMA TakenBackIs ==
  ASSUME RInv, NEW t \in Ids
  PROVE  /\ TakenBack(t) \in [Ids -> Recs]
         /\ \A u \in Ids \ {t} : TakenBack(t)[u] = result[u] \/ Marked(result[u], TakenBack(t)[u])
         /\ TakenBack(t)[t].phase = result[t].phase /\ TakenBack(t)[t].attempt = result[t].attempt
         /\ TakenBack(t)[t].rev.st = "retracted"
<1>1. result \in [Ids -> Recs]
  BY DEF RInv, Typed, ReviewTypeOK
<1>2. Marks(result, Invalidate(result, t))
  BY <1>1, InvalidateMarks
<1> DEFINE inv == Invalidate(result, t)
<1> HIDE DEF inv
<1>3. /\ inv \in [Ids -> Recs] /\ \A u \in Ids : inv[u] = result[u] \/ Marked(result[u], inv[u])
      /\ TakenBack(t) = WithReview(inv, t, Review("retracted", 0, FALSE))
  BY <1>2 DEF Marks, TakenBack, inv
<1>4. /\ TakenBack(t) \in [Ids -> Recs]
      /\ \A u \in Ids \ {t} : TakenBack(t)[u] = inv[u]
      /\ TakenBack(t)[t].phase = inv[t].phase /\ TakenBack(t)[t].attempt = inv[t].attempt
      /\ TakenBack(t)[t].rev.st = "retracted"
  <2> DEFINE new == WithReview(inv, t, Review("retracted", 0, FALSE))
  <2>1. /\ new \in [Ids -> Recs]
        /\ \A u \in Ids \ {t} : new[u] = inv[u]
        /\ new[t].phase = inv[t].phase /\ new[t].attempt = inv[t].attempt
        /\ new[t].rev.st = "retracted" /\ ~new[t].rev.merged
    BY <1>3, ReviewedRecord
  <2> QED
    BY <1>3, <2>1
<1>5. inv[t].phase = result[t].phase /\ inv[t].attempt = result[t].attempt
  BY <1>3 DEF Marked
<1> QED
  BY <1>3, <1>4, <1>5

LEMMA QueuedAgainIs ==
  ASSUME RInv, NEW t \in Ids, result[t].attempt < MaxAttempts
  PROVE  /\ QueuedAgain(t) \in Recs /\ QueuedAgain(t).phase = "queued"
         /\ QueuedAgain(t).attempt = result[t].attempt + 1 /\ QueuedAgain(t).rev.st = "none"
<1>1. result[t].attempt \in 1..MaxAttempts /\ MaxAttempts \in Nat /\ 0 \in 0..N
  BY ReviewAssumption DEF RInv, Typed, ReviewTypeOK, Recs
<1>2. result[t].attempt + 1 \in 1..MaxAttempts
  BY <1>1
<1> QED
  BY <1>1, <1>2 DEF QueuedAgain, Recs, Review

LEMMA RetryGoGood == ASSUME RInv, RetryGo PROVE RInv'
<1> SUFFICES ASSUME NEW t, t = rerun, NEW tk, tk = TakenBack(t)
             PROVE  RInv'
  OBVIOUS
<1> DEFINE marks == {ViewWrite(u, tk[u], Distance(result, t, u)) : u \in {v \in Ids \ {t} : tk[v] # result[v]}}
           retraction == ViewWrite(t, tk[t], N + 1)
           again == QueuedAgain(t)
           queue == ViewWrite(t, again, N + 2)
<1>1. /\ Quiet /\ t # 0 /\ t \in Ids /\ result[t].phase \in {"done", "failed"} /\ waiting = Nobody
      /\ result[t].attempt < MaxAttempts
      /\ UNCHANGED <<saved, git, env, call, waiting, lapses>>
  BY RerunIs DEF RetryGo, RInv, RerunFits
<1>2. \/ result' = tk /\ rerun' = 0 /\ writes' = marks \cup {retraction}
      \/ result' = [tk EXCEPT ![t] = again] /\ rerun' = rerun /\ writes' = marks \cup {retraction, queue}
  BY DEF RetryGo
<1>3. /\ tk \in [Ids -> Recs] /\ tk[t].phase = result[t].phase /\ tk[t].attempt = result[t].attempt
      /\ tk[t].rev.st = "retracted"
      /\ \A u \in Ids \ {t} : tk[u] = result[u] \/ Marked(result[u], tk[u])
  BY <1>1, TakenBackIs
<1>4. /\ again \in Recs /\ again.phase = "queued"
      /\ again.attempt = result[t].attempt + 1 /\ again.rev.st = "none"
  BY <1>1, QueuedAgainIs
<1>5. N \in Nat /\ Ids \subseteq 0..N /\ Late' = Late /\ UNCHANGED <<merges, wt, head, current>>
  BY <1>1, IdsAreNumbers DEF Late, git, env
<1>6. /\ marks \subseteq [task : Ids, rec : Recs, rank : 0..N + 2]
      /\ \A w \in marks : w.task # t /\ w.rec = tk[w.task] /\ w.rank <= N
      /\ \A v, w \in marks : v.task = w.task => v = w
  <2>1. \A u \in Ids : Distance(result, t, u) \in 0..N
    BY DistanceIn
  <2> QED
    BY <1>3, <1>5, <2>1 DEF ViewWrite
<1>7. /\ retraction \in [task : Ids, rec : Recs, rank : 0..N + 2]
      /\ retraction.task = t /\ retraction.rec = tk[t] /\ retraction.rank = N + 1
  BY <1>1, <1>3, <1>5 DEF ViewWrite
<1>8. /\ queue \in [task : Ids, rec : Recs, rank : 0..N + 2]
      /\ queue.task = t /\ queue.rec = again /\ queue.rank = N + 2
  BY <1>1, <1>4, <1>5 DEF ViewWrite
<1> HIDE DEF marks, retraction, queue, again
<1>9. \A u \in Ids : Follows(result[u], tk[u]) /\ Keeps(result[u], tk[u])
  BY <1>3, MarkedFollows DEF Follows, Keeps
<1>10. \A u \in Ids : Sound(u, result[u])
  BY DEF RInv, RecsOk, RecOk
<1>11. \A u \in Ids : Sound(u, tk[u])
  BY <1>1, <1>3, <1>10 DEF Sound, Marked
<1>12. CASE result' = tk /\ rerun' = 0 /\ writes' = marks \cup {retraction}
  <2>1. AllSound'
    <3>1. \A u \in Ids : Sound(u, result[u])'
      BY <1>5, <1>11, <1>12 DEF Sound
    <3> QED
      BY <3>1 DEF AllSound
  <2>2. FreshWrites(writes', result')
    BY <1>6, <1>7, <1>12 DEF FreshWrites
  <2> QED
    BY <1>1, <1>3, <1>9, <1>12, <2>1, <2>2, RetryStep
<1>13. CASE result' = [tk EXCEPT ![t] = again] /\ rerun' = rerun /\ writes' = marks \cup {retraction, queue}
  <2>1. /\ result' \in [Ids -> Recs] /\ result'[t] = again
        /\ \A u \in Ids \ {t} : result'[u] = tk[u]
        /\ writes' \subseteq [task : Ids, rec : Recs, rank : 0..N + 2]
    BY <1>1, <1>3, <1>4, <1>6, <1>7, <1>8, <1>13
  <2>2. /\ SavedOk /\ (Late \/ \A u \in Ids : saved[u].attempt = result[u].attempt)
        /\ \A u \in Ids : saved[u].attempt \in Nat /\ result[u].attempt \in Nat
    BY <1>1, SavedInStep
  <2>3. \A u \in Ids : RecOk(u, saved[u])'
    BY <1>1, <1>4, <1>5, <1>9, <2>1, <2>2 DEF SavedOk, RecOk, Sound, Past, Follows, Keeps
  <2>4. \A u \in Ids : RecOk(u, result[u])' /\ result'[u].attempt \in Nat
    BY <1>4, <1>5, <1>11, <2>1, <2>2, <1>3 DEF RecOk, Sound, Past, Recs
  <2>5. \A w \in writes' : RecOk(w.task, w.rec)'
    <3>1. RecOk(t, tk[t])'
      BY <1>1, <1>3, <1>4, <1>5, <1>11, <2>1, <2>2 DEF RecOk, Sound, Past
    <3>2. ASSUME NEW w \in marks PROVE RecOk(w.task, w.rec)'
      <4>1. w.task \in Ids \ {t} /\ w.rec = result'[w.task]
        BY <1>6, <2>1
      <4> QED
        BY <2>4, <4>1 DEF RecOk, Sound, Past
    <3> QED
      BY <1>1, <1>7, <1>8, <1>13, <2>1, <2>4, <3>1, <3>2 DEF RecOk, Sound, Past
  <2>6. RecsOk'
    BY <2>3, <2>4, <2>5 DEF RecsOk
  <2>7. ViewsFit'
    <3> SUFFICES ASSUME ~Late PROVE InOrder' /\ \A u \in Ids : InStep(u)'
      BY <1>5 DEF ViewsFit
    <3>1. InStep(t)'
      BY <1>4, <1>5, <1>6, <1>7, <1>8, <1>13, <2>1 DEF InStep
    <3>2. ASSUME NEW u \in Ids \ {t} PROVE InStep(u)'
      <4>1. saved'[u].attempt = result'[u].attempt
        BY <1>1, <1>9, <2>1, <2>2 DEF Follows
      <4> QED
        BY <1>6, <1>7, <1>8, <1>13, <2>1, <4>1 DEF InStep
    <3>3. ASSUME NEW w \in writes' PROVE Replaces(w.rec, saved'[w.task])
      <4>1. CASE w \in marks
        <5>1. w.task \in Ids \ {t} /\ w.rec = result'[w.task]
          BY <1>6, <2>1, <4>1
        <5> QED
          BY <1>1, <1>5, <1>9, <2>1, <2>2, <2>3, <5>1 DEF Replaces, RecOk, Past, Follows
      <4>2. CASE w \in {retraction, queue}
        BY <1>1, <1>3, <1>4, <1>7, <1>8, <2>2, <4>2 DEF Replaces
      <4> QED
        BY <1>13, <4>1, <4>2
    <3>4. ASSUME NEW v \in writes', NEW w \in writes', v.task = w.task, v.rank <= w.rank, v # w
          PROVE  Replaces(w.rec, v.rec)
      <4>1. v = retraction /\ w = queue
        BY <1>5, <1>6, <1>7, <1>8, <1>13, <3>4
      <4> QED
        BY <1>3, <1>4, <1>7, <1>8, <2>2, <4>1, <1>1 DEF Replaces
    <3> QED
      BY <3>1, <3>2, <3>3, <3>4 DEF InOrder
  <2>8. \A h \in Reviews : Active(h) =>
          /\ call[h].task \in Ids /\ CallFits(h)
          /\ call[h].attempt = result'[call[h].task].attempt =>
               call[h].task # t /\ call[h].attempt = result[call[h].task].attempt
    <3>1. ASSUME NEW h \in Reviews, Active(h) PROVE call[h].task \in Ids /\ CallFits(h) /\ call[h].attempt \in Nat
      BY <3>1, ActiveCall DEF RInv
    <3>2. \A u \in Ids \ {t} : result'[u].attempt = result[u].attempt
      BY <1>9, <2>1 DEF Follows
    <3> QED
      BY <1>1, <1>4, <2>1, <2>2, <3>1, <3>2 DEF CallFits
  <2>9. \A h \in Reviews : CallFits(h)'
    <3>1. ASSUME NEW h \in Reviews PROVE CallFits(h)'
      <4>1. waiting' # h
        BY <1>1, ReviewAssumption DEF Nobody
      <4>2. ASSUME Active(h) PROVE call[h].attempt <= result'[call[h].task].attempt
        BY <1>1, <1>4, <1>9, <2>1, <2>2, <2>8, <4>2, ActiveCall DEF CallFits, Follows, RInv
      <4>3. ASSUME Active(h), call[h].attempt = result'[call[h].task].attempt
            PROVE  result'[call[h].task].phase = "done"
        BY <1>9, <2>1, <2>8, <4>3 DEF CallFits, Follows
      <4> QED
        BY <1>1, <1>5, <2>8, <4>1, <4>2, <4>3 DEF CallFits, Active
    <3> QED
      BY <3>1
  <2>10. MergesFit'
    BY <1>1, <1>5, <2>8 DEF RInv, MergesFit, Active
  <2>11. Typed'
    BY <1>1, <1>5, <1>13, <2>1 DEF RInv, Typed, ReviewTypeOK
  <2>12. RerunFits'
    BY <1>4, <1>13, <2>1 DEF RerunFits
  <2> QED
    BY <2>6, <2>7, <2>9, <2>10, <2>11, <2>12 DEF RInv
<1> QED
  BY <1>2, <1>12, <1>13

With(r, p, rv) == [r EXCEPT !.phase = p, !.rev = rv]

LEMMA PlainReview ==
  ASSUME NEW st \in {"none", "pending", "candidate", "needs_recheck", "confirmed",
                     "retracted", "integrating"}
  PROVE  Review(st, 0, FALSE) \in Revs /\ Review(st, 0, FALSE).st = st
<1>1. 0 \in 0..N
  BY IdsAreNumbers
<1> QED
  BY <1>1, ReviewIn

LEMMA ExecuteAgainGood == ASSUME RInv, ExecuteAgain PROVE RInv'
<1> SUFFICES ASSUME NEW t, t = rerun PROVE RInv'
  OBVIOUS
<1>1. /\ Quiet /\ t # 0 /\ t \in Ids /\ result[t].phase = "queued" /\ waiting = Nobody
      /\ UNCHANGED <<saved, git, env, call, waiting, lapses>>
  BY RerunIs DEF ExecuteAgain
<1>2. /\ result \in [Ids -> Recs] /\ \A u \in Ids : Sound(u, result[u])
      /\ UNCHANGED merges /\ Late' = Late
  BY <1>1 DEF RInv, Typed, ReviewTypeOK, RecsOk, RecOk, git, Late
<1>3. result[t].rev.st \notin {"retracted", "confirmed"}
  BY <1>1, <1>2 DEF Sound
<1>4. CASE DepsShareable(t)
  <2> DEFINE new == [result EXCEPT ![t].phase = "running", ![t].rev = Review("pending", 0, FALSE)]
             rec == With(result[t], "running", Review("pending", 0, FALSE))
  <2>1. new = [result EXCEPT ![t] = rec]
    BY DEF With
  <2>2. rec \in Recs /\ rec.phase = "running" /\ rec.attempt = result[t].attempt /\ rec.rev.st = "pending"
    <3>1. PICK rv \in Revs : rv = Review("pending", 0, FALSE) /\ rv.st = "pending"
      BY PlainReview
    <3>2. result[t] \in Recs /\ rec = With(result[t], "running", rv)
      BY <1>1, <1>2, <3>1
    <3>3. /\ With(result[t], "running", rv) \in Recs /\ With(result[t], "running", rv).phase = "running"
          /\ With(result[t], "running", rv).attempt = result[t].attempt /\ With(result[t], "running", rv).rev = rv
      BY <3>2 DEF Recs, Revs, With
    <3> QED
      BY <3>1, <3>2, <3>3
  <2>3. result' = new /\ writes' = Changed(new, t) /\ rerun' = rerun
    BY <1>4 DEF ExecuteAgain, Becomes
  <2> HIDE DEF new, rec
  <2>4. new \in [Ids -> Recs] /\ new[t] = rec /\ \A u \in Ids \ {t} : new[u] = result[u]
    BY <1>1, <1>2, <2>1, <2>2
  <2>5. \A u \in Ids : Follows(result[u], new[u]) /\ Keeps(result[u], new[u])
    BY <1>1, <1>3, <2>2, <2>4 DEF Follows, Keeps
  <2>6. AllSound'
    <3>1. \A u \in Ids : Sound(u, result[u])'
      BY <1>2, <2>2, <2>3, <2>4 DEF Sound
    <3> QED
      BY <3>1 DEF AllSound
  <2> QED
    BY <1>1, <2>2, <2>3, <2>4, <2>5, <2>6, ChangedAreFresh, RetryStep
<1>5. CASE ~DepsShareable(t)
  <2> DEFINE tk == MarkBadDep(t)
             new == [tk EXCEPT ![t].phase = "failed"]
             rec == [tk[t] EXCEPT !.phase = "failed"]
  <2>1. Marks(result, tk)
    BY <1>1, <1>2, <1>5, MarkBadDepMarks
  <2>2. result' = new /\ writes' = Changed(new, FirstBad(t)) /\ rerun' = 0
    BY <1>5 DEF ExecuteAgain, Becomes
  <2>3. new = [tk EXCEPT ![t] = rec]
    OBVIOUS
  <2> HIDE DEF new, tk
  <2>4. tk \in [Ids -> Recs] /\ \A u \in Ids : tk[u] = result[u] \/ Marked(result[u], tk[u])
    BY <2>1 DEF Marks
  <2>5. rec \in Recs /\ rec.phase = "failed" /\ rec.attempt = tk[t].attempt /\ rec.rev = tk[t].rev
    BY <1>1, <2>4 DEF Recs
  <2> HIDE DEF rec
  <2>6. new \in [Ids -> Recs] /\ new[t] = rec /\ \A u \in Ids \ {t} : new[u] = tk[u]
    BY <1>1, <2>3, <2>4, <2>5
  <2>7. tk[t].rev.st # "confirmed" /\ tk[t].attempt = result[t].attempt
    BY <1>1, <1>3, <2>4 DEF Marked
  <2>8. \A u \in Ids : Follows(result[u], new[u]) /\ Keeps(result[u], new[u])
    BY <1>1, <1>3, <2>4, <2>5, <2>6, <2>7 DEF Follows, Keeps, Marked
  <2>9. AllSound'
    <3>1. \A u \in Ids : Sound(u, result[u])'
      BY <1>2, <2>2, <2>4, <2>5, <2>6, <2>7 DEF Sound, Marked
    <3> QED
      BY <3>1 DEF AllSound
  <2> QED
    BY <1>1, <2>2, <2>6, <2>8, <2>9, ChangedAreFresh, RetryStep
<1> QED
  BY <1>4, <1>5

LEMMA FinishGood == ASSUME RInv, Finish PROVE RInv'
<1> SUFFICES ASSUME NEW t, t = rerun PROVE RInv'
  OBVIOUS
<1>1. /\ Quiet /\ t # 0 /\ t \in Ids /\ result[t].phase = "running" /\ waiting = Nobody /\ rerun' = 0
      /\ UNCHANGED <<saved, head, edits, restarts, call, waiting, lapses>>
  BY RerunIs DEF Finish
<1>2. /\ result \in [Ids -> Recs] /\ \A u \in Ids : Sound(u, result[u]) /\ RecOk(u, saved[u])
      /\ Late' = Late
  BY <1>1 DEF RInv, Typed, ReviewTypeOK, RecsOk, RecOk, Late
<1>3. result[t].rev.st \notin {"retracted", "confirmed"}
  BY <1>1, <1>2 DEF Sound
<1>4. ASSUME NEW new \in [Ids -> Recs], result' = new, writes' = Changed(new, t),
             \A u \in Ids \ {t} : new[u] = result[u],
             new[t].attempt = result[t].attempt, new[t].rev.st \notin {"retracted", "confirmed"}
      PROVE  /\ \A u \in Ids : Follows(result[u], new[u]) /\ Keeps(result[u], new[u])
             /\ FreshWrites(writes', result')
             /\ \A u \in Ids : merges'[u] = merges[u] \/ u = t => Sound(u, result[u])'
  <2>1. \A u \in Ids : Follows(result[u], new[u]) /\ Keeps(result[u], new[u])
    BY <1>1, <1>3, <1>4 DEF Follows, Keeps
  <2>2. \A u \in Ids : merges'[u] = merges[u] \/ u = t => Sound(u, result[u])'
    BY <1>2, <1>4 DEF Sound
  <2> QED
    BY <1>4, <2>1, <2>2, ChangedAreFresh
<1>5. CASE /\ Becomes([result EXCEPT ![t].phase = "failed", ![t].rev = Review("none", 0, FALSE)], t)
           /\ UNCHANGED <<current, wt, merges>>
  <2> DEFINE rec == With(result[t], "failed", Review("none", 0, FALSE))
             new == [result EXCEPT ![t] = rec]
  <2>1. rec \in Recs /\ rec.attempt = result[t].attempt /\ rec.rev.st = "none"
    <3>1. PICK rv \in Revs : rv = Review("none", 0, FALSE) /\ rv.st = "none"
      BY PlainReview
    <3>2. result[t] \in Recs /\ rec = With(result[t], "failed", rv)
      BY <1>1, <1>2, <3>1
    <3>3. /\ With(result[t], "failed", rv) \in Recs /\ With(result[t], "failed", rv).phase = "failed"
          /\ With(result[t], "failed", rv).attempt = result[t].attempt /\ With(result[t], "failed", rv).rev = rv
      BY <3>2 DEF Recs, Revs, With
    <3> QED
      BY <3>1, <3>2, <3>3
  <2>2. result' = new /\ writes' = Changed(new, t)
    BY <1>5 DEF Becomes, With
  <2> HIDE DEF rec
  <2>3. new \in [Ids -> Recs] /\ new[t] = rec /\ \A u \in Ids \ {t} : new[u] = result[u]
    BY <1>1, <1>2, <2>1
  <2> HIDE DEF new
  <2>4. /\ \A u \in Ids : Follows(result[u], new[u]) /\ Keeps(result[u], new[u])
        /\ FreshWrites(writes', result')
        /\ \A u \in Ids : Sound(u, result[u])'
    BY <1>4, <1>5, <2>1, <2>2, <2>3
  <2> QED
    BY <1>1, <1>5, <2>2, <2>3, <2>4, RetryStep DEF AllSound, git, env
<1>6. ASSUME NEW rec, NEW s \in {"pending", "clean"},
             rec = [result[t] EXCEPT !.phase = "done",
                      !.rev = IF @.st = "needs_recheck" THEN @ ELSE Review("candidate", 0, FALSE)],
             Becomes([result EXCEPT ![t] = rec], t),
             current' = [current EXCEPT ![t] = TRUE],
             wt' = [wt EXCEPT ![t] = s],
             merges' = [merges EXCEPT ![t] = 0]
      PROVE  RInv'
  <2> DEFINE new == [result EXCEPT ![t] = rec]
  <2>1. /\ rec \in Recs /\ rec.attempt = result[t].attempt /\ rec.phase = "done"
        /\ rec.rev.st \notin {"retracted", "confirmed"}
    <3> DEFINE rv == IF result[t].rev.st = "needs_recheck" THEN result[t].rev ELSE Review("candidate", 0, FALSE)
    <3>1. Review("candidate", 0, FALSE) \in Revs /\ Review("candidate", 0, FALSE).st = "candidate"
      BY PlainReview
    <3>2. result[t] \in Recs /\ result[t].rev \in Revs
      BY <1>1, <1>2 DEF Recs, Revs
    <3>3. rv \in Revs /\ rv.st \notin {"retracted", "confirmed"}
      BY <1>3, <3>1, <3>2
    <3>4. rec = With(result[t], "done", rv)
      BY <1>6, <3>2 DEF Recs, With
    <3> HIDE DEF rv
    <3>5. /\ With(result[t], "done", rv) \in Recs /\ With(result[t], "done", rv).phase = "done"
          /\ With(result[t], "done", rv).attempt = result[t].attempt /\ With(result[t], "done", rv).rev = rv
      BY <3>2, <3>3 DEF Recs, Revs, With
    <3> QED
      BY <3>3, <3>4, <3>5
  <2>2. result' = new /\ writes' = Changed(new, t)
    BY <1>6 DEF Becomes
  <2>3. new \in [Ids -> Recs] /\ new[t] = rec /\ \A u \in Ids \ {t} : new[u] = result[u]
    BY <1>1, <1>2, <2>1
  <2> HIDE DEF new
  <2>4. /\ wt \in [Ids -> {"pending", "clean", "moved"}] /\ merges \in [Ids -> Nat]
        /\ current \in [Ids -> BOOLEAN] /\ ReviewTypeOK
    BY DEF RInv, Typed, ReviewTypeOK
  <2>5. /\ merges' \in [Ids -> Nat] /\ merges'[t] = 0 /\ \A u \in Ids \ {t} : merges'[u] = merges[u] /\ wt'[u] = wt[u]
        /\ wt' \in [Ids -> {"pending", "clean", "moved"}] /\ current' \in [Ids -> BOOLEAN]
    BY <1>1, <1>6, <2>4
  <2>6. /\ \A u \in Ids : Follows(result[u], new[u]) /\ Keeps(result[u], new[u])
        /\ FreshWrites(writes', result')
        /\ \A u \in Ids : Sound(u, result[u])'
    BY <1>4, <2>1, <2>2, <2>3, <2>5
  <2>7. /\ (Late \/ \A u \in Ids : saved[u].attempt = result[u].attempt)
        /\ \A u \in Ids : saved[u].attempt \in Nat /\ result[u].attempt \in Nat
    BY <1>1, SavedInStep
  <2>8. Late \/ saved[t].rev.st # "confirmed"
    BY <1>1, <1>2, <2>7 DEF RecOk, Past
  <2>9. ASSUME NEW u \in Ids PROVE RecOk(u, saved[u])'
    <3>1. Sound(u, saved[u])'
      BY <1>1, <1>2, <2>5, <2>8 DEF RecOk, Sound
    <3>2. Past(u, saved[u])'
      BY <1>1, <1>2, <2>2, <2>6, <2>7 DEF RecOk, Past, Follows, Keeps
    <3> QED
      BY <3>1, <3>2 DEF RecOk
  <2>10. RecsOk' /\ ViewsFit'
    BY <1>1, <1>2, <2>2, <2>3, <2>6, <2>7, <2>9, FreshFit DEF AllSound, SavedOk, Follows
  <2>11. \A h \in Reviews : CallFits(h)'
    BY <1>1, <1>2, <2>2, <2>6, FollowKeepsFits
  <2>12. MergesFit'
    <3>1. ASSUME NEW h \in Reviews, Active(h), call[h].attempt = result'[call[h].task].attempt
          PROVE  /\ call[h].task \in Ids \ {t} /\ call[h].attempt = result[call[h].task].attempt
      BY <1>1, <2>2, <2>6, <3>1, ActiveCall DEF Follows, RInv, CallFits
    <3> QED
      BY <1>1, <2>5, <3>1 DEF RInv, MergesFit, Active
  <2>13. Typed'
    BY <1>1, <2>2, <2>3, <2>4, <2>5, <2>6, IdsAreNumbers DEF RInv, Typed, ReviewTypeOK, FreshWrites
  <2>14. RerunFits'
    BY <1>1 DEF RerunFits
  <2> QED
    BY <2>10, <2>11, <2>12, <2>13, <2>14 DEF RInv
<1>7. CASE \E s \in {"pending", "clean"} :
             /\ Becomes([result EXCEPT ![t].phase = "done",
                  ![t].rev = IF @.st = "needs_recheck" THEN @ ELSE Review("candidate", 0, FALSE)], t)
             /\ current' = [current EXCEPT ![t] = TRUE]
             /\ wt' = [wt EXCEPT ![t] = s]
             /\ merges' = [merges EXCEPT ![t] = 0]
  <2> DEFINE rec == [result[t] EXCEPT !.phase = "done",
                       !.rev = IF @.st = "needs_recheck" THEN @ ELSE Review("candidate", 0, FALSE)]
  <2>1. [result EXCEPT ![t].phase = "done",
           ![t].rev = IF @.st = "needs_recheck" THEN @ ELSE Review("candidate", 0, FALSE)]
        = [result EXCEPT ![t] = rec]
    OBVIOUS
  <2> QED
    BY <1>6, <1>7, <2>1
<1> QED
  BY <1>5, <1>7 DEF Finish

-----------------------------------------------------------------------------
(* The views, the world and crashes.                                        *)

LEMMA WriteOf ==
  ASSUME RInv, NEW w \in writes
  PROVE  /\ w.task \in Ids /\ w.rec \in Recs /\ w.rank \in Nat /\ RecOk(w.task, w.rec)
         /\ result[w.task].attempt \in Nat /\ saved[w.task].attempt \in Nat /\ w.rec.attempt \in Nat
<1>1. w \in [task : Ids, rec : Recs, rank : 0..N + 2] /\ RecOk(w.task, w.rec)
  BY DEF RInv, Typed, ReviewTypeOK, RecsOk
<1>2. w.task \in Ids /\ w.rec \in Recs /\ w.rank \in Nat
  BY <1>1, IdsAreNumbers
<1>3. result[w.task] \in Recs /\ saved[w.task] \in Recs
  BY <1>2 DEF RInv, Typed, ReviewTypeOK
<1>4. \A r \in Recs : r.attempt \in Nat
  BY DEF Recs
<1> QED
  BY <1>1, <1>2, <1>3, <1>4

LEMMA FlushGood == ASSUME RInv, Flush PROVE RInv'
<1>1. PICK w \in writes :
         /\ \A v \in writes : w.rank <= v.rank
         /\ saved' = [saved EXCEPT ![w.task] = w.rec]
         /\ writes' = writes \ {w}
  BY DEF Flush
<1>2. UNCHANGED <<result, wt, merges, head, current, call, waiting, rerun, lapses>> /\ Late' = Late
  BY DEF Flush, git, env, Late
<1>3. /\ w.task \in Ids /\ w.rec \in Recs /\ w.rank \in Nat /\ RecOk(w.task, w.rec)
      /\ result[w.task].attempt \in Nat
  BY WriteOf
<1>4. /\ saved \in [Ids -> Recs] /\ saved' \in [Ids -> Recs] /\ saved'[w.task] = w.rec
      /\ \A u \in Ids \ {w.task} : saved'[u] = saved[u]
  BY <1>1, <1>3 DEF RInv, Typed, ReviewTypeOK
<1>5. ASSUME NEW u \in Ids, NEW r, RecOk(u, r) PROVE RecOk(u, r)'
  BY <1>2, <1>5 DEF RecOk, Sound, Past
<1>6. RecsOk'
  <2>1. \A u \in Ids : RecOk(u, saved'[u])
    BY <1>3, <1>4 DEF RInv, RecsOk
  <2>2. ASSUME NEW u \in Ids PROVE RecOk(u, saved[u])'
    BY <1>2, <2>1 DEF RecOk, Sound, Past
  <2>3. \A u \in Ids : RecOk(u, result[u])'
    BY <1>2, <1>5 DEF RInv, RecsOk
  <2>4. \A v \in writes' : RecOk(v.task, v.rec)'
    BY <1>1, <1>5, WriteOf
  <2> QED
    BY <2>2, <2>3, <2>4 DEF RecsOk
<1>7. ViewsFit'
  <2> SUFFICES ASSUME ~Late PROVE InOrder' /\ \A u \in Ids : InStep(u)'
    BY <1>2 DEF ViewsFit
  <2>1. InOrder /\ \A u \in Ids : InStep(u)
    BY DEF RInv, ViewsFit
  <2>2. ASSUME NEW v \in writes' PROVE Replaces(v.rec, saved'[v.task])
    BY <1>1, <1>4, <2>1, WriteOf DEF InOrder
  <2>3. InOrder'
    BY <1>1, <2>1, <2>2 DEF InOrder
  <2>4. ASSUME NEW u \in Ids PROVE InStep(u)'
    <3>1. CASE /\ saved[u].attempt = result[u].attempt
               /\ \A v \in writes : v.task = u => v.rec.attempt = result[u].attempt
      BY <1>1, <1>2, <1>4, <3>1 DEF InStep
    <3>2. ASSUME NEW q \in writes, q.task = u, q.rank = N + 2,
                 q.rec.attempt = result[u].attempt, q.rec.rev.st = "none",
                 \A v \in writes : v.task = u /\ v # q => v.rank < N + 2
          PROVE  InStep(u)'
      <4>1. CASE q = w
        <5>1. \A v \in writes' : v.task # u
          BY <1>1, <3>2, <4>1, WriteOf, IdsAreNumbers
        <5> QED
          BY <1>2, <1>4, <3>2, <4>1, <5>1 DEF InStep
      <4>2. CASE q # w
        BY <1>1, <1>2, <3>2, <4>2 DEF InStep
      <4> QED
        BY <4>1, <4>2
    <3> QED
      BY <2>1, <3>1, <3>2 DEF InStep
  <2> QED
    BY <2>3, <2>4
<1>8. Typed' /\ RerunFits' /\ MergesFit'
  BY <1>1, <1>2, <1>4 DEF RInv, Typed, ReviewTypeOK, RerunFits, MergesFit, Active
<1>9. \A h \in Reviews : CallFits(h)'
  BY <1>2 DEF RInv, CallFits, Active
<1> QED
  BY <1>6, <1>7, <1>8, <1>9 DEF RInv

LEMMA LoseWriteGood == ASSUME RInv, LoseWrite PROVE RInv'
<1>1. PICK w \in writes :
         /\ w.rec.rev.st = "needs_recheck" \/ (w.rank = N + 1 /\ writes = {w})
         /\ writes' = writes \ {w}
  BY DEF LoseWrite
<1>2. /\ UNCHANGED <<result, saved, wt, merges, head, current, call, waiting, rerun>>
      /\ ~Late /\ ~Late' /\ lapses' \subseteq {"late", "lost", "cut"}
  BY DEF LoseWrite, git, env, Late
<1>3. RecsOk'
  <2>1. ASSUME NEW u \in Ids, NEW r, RecOk(u, r) PROVE RecOk(u, r)'
    BY <1>2, <2>1 DEF RecOk, Sound, Past
  <2>2. \A u \in Ids : RecOk(u, result[u])' /\ RecOk(u, saved[u])'
    BY <1>2, <2>1 DEF RInv, RecsOk
  <2>3. \A v \in writes' : RecOk(v.task, v.rec)'
    BY <1>1, <2>1, WriteOf
  <2> QED
    BY <2>2, <2>3 DEF RecsOk
<1>4. ViewsFit'
  <2>1. InOrder /\ \A u \in Ids : InStep(u)
    BY <1>2 DEF RInv, ViewsFit
  <2>2. InOrder'
    BY <1>1, <1>2, <2>1 DEF InOrder
  <2>3. ASSUME NEW u \in Ids PROVE InStep(u)'
    <3>1. CASE /\ saved[u].attempt = result[u].attempt
               /\ \A v \in writes : v.task = u => v.rec.attempt = result[u].attempt
      BY <1>1, <1>2, <3>1 DEF InStep
    <3>2. ASSUME NEW q \in writes, q.task = u, q.rank = N + 2,
                 q.rec.attempt = result[u].attempt, q.rec.rev.st = "none",
                 \A v \in writes : v.task = u /\ v # q => v.rank < N + 2
          PROVE  InStep(u)'
      <4>1. q # w
        BY <1>1, <3>2, IdsAreNumbers
      <4> QED
        BY <1>1, <1>2, <3>2, <4>1 DEF InStep
    <3> QED
      BY <2>1, <3>1, <3>2 DEF InStep
  <2> QED
    BY <2>2, <2>3 DEF ViewsFit
<1>5. Typed' /\ RerunFits' /\ MergesFit'
  BY <1>1, <1>2 DEF RInv, Typed, ReviewTypeOK, RerunFits, MergesFit, Active
<1>6. \A h \in Reviews : CallFits(h)'
  BY <1>2 DEF RInv, CallFits, Active
<1> QED
  BY <1>3, <1>4, <1>5, <1>6 DEF RInv

LEMMA EditGood == ASSUME RInv, NEW t \in Ids, Edit(t) PROVE RInv'
<1>1. /\ UNCHANGED <<result, saved, writes, wt, merges, head, call, waiting, rerun, lapses>>
      /\ current' = [current EXCEPT ![t] = ~@] /\ current \in [Ids -> BOOLEAN]
  BY DEF Edit, git, RInv, Typed, ReviewTypeOK
<1>2. current' \in [Ids -> BOOLEAN]
  BY <1>1
<1>3. RecsOk' /\ ViewsFit'
  BY <1>1, SameRecords DEF RInv, Typed, ReviewTypeOK
<1>4. Typed' /\ RerunFits' /\ MergesFit'
  BY <1>1, <1>2 DEF RInv, Typed, ReviewTypeOK, RerunFits, MergesFit, Active
<1>5. \A h \in Reviews : CallFits(h)'
  BY <1>1 DEF RInv, CallFits, Active, Late
<1> QED
  BY <1>3, <1>4, <1>5 DEF RInv

LEMMA CrashRehydrateGood == ASSUME RInv, CrashRehydrate PROVE RInv'
<1> SUFFICES ASSUME NEW tk, tk = HydrateTasks(saved) PROVE RInv'
  OBVIOUS
<1>1. /\ result' = tk /\ writes' = {ViewWrite(t, tk[t], t) : t \in {u \in Ids : tk[u] # saved[u]}}
      /\ call' = [h \in Reviews |-> NoCall] /\ waiting' = Nobody /\ rerun' = 0
      /\ UNCHANGED <<saved, wt, merges, head, current>>
      /\ (Late => Late') /\ (lapses' = lapses \/ lapses' = lapses \cup {"cut"})
  BY DEF CrashRehydrate, git, Late
<1>2. saved \in [Ids -> Recs] /\ \A t \in Ids : RecOk(t, saved[t])
  BY DEF RInv, Typed, ReviewTypeOK, RecsOk
<1>3. tk \in [Ids -> Recs] /\ \A t \in Ids : tk[t] = saved[t] \/ Marked(saved[t], tk[t])
  BY <1>2, HydrateMarks DEF Marks
<1>4. FreshWrites(writes', result')
  <2>1. \A t \in Ids : t \in 0..N + 2
    BY IdsAreNumbers
  <2> QED
    BY <1>1, <1>3, <2>1 DEF FreshWrites, ViewWrite
<1>5. AllSound'
  <2>1. \A t \in Ids : Sound(t, result[t])'
    BY <1>1, <1>2, <1>3 DEF RecOk, Sound, Marked
  <2> QED
    BY <2>1 DEF AllSound
<1>6. \A t \in Ids : saved[t].attempt \in Nat
  BY <1>2 DEF Recs
<1>7. SavedOk'
  <2>1. ASSUME NEW t \in Ids PROVE RecOk(t, saved[t])'
    BY <1>1, <1>2, <1>3, <1>6 DEF RecOk, Sound, Past, Marked
  <2> QED
    BY <2>1 DEF SavedOk
<1>8. RecsOk' /\ ViewsFit'
  BY <1>1, <1>3, <1>4, <1>5, <1>7, FreshFit DEF Marked
<1>9. /\ call' \in [Reviews -> MergeCalls \cup {NoCall}]
      /\ \A h \in Reviews : ~Active(h)' /\ waiting' # h
  BY <1>1, IdleCall, ReviewAssumption DEF Active, Nobody
<1>10. Typed'
  <2>1. ReviewTypeOK /\ lapses' \subseteq {"late", "lost", "cut"}
    BY <1>1 DEF RInv, Typed, ReviewTypeOK
  <2>2. ReviewTypeOK'
    BY <1>1, <1>3, <1>4, <1>9, <2>1, StepsTyped, IdsAreNumbers DEF ReviewTypeOK, FreshWrites
  <2> QED
    BY <1>9, <2>2 DEF Typed
<1>11. RerunFits' /\ MergesFit' /\ \A h \in Reviews : CallFits(h)'
  BY <1>1, <1>9 DEF RInv, RerunFits, MergesFit, CallFits
<1> QED
  BY <1>8, <1>10, <1>11 DEF RInv

LEMMA ReviewStep == RInv /\ [ReviewNext]_reviewVars => RInv'
<1> SUFFICES ASSUME RInv, [ReviewNext]_reviewVars PROVE RInv'
  OBVIOUS
<1>1. ASSUME NEW t \in Ids, Look(t) \/ ConfirmRefused(t) \/ Confirm(t) \/ Retract(t) \/ InspectRetry(t) \/ Edit(t)
      PROVE  RInv'
  BY <1>1, LookGood, ConfirmRefusedGood, ConfirmGood, RetractGood, InspectRetryGood, EditGood
<1>2. ASSUME NEW h \in Reviews,
             \/ \E t \in Ids : AskMerge(h, t)
             \/ TimeOut(h) \/ Answer(h) \/ MergeCheck(h) \/ Merge(h) \/ MergeFails(h) \/ Merged(h)
      PROVE  RInv'
  BY <1>2, AskMergeGood, TimeOutGood, AnswerGood, MergeCheckGood, MergeGood, MergeFailsGood, MergedGood
<1>3. CASE RetryRefused \/ RetryGo \/ ExecuteAgain \/ Finish
  BY <1>3, RetryRefusedGood, RetryGoGood, ExecuteAgainGood, FinishGood
<1>4. CASE Flush \/ LoseWrite \/ CrashRehydrate
  BY <1>4, FlushGood, LoseWriteGood, CrashRehydrateGood
<1>5. CASE UNCHANGED reviewVars
  BY <1>5 DEF reviewVars, RInv, Typed, ReviewTypeOK, RerunFits, RecsOk, RecOk, Sound, Past, Late,
       ViewsFit, InOrder, InStep, MergesFit, CallFits, Active
<1> QED
  BY <1>1, <1>2, <1>3, <1>4, <1>5 DEF ReviewNext

(* The books about merged code are true in every run of the reviews.        *)
THEOREM CodeAlwaysAccounted == ReviewSpec => []CodeAccounted
<1>1. RInv => CodeAccounted
  <2> SUFFICES ASSUME RInv PROVE CodeAccounted
    OBVIOUS
  <2>1. ReviewTypeOK /\ MergedOnce
    BY DEF RInv, Typed, MergesFit, MergedOnce
  <2>2. ConfirmedCodeIsMerged
    BY ReviewAssumption DEF RInv, RecsOk, RecOk, Sound, ConfirmedCodeIsMerged, Late
  <2> QED
    BY <2>1, <2>2 DEF CodeAccounted
<1> QED
  BY <1>1, ReviewInitGood, ReviewStep, PTL DEF ReviewSpec

(* Only a write of a view changes it.                                       *)
LEMMA SavedByFlush ==
  ASSUME RInv, [ReviewNext]_reviewVars, saved' # saved
  PROVE  Flush
<1>1. ASSUME NEW t \in Ids, Look(t) \/ ConfirmRefused(t) \/ Confirm(t) \/ Retract(t) \/ InspectRetry(t) \/ Edit(t)
      PROVE  FALSE
  BY <1>1 DEF Look, ConfirmRefused, Confirm, Retract, InspectRetry, Edit
<1>2. ASSUME NEW h \in Reviews,
             \/ \E t \in Ids : AskMerge(h, t)
             \/ TimeOut(h) \/ Answer(h) \/ MergeCheck(h) \/ Merge(h) \/ MergeFails(h) \/ Merged(h)
      PROVE  FALSE
  BY <1>2 DEF AskMerge, TimeOut, Answer, MergeCheck, Merge, MergeFails, Merged
<1>3. CASE RetryRefused \/ RetryGo \/ ExecuteAgain \/ Finish
  BY <1>3 DEF RetryRefused, RetryGo, ExecuteAgain, Finish
<1>4. CASE LoseWrite \/ CrashRehydrate
  BY <1>4 DEF LoseWrite, CrashRehydrate
<1> QED
  BY <1>1, <1>2, <1>3, <1>4 DEF ReviewNext, reviewVars

(* What the views say is retracted stays so until there is another attempt, *)
(* unless a review is answered after its time limit.                        *)
THEOREM RetractionsStand == ReviewSpec => RetractionStands
<1> DEFINE Stays == \A t \in Ids : saved[t].rev.st = "retracted" =>
                     \/ saved'[t].rev.st = "retracted"
                     \/ saved'[t].attempt > saved[t].attempt
                     \/ "late" \in lapses
<1>1. ASSUME RInv, [ReviewNext]_reviewVars PROVE Stays
  <2>1. CASE saved' = saved
    BY <2>1
  <2>2. CASE saved' # saved
    <3>1. PICK w \in writes : saved' = [saved EXCEPT ![w.task] = w.rec]
      BY <1>1, <2>2, SavedByFlush DEF Flush
    <3>2. w.task \in Ids /\ saved \in [Ids -> Recs] /\ (Late \/ Replaces(w.rec, saved[w.task]))
      BY <1>1 DEF RInv, Typed, ReviewTypeOK, ViewsFit, InOrder
    <3> QED
      BY <3>1, <3>2 DEF Late, Replaces
  <2> QED
    BY <2>1, <2>2
<1>2. RInv /\ [ReviewNext]_reviewVars => [Stays]_reviewVars
  BY <1>1
<1> QED
  BY <1>2, ReviewInitGood, ReviewStep, PTL DEF ReviewSpec, RetractionStands

-----------------------------------------------------------------------------
(***************************************************************************)
(* What rests on what.  Within(tk, r) is the propagation level by level:   *)
(* its last level is the least set that holds r and everything that rests  *)
(* on a member, because a task rests on older ones only.                   *)
(***************************************************************************)
Spread(tk, X) == X \cup {t \in Ids : \E d \in X : Rests(tk, t, d)}

Levels(tk, r, f, m) ==
  f = [n \in 0..m |-> IF n = 0 THEN {r} ELSE f[n - 1] \cup {t \in Ids : \E d \in f[n - 1] : Rests(tk, t, d)}]

LEMMA LevelsExist ==
  ASSUME NEW tk, NEW r
  PROVE  \E f : Levels(tk, r, f, N)
<1> DEFINE Bad == {m \in Nat : ~\E f : Levels(tk, r, f, m)}
<1>1. N \in Nat
  BY ReviewAssumption
<1> SUFFICES ASSUME Bad # {} PROVE FALSE
  BY <1>1
<1>2. PICK m \in Bad : \A k \in Bad : m <= k
  BY LeastNat
<1>3. CASE m = 0
  <2> DEFINE f == [n \in 0..0 |-> {r}]
  <2>1. Levels(tk, r, f, 0)
    BY DEF Levels
  <2> QED
    BY <1>2, <1>3, <2>1
<1>4. CASE m # 0
  <2>1. m \in Nat /\ m - 1 \in Nat /\ m - 1 \notin Bad
    BY <1>2, <1>4
  <2>2. PICK g : Levels(tk, r, g, m - 1)
    BY <2>1
  <2> DEFINE f == [n \in 0..m |-> IF n = m THEN Spread(tk, g[m - 1]) ELSE g[n]]
  <2>3. \A n \in 0..(m - 1) : g[n] = IF n = 0 THEN {r} ELSE Spread(tk, g[n - 1])
    BY <2>2 DEF Levels, Spread
  <2>4. \A n \in 0..m : n # m => n \in 0..(m - 1)
    BY <2>1
  <2>5. \A n \in 0..m : n # 0 => n - 1 \in 0..m /\ n - 1 # m
    BY <2>1
  <2>6. ASSUME NEW n \in 0..m PROVE f[n] = IF n = 0 THEN {r} ELSE Spread(tk, f[n - 1])
    BY <1>4, <2>3, <2>4, <2>5
  <2>7. f = [n \in 0..m |-> f[n]]
    OBVIOUS
  <2> HIDE DEF f
  <2>8. Levels(tk, r, f, m)
    BY <2>6, <2>7 DEF Levels, Spread
  <2> QED
    BY <1>2, <2>8
<1> QED
  BY <1>3, <1>4

LEMMA WithinLaw ==
  ASSUME NEW tk, NEW r
  PROVE  /\ Within(tk, r)[0] = {r}
         /\ \A n \in 0..N : n # 0 => Within(tk, r)[n] = Spread(tk, Within(tk, r)[n - 1])
<1>1. Within(tk, r) = CHOOSE f : Levels(tk, r, f, N)
  BY DEF Within, Levels
<1>2. Levels(tk, r, Within(tk, r), N)
  BY <1>1, LevelsExist
<1>3. N \in Nat /\ 0 \in 0..N
  BY ReviewAssumption
<1> DEFINE W == Within(tk, r)
<1> HIDE DEF W
<1>4. ASSUME NEW n \in 0..N PROVE W[n] = IF n = 0 THEN {r} ELSE Spread(tk, W[n - 1])
  BY <1>2, <1>4 DEF Levels, Spread, W
<1> QED
  BY <1>3, <1>4 DEF W

Reach(tk, r) == Within(tk, r)[N]

(* Whatever holds r and what rests on its members holds every level.        *)
LEMMA ReachIsLeast ==
  ASSUME NEW tk, NEW r, NEW C, r \in C,
         \A d \in C : \A t \in Ids : Rests(tk, t, d) => t \in C
  PROVE  Reach(tk, r) \subseteq C
<1> DEFINE Bad == {n \in 0..N : ~(Within(tk, r)[n] \subseteq C)}
<1>1. N \in Nat /\ Bad \in SUBSET Nat
  BY ReviewAssumption
<1>2. SUFFICES ASSUME Bad # {} PROVE FALSE
  BY <1>1 DEF Reach
<1>3. PICK n \in Bad : \A k \in Bad : n <= k
  BY <1>1, <1>2, LeastNat
<1>4. n # 0
  BY <1>1, <1>3, WithinLaw
<1>5. n - 1 \in 0..N /\ n - 1 \notin Bad
  BY <1>1, <1>3, <1>4
<1>6. Within(tk, r)[n] = Spread(tk, Within(tk, r)[n - 1])
  BY <1>3, <1>4, WithinLaw
<1> QED
  BY <1>3, <1>5, <1>6 DEF Spread

LEMMA WithinGrows ==
  ASSUME NEW tk, NEW r, NEW m \in 0..N, NEW n \in 0..N, m <= n
  PROVE  Within(tk, r)[m] \subseteq Within(tk, r)[n]
<1> DEFINE Bad == {k \in 0..N : m <= k /\ ~(Within(tk, r)[m] \subseteq Within(tk, r)[k])}
<1>1. N \in Nat /\ Bad \in SUBSET Nat
  BY ReviewAssumption
<1>2. SUFFICES ASSUME Bad # {} PROVE FALSE
  OBVIOUS
<1>3. PICK k \in Bad : \A j \in Bad : k <= j
  BY <1>1, <1>2, LeastNat
<1>4. k # m /\ k # 0 /\ k - 1 \in 0..N /\ m <= k - 1 /\ k - 1 \notin Bad
  BY <1>1, <1>3
<1>5. Within(tk, r)[k] = Spread(tk, Within(tk, r)[k - 1])
  BY <1>3, <1>4, WithinLaw
<1> QED
  BY <1>3, <1>4, <1>5 DEF Spread

LEMMA ReachIsClosed ==
  ASSUME NEW tk, NEW r \in Ids, NEW d \in Reach(tk, r), NEW t \in Ids, Rests(tk, t, d)
  PROVE  t \in Reach(tk, r)
<1> DEFINE C == {x \in Ids : x \in Within(tk, r)[x]}
<1>1. N \in Nat /\ \A x \in Ids : x \in 1..N /\ x \in 0..N
  BY ReviewAssumption DEF Ids
<1>2. r \in Within(tk, r)[r]
  <2>1. r \in Within(tk, r)[0] /\ 0 \in 0..N /\ r \in 0..N /\ 0 <= r
    BY <1>1, WithinLaw
  <2> QED
    BY <2>1, WithinGrows
<1>3. ASSUME NEW e \in C, NEW u \in Ids, Rests(tk, u, e)
      PROVE  u \in Within(tk, r)[e + 1] /\ e + 1 \in 0..N /\ e + 1 <= u
  <2>1. e \in Ids /\ e < u /\ e \in Within(tk, r)[e]
    BY <1>3, ReviewAssumption DEF Rests
  <2>2. e + 1 \in 0..N /\ e + 1 # 0 /\ e + 1 <= u /\ (e + 1) - 1 = e
    BY <1>1, <2>1
  <2>3. Within(tk, r)[e + 1] = Spread(tk, Within(tk, r)[e])
    BY <2>2, WithinLaw
  <2> QED
    BY <1>3, <2>1, <2>2, <2>3 DEF Spread
<1>4. ASSUME NEW e \in C, NEW u \in Ids, Rests(tk, u, e) PROVE u \in C
  <2>1. u \in Within(tk, r)[e + 1] /\ e + 1 \in 0..N /\ e + 1 <= u /\ u \in 0..N
    BY <1>1, <1>3, <1>4
  <2> QED
    BY <2>1, WithinGrows
<1>5. d \in C
  BY <1>2, <1>4, ReachIsLeast
<1>6. t \in Within(tk, r)[d + 1] /\ d + 1 \in 0..N /\ d + 1 <= N /\ N \in 0..N
  BY <1>1, <1>3, <1>5
<1> QED
  BY <1>6, WithinGrows DEF Reach

LEMMA ReachIs ==
  ASSUME NEW tk, NEW r \in Ids
  PROVE  /\ r \in Reach(tk, r) /\ Reach(tk, r) \subseteq Ids
         /\ Down(tk, r) = Reach(tk, r) \ {r}
         /\ \A x \in Reach(tk, r) : r <= x
<1>1. N \in Nat /\ Ids \in SUBSET Nat
  BY ReviewAssumption DEF Ids
<1>2. r \in Reach(tk, r)
  <2>1. r \in Within(tk, r)[0] /\ 0 \in 0..N /\ N \in 0..N /\ 0 <= N
    BY <1>1, WithinLaw
  <2> QED
    BY <2>1, WithinGrows DEF Reach
<1> DEFINE C == {x \in Ids : r <= x}
<1>3. ASSUME NEW d \in C, NEW t \in Ids, Rests(tk, t, d) PROVE t \in C
  <2>1. d < t /\ d \in Nat /\ t \in Nat /\ r \in Nat
    BY <1>1, <1>3, ReviewAssumption DEF Rests
  <2> QED
    BY <2>1
<1>4. Reach(tk, r) \subseteq C
  <2>1. r \in C
    BY <1>1
  <2> QED
    BY <1>3, <2>1, ReachIsLeast
<1> QED
  BY <1>2, <1>4 DEF Down, Reach

LEMMA ReachTransitive ==
  ASSUME NEW tk, NEW r \in Ids, NEW u \in Reach(tk, r)
  PROVE  Reach(tk, u) \subseteq Reach(tk, r)
BY ReachIs, ReachIsClosed, ReachIsLeast

(* Only the edges matter.                                                   *)
LEMMA SameReach ==
  ASSUME NEW tk, NEW tk2, NEW r \in Ids,
         \A t, d \in Ids : Rests(tk, t, d) <=> Rests(tk2, t, d)
  PROVE  Reach(tk, r) = Reach(tk2, r)
<1>1. Reach(tk, r) \subseteq Reach(tk2, r)
  BY ReachIs, ReachIsClosed, ReachIsLeast
<1>2. Reach(tk2, r) \subseteq Reach(tk, r)
  BY ReachIs, ReachIsClosed, ReachIsLeast
<1> QED
  BY <1>1, <1>2

LEMMA MinLeast ==
  ASSUME NEW S \in SUBSET Nat, NEW x \in S
  PROVE  Min(S) <= x
<1>1. \E y \in S : \A z \in S : y <= z
  BY LeastNat
<1> QED
  BY <1>1 DEF Min

(* The root of a propagation is written before everything else.             *)
LEMMA RootIsNearest ==
  ASSUME NEW tk, NEW r \in Ids, NEW t \in Ids, t # r
  PROVE  Distance(tk, r, r) < Distance(tk, r, t)
<1> DEFINE S(x) == {n \in 0..N : x \in Within(tk, r)[n]} \cup {N}
<1>1. N \in Nat /\ N # 0
  BY ReviewAssumption DEF Ids
<1>2. S(r) \in SUBSET Nat /\ 0 \in S(r) /\ S(t) \in SUBSET Nat /\ S(t) # {} /\ 0 \notin S(t)
  BY <1>1, WithinLaw
<1>3. Distance(tk, r, r) = Min(S(r)) /\ Distance(tk, r, t) = Min(S(t))
  BY DEF Distance
<1> HIDE DEF S
<1>4. Min(S(r)) <= 0 /\ Min(S(r)) \in Nat
  BY <1>2, MinLeast, MinIn
<1>5. Min(S(t)) \in S(t)
  BY <1>2, MinIn
<1> QED
  BY <1>2, <1>3, <1>4, <1>5

-----------------------------------------------------------------------------
(***************************************************************************)
(* Confirmed results rest on confirmed ones.  The views are behind memory  *)
(* while writes are to come, and a crash makes them the memory, so Backing *)
(* says what is true of the views at each of these moments: they agree with*)
(* memory where nothing is to come (Agrees), and a confirmed view above one*)
(* that is not is reached by a mark which is there for good (Recoverable), *)
(* unless a retry is just taking a result back (Cutting).                  *)
(***************************************************************************)
Flows(rec) == rec.phase \in {"running", "done"}

Alike(t, a, b) == (Flows(a) <=> Flows(b)) /\ (IsConfirmed(a, t) <=> IsConfirmed(b, t))

(* A record from which hydrateTasks starts a propagation.                   *)
IsRoot(rec, u) == rec.rev.st = "retracted" \/ (rec.rev.st = "needs_recheck" /\ rec.rev.by = u)

Agrees(t) ==
  \/ (\A w \in writes : w.task # t) /\ Alike(t, saved[t], result[t])
  \/ \E w \in writes : /\ w.task = t /\ Alike(t, w.rec, result[t])
                       /\ \A v \in writes : v.task = t /\ v # w => v.rank < w.rank

AllAgree == \A t \in Ids : Agrees(t)

CallsBacked ==
  \A h \in Reviews : waiting = h =>
    /\ ~IsConfirmed(result[call[h].task], call[h].task)
    /\ \A d \in Deps[call[h].task] : IsConfirmed(result[d], d)

Cutting == \E w \in writes : w.rank = N + 1

CutFits ==
  \A w \in writes : w.rank = N + 1 =>
    /\ ~IsConfirmed(w.rec, w.task) /\ ~IsConfirmed(result[w.task], w.task)
    /\ \A v \in writes : v.rank > N /\ v # w => v.rank = N + 2 /\ v.task = w.task

Covered(t) ==
  \E u \in Ids : /\ IsRoot(saved[u], u) /\ t \in Down(saved, u)
                 /\ \A w \in writes : w.task = u => IsRoot(w.rec, u)

OneWriteEach == \A v, w \in writes : v.task = w.task => v = w

ViewsCovered ==
  \A t \in Ids : IsConfirmed(saved[t], t) =>
    \A d \in Deps[t] : IsConfirmed(saved[d], d) \/ Covered(t)

WriteCovered(w) ==
  IsConfirmed(saved[w.task], w.task) /\ ~IsConfirmed(w.rec, w.task) =>
    \/ IsRoot(w.rec, w.task) \/ Covered(w.task)
    \/ \E v \in writes : /\ IsRoot(v.rec, v.task) /\ v.rank < w.rank
                         /\ w.task \in Down(saved, v.task)

LastWrite(w) == writes = {w}

Recoverable ==
  /\ OneWriteEach /\ ViewsCovered
  /\ \A w \in writes : WriteCovered(w)
  /\ \A w \in writes : \/ LastWrite(w)
                       \/ ~IsConfirmed(w.rec, w.task) /\ (Flows(w.rec) <=> Flows(saved[w.task]))

BackedParts ==
  Backed /\ AllAgree /\ CutFits /\ (Cutting \/ Recoverable)

Backing == lapses = {} => BackedParts /\ CallsBacked

Supported(tk) ==
  \A t \in Ids : IsConfirmed(tk[t], t) => \A d \in Deps[t] : IsConfirmed(tk[d], d)

LEMMA DepsInIds == \A t \in Ids : Deps[t] \subseteq Ids /\ \A d \in Deps[t] : d < t
BY ReviewAssumption

LEMMA UnconfirmedBelow ==
  ASSUME NEW tk, Supported(tk), NEW r \in Ids, ~IsConfirmed(tk[r], r)
  PROVE  \A x \in Reach(tk, r) : ~IsConfirmed(tk[x], x)
<1> DEFINE C == {x \in Ids : ~IsConfirmed(tk[x], x)}
<1>1. \A d \in C : \A t \in Ids : Rests(tk, t, d) => t \in C
  BY DEF Supported, Rests
<1>2. r \in C
  OBVIOUS
<1> HIDE DEF C
<1>3. Reach(tk, r) \subseteq C
  BY <1>1, <1>2, ReachIsLeast
<1> QED
  BY <1>3 DEF C

(* new is tk after a propagation from r.                                    *)
Strikes(tk, new, r) ==
  /\ new \in [Ids -> Recs]
  /\ \A t \in Ids : Flows(new[t]) <=> Flows(tk[t])
  /\ \A t \in Ids : IsConfirmed(new[t], t) => new[t] = tk[t]
  /\ \A t \in Ids : IsConfirmed(tk[t], t) => (IsConfirmed(new[t], t) <=> t \notin Reach(tk, r))
  /\ IsConfirmed(tk[r], r) => IsRoot(new[r], r)

LEMMA FlowsRest ==
  ASSUME NEW tk, NEW new, \A t \in Ids : Flows(new[t]) <=> Flows(tk[t]), NEW r \in Ids
  PROVE  Reach(tk, r) = Reach(new, r)
<1>1. \A t, d \in Ids : Rests(tk, t, d) <=> Rests(new, t, d)
  BY DEF Rests, Flows
<1> QED
  BY <1>1, SameReach

LEMMA MarksUnconfirm ==
  ASSUME NEW tk, NEW new, Marks(tk, new), NEW t \in Ids
  PROVE  /\ Flows(new[t]) <=> Flows(tk[t])
         /\ IsConfirmed(new[t], t) => new[t] = tk[t]
BY DEF Marks, Marked, Flows, IsConfirmed

LEMMA InvalidateReach ==
  ASSUME NEW tk \in [Ids -> Recs], NEW r \in Ids
  PROVE  /\ Invalidate(tk, r)[r] = tk[r]
         /\ \A t \in Ids \ Reach(tk, r) : Invalidate(tk, r)[t] = tk[t]
         /\ \A t \in Reach(tk, r) \ {r} : ~IsConfirmed(Invalidate(tk, r)[t], t)
<1>1. Down(tk, r) = Reach(tk, r) \ {r} /\ Reach(tk, r) \subseteq Ids
  BY ReachIs
<1>2. ASSUME NEW t \in Reach(tk, r) \ {r} PROVE ~IsConfirmed(Invalidate(tk, r)[t], t)
  <2>1. tk[t] \in Recs /\ r \in 0..N /\ t \in Ids
    BY <1>1, IdsAreNumbers
  <2>2. CASE tk[t].rev.st # "retracted"
    <3>1. Invalidate(tk, r)[t] = Rechecked(tk[t], r)
      BY <1>1, <2>1, <2>2 DEF Invalidate, Rechecked
    <3>2. Marked(tk[t], Rechecked(tk[t], r))
      BY <2>1, <2>2, MarkRecord
    <3> QED
      BY <3>1, <3>2 DEF Marked, IsConfirmed
  <2>3. CASE tk[t].rev.st = "retracted"
    BY <2>1, <2>3 DEF Invalidate, IsConfirmed
  <2> QED
    BY <2>2, <2>3
<1> QED
  BY <1>1, <1>2 DEF Invalidate

LEMMA MarkReach ==
  ASSUME NEW tk \in [Ids -> Recs], NEW r \in Ids
  PROVE  /\ IsRoot(MarkNeedsRecheck(tk, r)[r], r)
         /\ \A t \in Ids \ Reach(tk, r) : MarkNeedsRecheck(tk, r)[t] = tk[t]
         /\ \A t \in Reach(tk, r) : \/ tk[r].rev.st = "retracted"
                                    \/ ~IsConfirmed(MarkNeedsRecheck(tk, r)[t], t)
<1>1. CASE tk[r].rev.st = "retracted"
  BY <1>1 DEF MarkNeedsRecheck, IsRoot
<1>2. CASE tk[r].rev.st # "retracted"
  <2> DEFINE s == Rechecked(tk[r], r)
             own == [tk EXCEPT ![r] = s]
  <2>1. s \in Recs /\ Marked(tk[r], s) /\ s.rev.by = r
    BY <1>2, MarkRecord, IdsAreNumbers
  <2>2. own = [tk EXCEPT ![r].rev.st = "needs_recheck", ![r].rev.by = r]
    BY DEF Rechecked
  <2>3. own \in [Ids -> Recs] /\ own[r] = s /\ \A t \in Ids \ {r} : own[t] = tk[t]
    BY <2>1
  <2>4. MarkNeedsRecheck(tk, r) = Invalidate(own, r)
    BY <1>2, <2>2 DEF MarkNeedsRecheck
  <2> HIDE DEF own, s
  <2>5. \A t \in Ids : Flows(own[t]) <=> Flows(tk[t])
    BY <2>1, <2>3 DEF Marked, Flows
  <2>6. Reach(own, r) = Reach(tk, r) /\ r \in Reach(tk, r)
    BY <2>5, FlowsRest, ReachIs
  <2>7. /\ Invalidate(own, r)[r] = own[r]
        /\ \A t \in Ids \ Reach(own, r) : Invalidate(own, r)[t] = own[t]
        /\ \A t \in Reach(own, r) \ {r} : ~IsConfirmed(Invalidate(own, r)[t], t)
    BY <2>3, InvalidateReach
  <2>8. IsRoot(s, r) /\ ~IsConfirmed(s, r)
    BY <2>1 DEF IsRoot, IsConfirmed, Marked
  <2> QED
    BY <2>3, <2>4, <2>6, <2>7, <2>8
<1> QED
  BY <1>1, <1>2

LEMMA StrikesSupported ==
  ASSUME NEW tk, NEW new, NEW r \in Ids, Supported(tk), Strikes(tk, new, r)
  PROVE  Supported(new)
<1> SUFFICES ASSUME NEW t \in Ids, IsConfirmed(new[t], t), NEW d \in Deps[t], ~IsConfirmed(new[d], d)
             PROVE  FALSE
  BY DEF Supported
<1>1. d \in Ids /\ IsConfirmed(tk[t], t) /\ IsConfirmed(tk[d], d) /\ t \notin Reach(tk, r)
  BY DepsInIds DEF Strikes, Supported
<1>2. d \in Reach(tk, r)
  BY <1>1 DEF Strikes
<1>3. Rests(tk, t, d)
  BY <1>1 DEF Rests, IsConfirmed
<1> QED
  BY <1>1, <1>2, <1>3, ReachIsClosed

LEMMA StrikesNothing ==
  ASSUME NEW tk \in [Ids -> Recs], NEW r \in Ids, Supported(tk), ~IsConfirmed(tk[r], r)
  PROVE  Strikes(tk, tk, r)
BY UnconfirmedBelow DEF Strikes

LEMMA StrikesMark ==
  ASSUME NEW tk \in [Ids -> Recs], NEW r \in Ids, Supported(tk)
  PROVE  Strikes(tk, MarkNeedsRecheck(tk, r), r)
<1> DEFINE new == MarkNeedsRecheck(tk, r)
<1>1. Marks(tk, new)
  BY MarkNeedsRecheckMarks
<1>2. /\ IsRoot(new[r], r)
      /\ \A t \in Ids \ Reach(tk, r) : new[t] = tk[t]
      /\ \A t \in Reach(tk, r) : tk[r].rev.st = "retracted" \/ ~IsConfirmed(new[t], t)
  BY MarkReach
<1> HIDE DEF new
<1>3. ASSUME NEW t \in Ids, IsConfirmed(tk[t], t), t \in Reach(tk, r) PROVE ~IsConfirmed(new[t], t)
  <2>1. IsConfirmed(tk[r], r)
    BY <1>3, UnconfirmedBelow
  <2> QED
    BY <1>2, <1>3, <2>1 DEF IsConfirmed
<1>4. new \in [Ids -> Recs] /\ \A t \in Ids : (Flows(new[t]) <=> Flows(tk[t])) /\ (IsConfirmed(new[t], t) => new[t] = tk[t])
  BY <1>1, MarksUnconfirm DEF Marks
<1> QED
  BY <1>2, <1>3, <1>4 DEF Strikes, new

(* A second mark, of a younger task that is not confirmed.                  *)
LEMMA StrikesThen ==
  ASSUME NEW tk, NEW mid, NEW r \in Ids, NEW t \in Ids, Supported(tk), Strikes(tk, mid, r),
         ~IsConfirmed(tk[t], t), r < t
  PROVE  Strikes(tk, MarkNeedsRecheck(mid, t), r)
<1> DEFINE new == MarkNeedsRecheck(mid, t)
<1>1. mid \in [Ids -> Recs]
  BY DEF Strikes
<1>2. Marks(mid, new) /\ \A u \in Ids \ Reach(mid, t) : new[u] = mid[u]
  BY <1>1, MarkNeedsRecheckMarks, MarkReach
<1> HIDE DEF new
<1>3. Reach(mid, t) = Reach(tk, t)
  BY FlowsRest DEF Strikes
<1>4. \A u \in Reach(tk, t) : ~IsConfirmed(tk[u], u)
  BY UnconfirmedBelow
<1>5. r \notin Reach(mid, t)
  <2>1. r \in Nat /\ t \in Nat
    BY ReviewAssumption DEF Ids
  <2> QED
    BY <2>1, ReachIs
<1>6. new \in [Ids -> Recs] /\ \A u \in Ids : (Flows(new[u]) <=> Flows(mid[u])) /\ (IsConfirmed(new[u], u) => new[u] = mid[u])
  BY <1>2, MarksUnconfirm DEF Marks
<1> QED
  BY <1>2, <1>3, <1>4, <1>5, <1>6 DEF Strikes, new

LEMMA StrikesRetract ==
  ASSUME result \in [Ids -> Recs], NEW t \in Ids, Backed
  PROVE  Strikes(result, Invalidate(WithReview(result, t, Review("retracted", 0, FALSE)), t), t)
<1> DEFINE own == WithReview(result, t, Review("retracted", 0, FALSE))
           new == Invalidate(own, t)
<1>1. /\ own \in [Ids -> Recs]
      /\ \A u \in Ids \ {t} : own[u] = result[u]
      /\ own[t].phase = result[t].phase /\ own[t].attempt = result[t].attempt
      /\ own[t].rev.st = "retracted" /\ ~own[t].rev.merged
  BY ReviewedRecord
<1> HIDE DEF own
<1>2. \A u \in Ids : Flows(own[u]) <=> Flows(result[u])
  BY <1>1 DEF Flows
<1>3. Reach(own, t) = Reach(result, t) /\ t \in Reach(result, t)
  BY <1>2, FlowsRest, ReachIs
<1>4. /\ Marks(own, new) /\ new[t] = own[t]
      /\ \A u \in Ids \ Reach(own, t) : new[u] = own[u]
      /\ \A u \in Reach(own, t) \ {t} : ~IsConfirmed(new[u], u)
  BY <1>1, InvalidateMarks, InvalidateReach
<1> HIDE DEF new
<1>5. new \in [Ids -> Recs] /\ \A u \in Ids : (Flows(new[u]) <=> Flows(own[u])) /\ (IsConfirmed(new[u], u) => new[u] = own[u])
  BY <1>4, MarksUnconfirm DEF Marks
<1>6. ~IsConfirmed(own[t], t) /\ IsRoot(own[t], t)
  BY <1>1 DEF IsConfirmed, IsRoot
<1>7. Strikes(result, new, t)
  BY <1>1, <1>2, <1>3, <1>4, <1>5, <1>6 DEF Strikes
<1> QED
  BY <1>7 DEF new, own

-----------------------------------------------------------------------------
(* Steps of the manager, from a moment with no write to come.               *)

LEMMA QuietViews ==
  ASSUME Quiet, AllAgree, Backed
  PROVE  /\ \A t \in Ids : Alike(t, saved[t], result[t])
         /\ Supported(result) /\ Supported(saved)
         /\ \A r \in Ids : Reach(saved, r) = Reach(result, r)
<1>1. ASSUME NEW t \in Ids PROVE Alike(t, saved[t], result[t])
  BY DEF Quiet, AllAgree, Agrees
<1>2. Supported(result)
  BY DEF Backed, Supported
<1>3. Supported(saved)
  BY <1>1, <1>2, DepsInIds DEF Alike, Supported
<1>4. \A t \in Ids : Flows(result[t]) <=> Flows(saved[t])
  BY <1>1 DEF Alike
<1>5. ASSUME NEW r \in Ids PROVE Reach(saved, r) = Reach(result, r)
  BY <1>4, FlowsRest
<1> QED
  BY <1>1, <1>2, <1>3, <1>5

(* Every write has what memory has, and the others were not touched.        *)
LEMMA FreshAgrees ==
  ASSUME \A v, w \in writes' : v.task = w.task => v = w,
         \A w \in writes' : w.rec = result'[w.task],
         \A t \in Ids : (\E w \in writes' : w.task = t) \/ Alike(t, saved'[t], result'[t])
  PROVE  AllAgree' /\ OneWriteEach'
<1>1. ASSUME NEW t \in Ids PROVE Agrees(t)'
  <2>1. CASE \E w \in writes' : w.task = t
    <3>1. PICK w \in writes' : w.task = t
      BY <2>1
    <3>2. Alike(t, w.rec, result'[t])
      BY <3>1 DEF Alike
    <3> QED
      BY <3>1, <3>2 DEF Agrees
  <2>2. CASE ~\E w \in writes' : w.task = t
    BY <2>2 DEF Agrees
  <2> QED
    BY <2>1, <2>2
<1> QED
  BY <1>1 DEF AllAgree, OneWriteEach

LEMMA NoCut ==
  ASSUME \A w \in writes' : w.rank \in 0..N
  PROVE  CutFits' /\ ~Cutting'
<1>1. \A w \in writes' : w.rank # N + 1
  BY IdsAreNumbers
<1> QED
  BY <1>1 DEF CutFits, Cutting

LEMMA StrikeStep ==
  ASSUME result \in [Ids -> Recs], Quiet, Backed, AllAgree, UNCHANGED saved,
         NEW new, NEW r \in Ids, Strikes(result, new, r), Becomes(new, r)
  PROVE  BackedParts'
<1>1. /\ \A t \in Ids : Alike(t, saved[t], result[t])
      /\ Supported(result) /\ Supported(saved)
      /\ Reach(saved, r) = Reach(result, r)
  BY QuietViews
<1>2. /\ result' = new
      /\ writes' = {ViewWrite(t, new[t], Distance(result, r, t)) : t \in {u \in Ids : new[u] # result[u]}}
  BY DEF Becomes, Changed
<1>3. \A w \in writes' : /\ w.task \in Ids /\ w.rec = new[w.task] /\ new[w.task] # result[w.task]
                         /\ w.rank = Distance(result, r, w.task)
                         /\ w = ViewWrite(w.task, new[w.task], Distance(result, r, w.task))
  BY <1>2 DEF ViewWrite
<1>4. \A t \in Ids : new[t] # result[t] =>
        /\ ViewWrite(t, new[t], Distance(result, r, t)) \in writes'
        /\ ViewWrite(t, new[t], Distance(result, r, t)).task = t
        /\ ViewWrite(t, new[t], Distance(result, r, t)).rec = new[t]
        /\ ViewWrite(t, new[t], Distance(result, r, t)).rank = Distance(result, r, t)
  BY <1>2 DEF ViewWrite
<1>5. Backed'
  <2>1. Supported(new)
    BY <1>1, StrikesSupported
  <2> QED
    BY <1>2, <2>1 DEF Supported, Backed
<1>6. AllAgree' /\ OneWriteEach'
  <2>1. \A v, w \in writes' : v.task = w.task => v = w
    BY <1>3
  <2>2. \A w \in writes' : w.rec = result'[w.task]
    BY <1>2, <1>3
  <2>3. \A t \in Ids : (\E w \in writes' : w.task = t) \/ Alike(t, saved'[t], result'[t])
    BY <1>1, <1>2, <1>4
  <2> QED
    BY <2>1, <2>2, <2>3, FreshAgrees
<1>7. CutFits'
  <2>1. \A w \in writes' : w.rank \in 0..N
    BY <1>3, DistanceIn
  <2> QED
    BY <2>1, NoCut
<1>8. ViewsCovered'
  BY <1>1 DEF ViewsCovered, Supported
<1>9. ASSUME NEW w \in writes', IsConfirmed(saved'[w.task], w.task), ~IsConfirmed(w.rec, w.task)
      PROVE  \/ IsRoot(w.rec, w.task)
             \/ \E v \in writes' : /\ IsRoot(v.rec, v.task) /\ v.rank < w.rank
                                   /\ w.task \in Down(saved', v.task)
  <2>1. w.task \in Ids /\ w.rec = new[w.task] /\ w.rank = Distance(result, r, w.task)
    BY <1>3
  <2>2. IsConfirmed(result[w.task], w.task)
    BY <1>1, <1>9, <2>1 DEF Alike
  <2>3. w.task \in Reach(result, r)
    BY <1>9, <2>1, <2>2 DEF Strikes
  <2>4. IsConfirmed(result[r], r)
    BY <1>1, <2>2, <2>3, UnconfirmedBelow
  <2>5. IsRoot(new[r], r) /\ ~IsConfirmed(new[r], r)
    BY <2>4, ReachIs DEF Strikes
  <2>6. CASE w.task = r
    BY <2>1, <2>5, <2>6
  <2>7. CASE w.task # r
    <3>1. new[r] # result[r]
      BY <2>4, <2>5
    <3>2. PICK v \in writes' : v.task = r /\ v.rec = new[r] /\ v.rank = Distance(result, r, r)
      BY <1>4, <3>1
    <3>3. v.rank < w.rank
      BY <2>1, <2>7, <3>2, RootIsNearest
    <3>4. w.task \in Down(saved', r)
      BY <1>1, <2>3, <2>7, ReachIs
    <3> QED
      BY <2>5, <3>2, <3>3, <3>4
  <2> QED
    BY <2>6, <2>7
<1>10. ASSUME NEW w \in writes' PROVE WriteCovered(w)'
  BY <1>9 DEF WriteCovered
<1>11. ASSUME NEW w \in writes'
       PROVE  ~IsConfirmed(w.rec, w.task) /\ (Flows(w.rec) <=> Flows(saved[w.task]))
  <2>1. w.task \in Ids /\ w.rec = new[w.task] /\ new[w.task] # result[w.task]
    BY <1>3
  <2> QED
    BY <1>1, <2>1 DEF Strikes, Alike
<1>12. Recoverable'
  BY <1>6, <1>8, <1>10, <1>11 DEF Recoverable, IsConfirmed, Flows
<1> QED
  BY <1>5, <1>6, <1>7, <1>12 DEF BackedParts

(* One record changes, of a result that is not confirmed.                   *)
LEMMA SingleStep ==
  ASSUME Quiet, Backed, AllAgree, UNCHANGED saved, NEW t \in Ids,
         \A u \in Ids \ {t} : result'[u] = result[u],
         ~IsConfirmed(result[t], t),
         IsConfirmed(result'[t], t) => \A d \in Deps[t] : IsConfirmed(result[d], d),
         \/ writes' = {} /\ Alike(t, result[t], result'[t])
         \/ \E x : writes' = {x} /\ x.task = t /\ x.rec = result'[t] /\ x.rank \in 0..N
  PROVE  BackedParts'
<1>1. (\A u \in Ids : Alike(u, saved[u], result[u])) /\ Supported(saved)
  BY QuietViews
<1>2. t \in Nat /\ \A u \in Ids : u \in Nat
  BY ReviewAssumption DEF Ids
<1>3. Backed'
  <2>1. ASSUME NEW u \in Ids, IsConfirmed(result'[u], u), NEW d \in Deps[u] PROVE IsConfirmed(result'[d], d)
    <3>1. d \in Ids /\ d < u
      BY DepsInIds
    <3>2. CASE u = t
      BY <1>2, <2>1, <3>1, <3>2
    <3>3. CASE u # t
      BY <2>1, <3>1, <3>3 DEF Backed
    <3> QED
      BY <3>2, <3>3
  <2> QED
    BY <2>1 DEF Backed, IsConfirmed
<1>4. CASE writes' = {} /\ Alike(t, result[t], result'[t])
  <2>1. \A u \in Ids : Alike(u, saved'[u], result'[u])
    BY <1>1, <1>4 DEF Alike
  <2>2. AllAgree' /\ OneWriteEach'
    BY <1>4, <2>1, FreshAgrees
  <2>3. CutFits'
    BY <1>4, NoCut
  <2>4. Recoverable'
    BY <1>1, <1>4, <2>2 DEF Recoverable, ViewsCovered, Supported
  <2> QED
    BY <1>3, <2>2, <2>3, <2>4 DEF BackedParts
<1>5. CASE \E x : writes' = {x} /\ x.task = t /\ x.rec = result'[t] /\ x.rank \in 0..N
  <2>1. PICK x : writes' = {x} /\ x.task = t /\ x.rec = result'[t] /\ x.rank \in 0..N
    BY <1>5
  <2>2. \A u \in Ids : u = t \/ Alike(u, saved'[u], result'[u])
    BY <1>1 DEF Alike
  <2>3. AllAgree' /\ OneWriteEach'
    BY <2>1, <2>2, FreshAgrees
  <2>4. CutFits'
    BY <2>1, NoCut
  <2>5. ~IsConfirmed(saved[t], t)
    BY <1>1 DEF Alike
  <2>6. \A w \in writes' : WriteCovered(w)' /\ LastWrite(w)'
    BY <2>1, <2>5 DEF WriteCovered, LastWrite, IsConfirmed
  <2>7. Recoverable'
    BY <1>1, <2>3, <2>6 DEF Recoverable, ViewsCovered, Supported
  <2> QED
    BY <1>3, <2>3, <2>4, <2>7 DEF BackedParts
<1> QED
  BY <1>4, <1>5

LEMMA ChangedOne ==
  ASSUME NEW new, NEW t \in Ids, NEW r, \A u \in Ids \ {t} : new[u] = result[u]
  PROVE  \/ new[t] = result[t] /\ Changed(new, r) = {}
         \/ \E x : Changed(new, r) = {x} /\ x.task = t /\ x.rec = new[t] /\ x.rank \in 0..N
<1>1. CASE new[t] = result[t]
  BY <1>1 DEF Changed
<1>2. CASE new[t] # result[t]
  <2> DEFINE x == ViewWrite(t, new[t], Distance(result, r, t))
  <2>1. Changed(new, r) = {x}
    BY <1>2 DEF Changed
  <2>2. x.task = t /\ x.rec = new[t] /\ x.rank \in 0..N
    BY DistanceIn DEF ViewWrite
  <2> QED
    BY <2>1, <2>2
<1> QED
  BY <1>1, <1>2

LEMMA NobodyWaits ==
  ASSUME waiting' = Nobody
  PROVE  CallsBacked'
BY ReviewAssumption DEF CallsBacked, Nobody

(* A propagation while the parent waits for nothing, or for its retry.      *)
LEMMA StrikeBacked ==
  ASSUME RInv, Backing, Quiet, waiting = Nobody, UNCHANGED <<saved, waiting, lapses>>,
         NEW new, NEW r \in Ids, Becomes(new, r), lapses = {} => Strikes(result, new, r)
  PROVE  Backing'
<1>1. result \in [Ids -> Recs]
  BY DEF RInv, Typed, ReviewTypeOK
<1>2. ASSUME lapses = {} PROVE BackedParts'
  BY <1>1, <1>2, StrikeStep DEF Backing, BackedParts
<1> QED
  BY <1>2, NobodyWaits DEF Backing

LEMMA SingleBacked ==
  ASSUME RInv, Backing, Quiet, waiting = Nobody, UNCHANGED <<saved, waiting, lapses>>,
         NEW new, NEW t \in Ids, Becomes(new, t),
         \A u \in Ids \ {t} : new[u] = result[u],
         ~IsConfirmed(result[t], t),
         IsConfirmed(new[t], t) => \A d \in Deps[t] : IsConfirmed(result[d], d)
  PROVE  Backing'
<1>1. result' = new /\ writes' = Changed(new, t)
  BY DEF Becomes
<1>2. \/ new[t] = result[t] /\ Changed(new, t) = {}
      \/ \E x : Changed(new, t) = {x} /\ x.task = t /\ x.rec = new[t] /\ x.rank \in 0..N
  BY ChangedOne
<1>3. \/ writes' = {} /\ Alike(t, result[t], result'[t])
      \/ \E x : writes' = {x} /\ x.task = t /\ x.rec = result'[t] /\ x.rank \in 0..N
  BY <1>1, <1>2 DEF Alike
<1>4. ASSUME lapses = {} PROVE BackedParts'
  BY <1>1, <1>3, <1>4, SingleStep DEF Backing, BackedParts
<1> QED
  BY <1>4, NobodyWaits DEF Backing

LEMMA BadDepStrikes ==
  ASSUME result \in [Ids -> Recs], Backed, NEW t \in Ids, ~DepsShareable(t)
  PROVE  Strikes(result, MarkBadDep(t), FirstBad(t)) /\ FirstBad(t) \in Ids /\ FirstBad(t) < t
<1>1. FirstBad(t) \in Deps[t] /\ FirstBad(t) \in Ids /\ FirstBad(t) < t
  BY FirstBadIn, DepsInIds
<1>2. Supported(result)
  BY DEF Backed, Supported
<1> QED
  BY <1>1, <1>2, StrikesMark, StrikesNothing DEF MarkBadDep

LEMMA LookBacked == ASSUME RInv, Backing, NEW t \in Ids, Look(t) PROVE Backing'
<1>1. result \in [Ids -> Recs]
  BY DEF RInv, Typed, ReviewTypeOK
<1>2. lapses = {} => Supported(result)
  BY DEF Backing, BackedParts, Backed, Supported
<1>3. lapses = {} => Strikes(result, MarkNeedsRecheck(result, t), t)
  BY <1>1, <1>2, StrikesMark
<1> QED
  BY <1>3, StrikeBacked DEF Look, Free

LEMMA ConfirmRefusedBacked == ASSUME RInv, Backing, NEW t \in Ids, ConfirmRefused(t) PROVE Backing'
<1>1. result \in [Ids -> Recs]
  BY DEF RInv, Typed, ReviewTypeOK
<1>2. lapses = {} => Supported(result) /\ Backed
  BY DEF Backing, BackedParts, Backed, Supported
<1>3. Quiet /\ waiting = Nobody /\ UNCHANGED <<saved, waiting, lapses>> /\ Reviewable(t)
  BY DEF ConfirmRefused, Free
<1>4. CASE DepsShareable(t)
  <2>1. Becomes(MarkNeedsRecheck(result, t), t)
    BY <1>4 DEF ConfirmRefused
  <2>2. lapses = {} => Strikes(result, MarkNeedsRecheck(result, t), t)
    BY <1>1, <1>2, StrikesMark
  <2> QED
    BY <1>3, <2>1, <2>2, StrikeBacked
<1>5. CASE ~DepsShareable(t)
  <2>1. Becomes(MarkNeedsRecheck(MarkBadDep(t), t), FirstBad(t)) /\ FirstBad(t) \in Ids
    BY <1>5, FirstBadIn DEF ConfirmRefused
  <2>2. ~IsConfirmed(result[t], t)
    BY <1>3 DEF Reviewable, IsConfirmed
  <2>3. ASSUME lapses = {} PROVE Strikes(result, MarkNeedsRecheck(MarkBadDep(t), t), FirstBad(t))
    <3>1. Strikes(result, MarkBadDep(t), FirstBad(t)) /\ FirstBad(t) \in Ids /\ FirstBad(t) < t
      BY <1>1, <1>2, <1>5, <2>3, BadDepStrikes
    <3> QED
      BY <1>2, <2>2, <2>3, <3>1, StrikesThen
  <2> QED
    BY <1>3, <2>1, <2>3, StrikeBacked
<1> QED
  BY <1>4, <1>5

LEMMA RetractBacked == ASSUME RInv, Backing, NEW t \in Ids, Retract(t) PROVE Backing'
<1> DEFINE new == Invalidate(WithReview(result, t, Review("retracted", 0, FALSE)), t)
<1>1. result \in [Ids -> Recs] /\ (lapses = {} => Backed)
  BY DEF RInv, Typed, ReviewTypeOK, Backing, BackedParts
<1>2. lapses = {} => Strikes(result, new, t)
  BY <1>1, StrikesRetract
<1>3. Quiet /\ waiting = Nobody /\ UNCHANGED <<saved, waiting, lapses>> /\ Becomes(new, t)
  BY DEF Retract, Free
<1> HIDE DEF new
<1> QED
  BY <1>2, <1>3, StrikeBacked

LEMMA ConfirmBacked == ASSUME RInv, Backing, NEW t \in Ids, Confirm(t) PROVE Backing'
<1> DEFINE new == WithReview(result, t, Review("confirmed", 0, FALSE))
<1>1. result \in [Ids -> Recs]
  BY DEF RInv, Typed, ReviewTypeOK
<1>2. \A u \in Ids \ {t} : new[u] = result[u]
  BY <1>1 DEF WithReview
<1>3. /\ Quiet /\ waiting = Nobody /\ UNCHANGED <<saved, waiting, lapses>>
      /\ Reviewable(t) /\ DepsShareable(t) /\ Becomes(new, t)
  BY DEF Confirm, Free
<1>4. ~IsConfirmed(result[t], t) /\ \A d \in Deps[t] : IsConfirmed(result[d], d)
  BY <1>3 DEF Reviewable, IsConfirmed, DepsShareable, Shareable
<1> HIDE DEF new
<1> QED
  BY <1>2, <1>3, <1>4, SingleBacked

LEMMA ExecuteAgainBacked == ASSUME RInv, Backing, ExecuteAgain PROVE Backing'
<1> SUFFICES ASSUME NEW t, t = rerun PROVE Backing'
  OBVIOUS
<1>1. /\ Quiet /\ t \in Ids /\ result[t].phase = "queued" /\ waiting = Nobody
      /\ UNCHANGED <<saved, waiting, lapses>>
      /\ result \in [Ids -> Recs]
  BY RerunIs DEF ExecuteAgain, RInv, Typed, ReviewTypeOK
<1>2. ~IsConfirmed(result[t], t)
  BY <1>1 DEF IsConfirmed
<1>3. CASE DepsShareable(t)
  <2> DEFINE new == [result EXCEPT ![t].phase = "running", ![t].rev = Review("pending", 0, FALSE)]
  <2>1. Becomes(new, t)
    BY <1>3 DEF ExecuteAgain
  <2>2. (\A u \in Ids \ {t} : new[u] = result[u]) /\ new[t].phase = "running"
    BY <1>1 DEF Recs
  <2>3. ~IsConfirmed(new[t], t)
    BY <2>2 DEF IsConfirmed
  <2> HIDE DEF new
  <2> QED
    BY <1>1, <1>2, <2>1, <2>2, <2>3, SingleBacked
<1>4. CASE ~DepsShareable(t)
  <2> DEFINE mid == MarkBadDep(t)
             new == [mid EXCEPT ![t].phase = "failed"]
  <2>1. Becomes(new, FirstBad(t))
    BY <1>4 DEF ExecuteAgain
  <2>2. ASSUME lapses = {}
        PROVE  Strikes(result, mid, FirstBad(t)) /\ FirstBad(t) # t
    <3>1. Backed
      BY <2>2 DEF Backing, BackedParts
    <3>2. Strikes(result, mid, FirstBad(t)) /\ FirstBad(t) \in Ids /\ FirstBad(t) < t
      BY <1>1, <1>4, <3>1, BadDepStrikes
    <3>3. t \in Nat
      BY <1>1, ReviewAssumption DEF Ids
    <3> QED
      BY <3>2, <3>3
  <2>3. FirstBad(t) \in Ids
    BY <1>1, <1>4, FirstBadIn
  <2> HIDE DEF mid
  <2>4. ASSUME lapses = {} PROVE Strikes(result, new, FirstBad(t))
    <3>1. /\ mid \in [Ids -> Recs]
          /\ \A u \in Ids : Flows(mid[u]) <=> Flows(result[u])
          /\ \A u \in Ids : IsConfirmed(mid[u], u) => mid[u] = result[u]
          /\ \A u \in Ids : IsConfirmed(result[u], u) => (IsConfirmed(mid[u], u) <=> u \notin Reach(result, FirstBad(t)))
          /\ IsConfirmed(result[FirstBad(t)], FirstBad(t)) => IsRoot(mid[FirstBad(t)], FirstBad(t))
          /\ FirstBad(t) # t
      BY <2>2, <2>4 DEF Strikes
    <3>2. /\ new \in [Ids -> Recs] /\ new[t].phase = "failed"
          /\ \A u \in Ids \ {t} : new[u] = mid[u]
      BY <1>1, <3>1 DEF Recs
    <3>3. ~IsConfirmed(new[t], t) /\ ~Flows(new[t]) /\ ~Flows(result[t])
      BY <1>1, <3>2 DEF IsConfirmed, Flows
    <3> HIDE DEF new
    <3> QED
      BY <1>1, <1>2, <2>3, <3>1, <3>2, <3>3 DEF Strikes
  <2> HIDE DEF new
  <2> QED
    BY <1>1, <2>1, <2>3, <2>4, StrikeBacked
<1> QED
  BY <1>3, <1>4

LEMMA FinishBacked == ASSUME RInv, Backing, Finish PROVE Backing'
<1> SUFFICES ASSUME NEW t, t = rerun PROVE Backing'
  OBVIOUS
<1>1. /\ Quiet /\ t \in Ids /\ result[t].phase = "running" /\ waiting = Nobody
      /\ UNCHANGED <<saved, waiting, lapses>>
      /\ result \in [Ids -> Recs]
  BY RerunIs DEF Finish, RInv, Typed, ReviewTypeOK
<1>2. ~IsConfirmed(result[t], t) /\ result[t].rev.st # "confirmed"
  BY <1>1 DEF IsConfirmed, RInv, RecsOk, RecOk, Sound
<1>3. CASE Becomes([result EXCEPT ![t].phase = "failed", ![t].rev = Review("none", 0, FALSE)], t)
  <2> DEFINE new == [result EXCEPT ![t].phase = "failed", ![t].rev = Review("none", 0, FALSE)]
  <2>1. (\A u \in Ids \ {t} : new[u] = result[u]) /\ new[t].phase = "failed"
    BY <1>1 DEF Recs
  <2>2. ~IsConfirmed(new[t], t)
    BY <2>1 DEF IsConfirmed
  <2>3. Becomes(new, t)
    BY <1>3
  <2> HIDE DEF new
  <2> QED
    BY <1>1, <1>2, <2>1, <2>2, <2>3, SingleBacked
<1>4. CASE Becomes([result EXCEPT ![t].phase = "done",
                ![t].rev = IF @.st = "needs_recheck" THEN @ ELSE Review("candidate", 0, FALSE)], t)
  <2> DEFINE rv == IF result[t].rev.st = "needs_recheck" THEN result[t].rev ELSE Review("candidate", 0, FALSE)
             rec == [result[t] EXCEPT !.phase = "done", !.rev = rv]
             new == [result EXCEPT ![t] = rec]
  <2>1. new = [result EXCEPT ![t].phase = "done",
                ![t].rev = IF @.st = "needs_recheck" THEN @ ELSE Review("candidate", 0, FALSE)]
    OBVIOUS
  <2>2. Becomes(new, t)
    BY <1>4, <2>1
  <2>3. rv.st # "confirmed"
    BY DEF Review
  <2> HIDE DEF rv
  <2>4. rec.rev = rv
    BY <1>1 DEF Recs
  <2> HIDE DEF rec
  <2>5. (\A u \in Ids \ {t} : new[u] = result[u]) /\ new[t].rev.st # "confirmed"
    BY <1>1, <2>3, <2>4
  <2>6. ~IsConfirmed(new[t], t)
    BY <2>5 DEF IsConfirmed
  <2> HIDE DEF new
  <2> QED
    BY <1>1, <1>2, <2>2, <2>5, <2>6, SingleBacked
<1> QED
  BY <1>3, <1>4 DEF Finish

(* What was said of memory and the views stays true while they stay.        *)
LEMMA SameBooks ==
  ASSUME Backing, UNCHANGED <<result, saved, writes, lapses>>, lapses = {} => CallsBacked'
  PROVE  Backing'
<1>1. ASSUME BackedParts PROVE BackedParts'
  BY <1>1 DEF BackedParts, Backed, AllAgree, Agrees, CutFits, Cutting, Recoverable, OneWriteEach,
              ViewsCovered, Covered, WriteCovered, LastWrite
<1> QED
  BY <1>1 DEF Backing

LEMMA SameCalls ==
  ASSUME CallsBacked, UNCHANGED <<result, call>>, waiting' \in {waiting, Nobody}
  PROVE  CallsBacked'
<1>1. Nobody \notin Reviews
  BY ReviewAssumption DEF Nobody
<1> QED
  BY <1>1 DEF CallsBacked

LEMMA AskMergeBacked ==
  ASSUME RInv, Backing, NEW h \in Reviews, NEW t \in Ids, AskMerge(h, t)
  PROVE  Backing'
<1>1. /\ UNCHANGED <<result, saved, writes, lapses>> /\ waiting' = h
      /\ Reviewable(t) /\ DepsShareable(t) /\ call'[h].task = t
  BY DEF AskMerge, RInv, Typed
<1>2. ~IsConfirmed(result[t], t) /\ \A d \in Deps[t] : IsConfirmed(result[d], d)
  BY <1>1 DEF Reviewable, IsConfirmed, DepsShareable, Shareable
<1>3. CallsBacked'
  BY <1>1, <1>2 DEF CallsBacked
<1> QED
  BY <1>1, <1>3, SameBooks

LEMMA TimeOutBacked == ASSUME Backing, NEW h \in Reviews, TimeOut(h) PROVE Backing'
BY SameBooks, NobodyWaits DEF TimeOut

LEMMA RetryAskedBacked ==
  ASSUME Backing, RetryRefused \/ \E t \in Ids : InspectRetry(t)
  PROVE  Backing'
<1>1. UNCHANGED <<result, saved, writes, call, waiting, lapses>>
  BY DEF RetryRefused, InspectRetry
<1> QED
  BY <1>1, SameBooks, SameCalls DEF Backing

LEMMA EditBacked == ASSUME Backing, NEW t \in Ids, Edit(t) PROVE Backing'
BY SameBooks, SameCalls DEF Edit, Backing

LEMMA CallIsRecord ==
  ASSUME Typed, NEW h \in Reviews, NEW step, call' = [call EXCEPT ![h].step = step]
  PROVE  \A g \in Reviews : call'[g].task = call[g].task
<1> DEFINE c == [call[h] EXCEPT !.step = step]
<1>1. call[h] \in MergeCalls \cup {NoCall} /\ call \in [Reviews -> MergeCalls \cup {NoCall}]
  BY DEF Typed
<1>2. c.task = call[h].task
  BY <1>1 DEF MergeCalls, NoCall
<1>3. call' = [call EXCEPT ![h] = c]
  OBVIOUS
<1> HIDE DEF c
<1> QED
  BY <1>1, <1>2, <1>3

(* A call goes on, without a word about the result.                         *)
LEMMA MergingBacked ==
  ASSUME RInv, Backing, NEW h \in Reviews, MergeCheck(h) \/ Merge(h)
  PROVE  Backing'
<1>1. /\ UNCHANGED <<result, saved, writes, lapses, waiting>>
      /\ \E step : call' = [call EXCEPT ![h].step = step]
  BY DEF MergeCheck, Merge, Goto
<1>2. \A g \in Reviews : call'[g].task = call[g].task
  BY <1>1, CallIsRecord DEF RInv
<1>3. ASSUME lapses = {} PROVE CallsBacked'
  BY <1>1, <1>2, <1>3 DEF Backing, CallsBacked
<1> QED
  BY <1>1, <1>3, SameBooks

LEMMA ReviewIs ==
  ASSUME NEW st, NEW by, NEW m \in BOOLEAN
  PROVE  \E rv : rv = Review(st, by, m) /\ rv.st = st
<1> DEFINE rv == Review(st, by, m)
<1>1. rv.st = st
  BY DEF Review
<1> QED
  BY <1>1

(* The answer of a review the parent waits for.                             *)
LEMMA SetsBacked ==
  ASSUME RInv, Backing, Quiet, NEW h \in Reviews, Active(h), UNCHANGED saved,
         NEW rv, NEW isSaved \in BOOLEAN, Sets(h, rv, isSaved), isSaved \/ rv.st # "confirmed",
         lapses' = {}
  PROVE  /\ BackedParts' /\ waiting = h /\ CallsBacked
         /\ call[h].task \in Ids /\ result'[call[h].task].rev = rv
         /\ \A u \in Ids : u # call[h].task => result'[u] = result[u]
<1> SUFFICES ASSUME NEW t, t = call[h].task, NEW rec, rec = Answered(h, rv)
             PROVE  /\ BackedParts' /\ waiting = h /\ CallsBacked /\ t \in Ids /\ result'[t].rev = rv
                    /\ \A u \in Ids : u # t => result'[u] = result[u]
  OBVIOUS
<1>1. waiting = h /\ lapses = {}
  BY DEF Sets
<1>2. t \in Ids /\ call[h].attempt = result[t].attempt /\ result[t].phase = "done" /\ result \in [Ids -> Recs]
  BY <1>1, ActiveCall DEF RInv, CallFits, Typed, ReviewTypeOK
<1>3. BackedParts /\ CallsBacked /\ ~IsConfirmed(result[t], t) /\ \A d \in Deps[t] : IsConfirmed(result[d], d)
  BY <1>1 DEF Backing, CallsBacked
<1>4. rec.phase = "done" /\ rec.rev = rv
  BY DEF Answered
<1>5. /\ result' = [result EXCEPT ![t] = rec]
      /\ writes' = IF isSaved THEN {ViewWrite(t, rec, 0)} ELSE {}
  BY <1>2 DEF Sets, Answered
<1> HIDE DEF Answered
<1>6. result'[t] = rec /\ \A u \in Ids \ {t} : result'[u] = result[u]
  BY <1>2, <1>5
<1>7. \/ writes' = {} /\ Alike(t, result[t], result'[t])
      \/ \E x : writes' = {x} /\ x.task = t /\ x.rec = result'[t] /\ x.rank \in 0..N
  <2>1. CASE isSaved
    <3>1. ViewWrite(t, rec, 0).task = t /\ ViewWrite(t, rec, 0).rec = rec /\ ViewWrite(t, rec, 0).rank = 0
      BY DEF ViewWrite
    <3>2. 0 \in 0..N
      BY IdsAreNumbers
    <3> QED
      BY <1>5, <1>6, <2>1, <3>1, <3>2
  <2>2. CASE ~isSaved
    <3>1. ~IsConfirmed(rec, t)
      BY <1>4, <2>2 DEF IsConfirmed
    <3>2. Flows(rec) /\ Flows(result[t])
      BY <1>2, <1>4 DEF Flows
    <3> QED
      BY <1>3, <1>5, <1>6, <2>2, <3>1, <3>2 DEF Alike
  <2> QED
    BY <2>1, <2>2
<1>8. BackedParts'
  BY <1>2, <1>3, <1>6, <1>7, SingleStep DEF BackedParts
<1> QED
  BY <1>1, <1>2, <1>3, <1>4, <1>6, <1>8

LEMMA SetsEndsBacked ==
  ASSUME RInv, Backing, Quiet, NEW h \in Reviews, Active(h), UNCHANGED saved,
         NEW rv, NEW isSaved \in BOOLEAN, Sets(h, rv, isSaved), isSaved \/ rv.st # "confirmed",
         Ends(h)
  PROVE  Backing'
<1>1. ASSUME lapses' = {} PROVE BackedParts' /\ CallsBacked'
  <2>1. BackedParts' /\ waiting = h
    BY <1>1, SetsBacked
  <2>2. waiting' = Nobody
    BY <2>1 DEF Ends
  <2> QED
    BY <2>1, <2>2, NobodyWaits
<1> QED
  BY <1>1 DEF Backing

LEMMA AnswerBacked == ASSUME RInv, Backing, NEW h \in Reviews, Answer(h) PROVE Backing'
<1>1. Quiet /\ Active(h) /\ UNCHANGED saved
  BY DEF Answer, Active
<1>2. CASE Ends(h) /\ UNCHANGED <<result, writes, lapses>>
  <2>1. ASSUME lapses = {} PROVE CallsBacked'
    <3>1. CASE waiting = h
      BY <1>2, <3>1, NobodyWaits DEF Ends
    <3>2. CASE waiting # h
      <4>1. waiting' = waiting /\ \A g \in Reviews \ {h} : call'[g] = call[g]
        BY <1>2, <3>2 DEF Ends, RInv, Typed
      <4> QED
        BY <1>2, <2>1, <3>2, <4>1 DEF Backing, CallsBacked
    <3> QED
      BY <3>1, <3>2
  <2> QED
    BY <1>1, <1>2, <2>1, SameBooks
<1>3. CASE Sets(h, Review("integrating", 0, FALSE), TRUE) /\ Goto(h, "checking")
  <2>1. PICK rv : rv = Review("integrating", 0, FALSE) /\ rv.st = "integrating"
    BY ReviewIs, Zenon
  <2>2. PICK isSaved \in BOOLEAN : Sets(h, rv, isSaved)
    BY <1>3, <2>1
  <2>3. ASSUME lapses' = {} PROVE BackedParts' /\ CallsBacked'
    <3>1. /\ BackedParts' /\ waiting = h /\ CallsBacked
          /\ call[h].task \in Ids /\ result'[call[h].task].rev = rv
          /\ \A u \in Ids : u # call[h].task => result'[u] = result[u]
      BY <1>1, <2>1, <2>2, <2>3, SetsBacked
    <3>2. waiting' = h /\ call'[h].task = call[h].task
      BY <1>1, <1>3, <3>1, ActiveCall, CallIsRecord DEF Goto, RInv
    <3>3. ~IsConfirmed(result'[call[h].task], call[h].task)
      BY <2>1, <3>1 DEF IsConfirmed
    <3>4. \A d \in Deps[call[h].task] : d \in Ids /\ d # call[h].task
      BY <3>1, DepsInIds, ReviewAssumption DEF Ids
    <3>5. CallsBacked'
      BY <3>1, <3>2, <3>3, <3>4 DEF CallsBacked
    <3> QED
      BY <3>1, <3>5
  <2> QED
    BY <2>3 DEF Backing
<1>4. CASE Sets(h, call[h].prev, FALSE) /\ Ends(h)
  <2>1. call[h].prev.st # "confirmed"
    BY <1>1, ActiveCall DEF MergeCalls, RInv
  <2>2. PICK isSaved \in BOOLEAN : Sets(h, call[h].prev, isSaved)
    BY <1>4
  <2> QED
    BY <1>1, <1>4, <2>1, <2>2, SetsEndsBacked
<1> QED
  BY <1>2, <1>3, <1>4 DEF Answer

LEMMA MergeFailsBacked == ASSUME RInv, Backing, NEW h \in Reviews, MergeFails(h) PROVE Backing'
<1>1. Quiet /\ Active(h) /\ UNCHANGED saved /\ Ends(h)
  BY DEF MergeFails, Active
<1>2. PICK rv : rv = Review("candidate", 0, FALSE) /\ rv.st = "candidate"
  BY ReviewIs, Zenon
<1>3. PICK isSaved \in BOOLEAN : Sets(h, rv, isSaved)
  BY <1>2 DEF MergeFails
<1> QED
  BY <1>1, <1>2, <1>3, SetsEndsBacked

LEMMA MergedBacked == ASSUME RInv, Backing, NEW h \in Reviews, Merged(h) PROVE Backing'
<1>1. Quiet /\ Active(h) /\ UNCHANGED saved /\ Ends(h)
  BY DEF Merged, Active
<1>2. \E rv : \E isSaved \in BOOLEAN : Sets(h, rv, isSaved) /\ (isSaved \/ rv.st # "confirmed")
  <2>1. CASE Sets(h, Review("confirmed", 0, TRUE), TRUE)
    BY <2>1
  <2>2. CASE Sets(h, Review("integrating", 0, TRUE), FALSE)
    <3>1. PICK rv : rv = Review("integrating", 0, TRUE) /\ rv.st = "integrating"
      BY ReviewIs, Zenon
    <3>2. \E isSaved \in BOOLEAN : Sets(h, rv, isSaved)
      BY <2>2, <3>1
    <3> QED
      BY <3>1, <3>2
  <2>3. CASE \E isSaved \in BOOLEAN : Sets(h, Review("needs_recheck", call[h].task, TRUE), isSaved)
    <3>1. PICK rv : rv = Review("needs_recheck", call[h].task, TRUE) /\ rv.st = "needs_recheck"
      BY ReviewIs, Zenon
    <3> QED
      BY <2>3, <3>1
  <2> QED
    BY <2>1, <2>2, <2>3 DEF Merged
<1> QED
  BY <1>1, <1>2, SetsEndsBacked

LEMMA TakenBackStrikes ==
  ASSUME RInv, Backed, NEW t \in Ids
  PROVE  Strikes(result, TakenBack(t), t)
<1> DEFINE tk == TakenBack(t)
           inv == Invalidate(result, t)
<1>1. result \in [Ids -> Recs]
  BY DEF RInv, Typed, ReviewTypeOK
<1>2. /\ tk \in [Ids -> Recs]
      /\ \A u \in Ids \ {t} : tk[u] = result[u] \/ Marked(result[u], tk[u])
      /\ tk[t].phase = result[t].phase /\ tk[t].rev.st = "retracted"
  BY TakenBackIs
<1>3. /\ \A u \in Ids \ Reach(result, t) : inv[u] = result[u]
      /\ \A u \in Reach(result, t) \ {t} : ~IsConfirmed(inv[u], u)
  BY <1>1, InvalidateReach
<1>4. \A u \in Ids \ {t} : tk[u] = inv[u]
  <2>1. inv \in [Ids -> Recs]
    BY <1>1, InvalidateMarks DEF Marks
  <2> QED
    BY <2>1 DEF TakenBack, WithReview
<1> HIDE DEF tk, inv
<1>5. t \in Reach(result, t) /\ Reach(result, t) \subseteq Ids
  BY ReachIs
<1>6. ~IsConfirmed(tk[t], t) /\ IsRoot(tk[t], t)
  BY <1>2 DEF IsConfirmed, IsRoot
<1>7. \A u \in Ids : (Flows(tk[u]) <=> Flows(result[u])) /\ (IsConfirmed(tk[u], u) => tk[u] = result[u])
  BY <1>2, <1>6 DEF Marked, Flows, IsConfirmed
<1>8. Strikes(result, tk, t)
  BY <1>2, <1>3, <1>4, <1>5, <1>6, <1>7 DEF Strikes
<1> QED
  BY <1>8 DEF tk

LEMMA RetryGoBacked == ASSUME RInv, Backing, RetryGo PROVE Backing'
<1> SUFFICES ASSUME NEW t, t = rerun, NEW tk, tk = TakenBack(t), lapses = {}
             PROVE  BackedParts' /\ CallsBacked'
  BY DEF RetryGo, Backing
<1> DEFINE marks == {ViewWrite(u, tk[u], Distance(result, t, u)) : u \in {v \in Ids \ {t} : tk[v] # result[v]}}
           retraction == ViewWrite(t, tk[t], N + 1)
           again == QueuedAgain(t)
           queue == ViewWrite(t, again, N + 2)
<1>1. /\ Quiet /\ t \in Ids /\ waiting' = Nobody /\ UNCHANGED <<saved, lapses>>
      /\ BackedParts /\ Backed /\ AllAgree
  BY RerunIs DEF RetryGo, Backing, BackedParts
<1>2. \/ result' = tk /\ writes' = marks \cup {retraction}
      \/ result' = [tk EXCEPT ![t] = again] /\ writes' = marks \cup {retraction, queue}
  BY DEF RetryGo
<1>3. /\ Strikes(result, tk, t) /\ Supported(tk) /\ tk \in [Ids -> Recs]
      /\ \A u \in Ids : Alike(u, saved[u], result[u])
  BY <1>1, TakenBackStrikes, QuietViews, StrikesSupported DEF Strikes
<1>4. ~IsConfirmed(tk[t], t) /\ ~IsConfirmed(again, t)
  <2>1. tk[t].rev.st = "retracted" /\ again.phase = "queued"
    BY <1>1, TakenBackIs DEF QueuedAgain
  <2> QED
    BY <2>1 DEF IsConfirmed
<1>5. N \in Nat
  BY IdsAreNumbers
<1>6. /\ \A w \in marks : /\ w.task \in Ids /\ w.task # t /\ w.rec = tk[w.task]
                          /\ w.rank \in 0..N /\ w.rank <= N /\ w.rank # N + 1
      /\ \A v, w \in marks : v.task = w.task => v = w
      /\ \A u \in Ids \ {t} : tk[u] # result[u] => \E w \in marks : w.task = u
  <2>1. \A u \in Ids : Distance(result, t, u) \in 0..N
    BY DistanceIn
  <2>2. \A n \in 0..N : n <= N /\ n # N + 1
    BY <1>5
  <2>3. \A w \in marks : /\ w.task \in Ids /\ w.task # t /\ w.rec = tk[w.task]
                         /\ w.rank \in 0..N
                         /\ w = ViewWrite(w.task, tk[w.task], Distance(result, t, w.task))
    BY <2>1 DEF ViewWrite
  <2>4. ASSUME NEW u \in Ids \ {t}, tk[u] # result[u] PROVE \E w \in marks : w.task = u
    <3>1. ViewWrite(u, tk[u], Distance(result, t, u)) \in marks
      BY <2>4
    <3>2. ViewWrite(u, tk[u], Distance(result, t, u)).task = u
      BY DEF ViewWrite
    <3> QED
      BY <3>1, <3>2
  <2> HIDE DEF marks
  <2>5. \A v, w \in marks : v.task = w.task => v = w
    BY <2>3
  <2> QED
    BY <2>2, <2>3, <2>4, <2>5
<1>7. /\ retraction.task = t /\ retraction.rec = tk[t] /\ retraction.rank = N + 1
      /\ queue.task = t /\ queue.rec = again /\ queue.rank = N + 2
  BY DEF ViewWrite
<1> HIDE DEF marks, retraction, queue, again
<1>8. /\ \A u \in Ids \ {t} : result'[u] = tk[u]
      /\ ~IsConfirmed(result'[t], t)
  BY <1>2, <1>3, <1>4
<1>9. Backed'
  <2>1. ASSUME NEW u \in Ids, IsConfirmed(result'[u], u), NEW d \in Deps[u] PROVE IsConfirmed(result'[d], d)
    BY <1>3, <1>4, <1>8, <2>1, DepsInIds DEF Supported
  <2> QED
    BY <2>1 DEF Backed, IsConfirmed
<1>10. ASSUME NEW u \in Ids \ {t} PROVE Agrees(u)'
  <2>1. CASE \E w \in marks : w.task = u
    <3>1. PICK w \in marks : w.task = u
      BY <2>1
    <3>2. w \in writes' /\ \A v \in writes' : v.task = u => v = w
      BY <1>2, <1>6, <1>7, <3>1
    <3>3. Alike(u, w.rec, result'[u])
      BY <1>6, <1>8, <3>1 DEF Alike
    <3> QED
      BY <3>1, <3>2, <3>3 DEF Agrees
  <2>2. CASE ~\E w \in marks : w.task = u
    <3>1. \A w \in writes' : w.task # u
      BY <1>2, <1>7, <2>2
    <3>2. Alike(u, saved'[u], result'[u])
      BY <1>1, <1>3, <1>6, <1>8, <2>2
    <3> QED
      BY <3>1, <3>2 DEF Agrees
  <2> QED
    BY <2>1, <2>2
<1>11. Agrees(t)'
  <2>1. CASE result' = tk /\ writes' = marks \cup {retraction}
    <3>1. Alike(t, retraction.rec, result'[t]) /\ retraction \in writes'
      BY <1>7, <2>1 DEF Alike
    <3>2. \A v \in writes' : v.task = t => v = retraction
      BY <1>6, <1>7, <2>1
    <3> QED
      BY <1>7, <3>1, <3>2 DEF Agrees
  <2>2. CASE result' = [tk EXCEPT ![t] = again] /\ writes' = marks \cup {retraction, queue}
    <3>1. Alike(t, queue.rec, result'[t]) /\ queue \in writes'
      BY <1>1, <1>3, <1>7, <2>2 DEF Alike
    <3>2. \A v \in writes' : v.task = t /\ v # queue => v = retraction
      BY <1>6, <1>7, <2>2
    <3>3. retraction.rank < queue.rank
      BY <1>5, <1>7
    <3> QED
      BY <1>7, <3>1, <3>2, <3>3 DEF Agrees
  <2> QED
    BY <1>2, <2>1, <2>2
<1>12. AllAgree'
  BY <1>10, <1>11 DEF AllAgree
<1>13. \A w \in writes' : w \in marks \/ w = retraction \/ w = queue
  BY <1>2
<1>14. CutFits'
  <2>1. ASSUME NEW w \in writes', w.rank = N + 1 PROVE w = retraction
    BY <1>5, <1>6, <1>7, <1>13, <2>1
  <2>2. ASSUME NEW v \in writes', v.rank > N, v # retraction PROVE v = queue
    BY <1>5, <1>6, <1>7, <1>13, <2>2
  <2>3. ~IsConfirmed(retraction.rec, retraction.task) /\ ~IsConfirmed(result'[retraction.task], retraction.task)
    BY <1>4, <1>7, <1>8
  <2> QED
    BY <1>7, <2>1, <2>2, <2>3 DEF CutFits
<1>15. Cutting'
  BY <1>2, <1>7 DEF Cutting
<1> QED
  BY <1>1, <1>9, <1>12, <1>14, <1>15, NobodyWaits DEF BackedParts

-----------------------------------------------------------------------------
(* A write reaches the views.                                               *)

(* Once the last write is done, the views rest on themselves.               *)
LEMMA NoWritesLeft ==
  ASSUME writes' = {}, AllAgree', Backed'
  PROVE  Recoverable'
<1>1. \A t \in Ids : Alike(t, saved'[t], result'[t])
  BY DEF AllAgree, Agrees, Alike, Flows, IsConfirmed
<1>2. \A t \in Ids : IsConfirmed(result'[t], t) => \A d \in Deps[t] : IsConfirmed(result'[d], d)
  BY DEF Backed, IsConfirmed
<1>3. ViewsCovered'
  BY <1>1, <1>2, DepsInIds DEF ViewsCovered, Alike
<1> QED
  BY <1>3 DEF Recoverable, OneWriteEach

(* The writes of a retry once the retraction is in the views.               *)
LEMMA RetractionSaved ==
  ASSUME RInv, BackedParts, NEW w \in writes, w.rank = N + 1,
         saved' = [saved EXCEPT ![w.task] = w.rec], writes' = writes \ {w}, result' = result,
         \A v \in writes : w.rank <= v.rank
  PROVE  Recoverable'
<1> SUFFICES ASSUME NEW x, x = w.task PROVE Recoverable'
  OBVIOUS
<1>1. x \in Ids /\ saved' \in [Ids -> Recs] /\ saved'[x] = w.rec /\ \A u \in Ids \ {x} : saved'[u] = saved[u]
  BY WriteOf DEF RInv, Typed, ReviewTypeOK
<1>2. /\ ~IsConfirmed(w.rec, x) /\ ~IsConfirmed(result[x], x)
      /\ \A v \in writes' : v.rank = N + 2 /\ v.task = x
  <2>1. \A v \in writes' : v \in writes /\ v # w /\ v.rank \in Nat
    BY WriteOf
  <2>2. \A v \in writes' : v.rank > N
    BY <2>1, IdsAreNumbers
  <2> QED
    BY <2>1, <2>2 DEF BackedParts, CutFits
<1>3. Agrees(x)
  BY <1>1 DEF BackedParts, AllAgree
<1>4. ASSUME NEW v \in writes', NEW z \in writes' PROVE v = z
  <2>1. PICK q \in writes : q.task = x /\ \A y \in writes : y.task = x /\ y # q => y.rank < q.rank
    BY <1>3 DEF Agrees
  <2>2. v.rank = N + 2 /\ z.rank = N + 2 /\ v.task = x /\ z.task = x /\ v \in writes /\ z \in writes
    BY <1>2, <1>4
  <2>3. q.rank = N + 1 \/ q.rank = N + 2
    BY <1>2, <2>1
  <2> QED
    BY <2>1, <2>2, <2>3, IdsAreNumbers
<1>5. \A t \in Ids : IsConfirmed(saved'[t], t) <=> IsConfirmed(result[t], t)
  <2>1. ASSUME NEW t \in Ids, t # x PROVE Alike(t, saved[t], result[t])
    <3>1. \A v \in writes : v.task # t
      BY <1>2, <2>1
    <3> QED
      BY <3>1 DEF BackedParts, AllAgree, Agrees
  <2> QED
    BY <1>1, <1>2, <2>1 DEF Alike
<1>6. ViewsCovered'
  <2>1. Supported(saved')
    BY <1>5, DepsInIds DEF BackedParts, Backed, Supported
  <2> QED
    BY <2>1 DEF Supported, ViewsCovered
<1>7. ASSUME NEW v \in writes' PROVE WriteCovered(v)' /\ LastWrite(v)'
  BY <1>1, <1>2, <1>4, <1>7 DEF WriteCovered, LastWrite
<1> QED
  BY <1>4, <1>6, <1>7 DEF Recoverable, OneWriteEach

(* A propagation goes on: what the new mark leaves without support is above *)
(* it, and is reached by a mark that came before it.                        *)
LEMMA MarkSaved ==
  ASSUME RInv, Recoverable, NEW w \in writes, ~LastWrite(w),
         saved' = [saved EXCEPT ![w.task] = w.rec], writes' = writes \ {w},
         \A v \in writes : w.rank <= v.rank
  PROVE  Recoverable'
<1> SUFFICES ASSUME NEW x, x = w.task PROVE Recoverable'
  OBVIOUS
<1>1. x \in Ids /\ saved' \in [Ids -> Recs] /\ saved'[x] = w.rec /\ \A u \in Ids \ {x} : saved'[u] = saved[u]
  BY WriteOf DEF RInv, Typed, ReviewTypeOK
<1>2. \A v \in writes : v.task \in Ids /\ v.rank \in Nat
  BY WriteOf
<1>3. /\ OneWriteEach /\ ViewsCovered /\ WriteCovered(w)
      /\ ~IsConfirmed(w.rec, x) /\ (Flows(w.rec) <=> Flows(saved[x]))
  BY DEF Recoverable
<1>4. \A v \in writes' : v \in writes /\ v.task # x
  BY <1>3 DEF OneWriteEach
<1>5. ASSUME NEW u \in Ids PROVE Reach(saved', u) = Reach(saved, u) /\ Down(saved', u) = Down(saved, u)
  <2>1. \A t \in Ids : Flows(saved'[t]) <=> Flows(saved[t])
    BY <1>1, <1>3
  <2>2. Reach(saved', u) = Reach(saved, u)
    BY <2>1, FlowsRest
  <2> QED
    BY <2>2, ReachIs
<1>6. ASSUME NEW t, NEW u \in Ids, IsRoot(saved'[u], u), t \in Down(saved, u), \A v \in writes' : v.task = u => IsRoot(v.rec, u)
      PROVE  Covered(t)'
  BY <1>5, <1>6 DEF Covered
<1>7. ASSUME NEW t, Covered(t) PROVE Covered(t)'
  <2>1. PICK u \in Ids : /\ IsRoot(saved[u], u) /\ t \in Down(saved, u)
                         /\ \A v \in writes : v.task = u => IsRoot(v.rec, u)
    BY <1>7 DEF Covered
  <2>2. IsRoot(saved'[u], u)
    BY <1>1, <2>1
  <2> QED
    BY <1>4, <1>6, <2>1, <2>2
<1>8. ASSUME NEW t, IsRoot(w.rec, x), t \in Down(saved, x) PROVE Covered(t)'
  BY <1>1, <1>4, <1>6, <1>8
<1>9. ASSUME NEW v \in writes' PROVE WriteCovered(v)'
  <2>1. v \in writes /\ v.task # x /\ v.task \in Ids /\ WriteCovered(v) /\ saved'[v.task] = saved[v.task]
    BY <1>1, <1>2, <1>4 DEF Recoverable
  <2> SUFFICES ASSUME IsConfirmed(saved[v.task], v.task), ~IsConfirmed(v.rec, v.task), ~IsRoot(v.rec, v.task)
               PROVE  \/ Covered(v.task)'
                      \/ \E z \in writes' : /\ IsRoot(z.rec, z.task) /\ z.rank < v.rank
                                            /\ v.task \in Down(saved', z.task)
    BY <2>1 DEF WriteCovered
  <2>2. CASE Covered(v.task)
    BY <1>7, <2>2
  <2>3. CASE \E z \in writes : /\ IsRoot(z.rec, z.task) /\ z.rank < v.rank /\ v.task \in Down(saved, z.task)
    <3>1. PICK z \in writes : IsRoot(z.rec, z.task) /\ z.rank < v.rank /\ v.task \in Down(saved, z.task)
      BY <2>3
    <3>2. CASE z = w
      BY <1>8, <3>1, <3>2
    <3>3. CASE z # w
      BY <1>2, <1>5, <3>1, <3>3
    <3> QED
      BY <3>2, <3>3
  <2> QED
    BY <2>1, <2>2, <2>3 DEF WriteCovered
<1>10. ASSUME NEW t \in Ids, IsConfirmed(saved'[t], t), NEW d \in Deps[t], ~IsConfirmed(saved'[d], d)
       PROVE  Covered(t)'
  <2>1. t # x /\ saved'[t] = saved[t] /\ IsConfirmed(saved[t], t) /\ d \in Ids
    BY <1>1, <1>3, <1>10, DepsInIds
  <2>2. IsConfirmed(saved[d], d) \/ Covered(t)
    BY <1>3, <2>1 DEF ViewsCovered
  <2>3. CASE IsConfirmed(saved[d], d)
    <3>1. d = x /\ WriteCovered(w)
      BY <1>1, <1>3, <1>10, <2>1, <2>3
    <3>2. Rests(saved, t, x)
      BY <1>10, <2>1, <3>1 DEF Rests, IsConfirmed
    <3>3. t \in Down(saved, x)
      BY <1>1, <2>1, <3>2, ReachIs, ReachIsClosed
    <3>4. ASSUME NEW u \in Ids, x \in Down(saved, u) PROVE t \in Down(saved, u)
      <4>1. x \in Reach(saved, u) /\ u <= x /\ x < t /\ u \in Nat /\ x \in Nat /\ t \in Nat
        BY <1>1, <2>1, <3>1, <3>4, ReachIs, DepsInIds, ReviewAssumption DEF Ids
      <4>2. t \in Reach(saved, u)
        BY <3>2, <4>1, ReachIsClosed
      <4> QED
        BY <4>1, <4>2, ReachIs
    <3>5. CASE IsRoot(w.rec, x)
      BY <1>8, <3>3, <3>5
    <3>6. CASE Covered(x)
      <4>1. Covered(t)
        BY <3>4, <3>6 DEF Covered
      <4> QED
        BY <1>7, <4>1
    <3>7. ~\E v \in writes : v.rank < w.rank
      BY <1>2
    <3> QED
      BY <1>3, <2>3, <3>1, <3>5, <3>6, <3>7 DEF WriteCovered
  <2> QED
    BY <1>7, <2>2, <2>3
<1>11. ViewsCovered'
  BY <1>10 DEF ViewsCovered
<1>12. ASSUME NEW v \in writes'
       PROVE  ~IsConfirmed(v.rec, v.task) /\ (Flows(v.rec) <=> Flows(saved'[v.task]))
  <2>1. v \in writes /\ v # w /\ saved'[v.task] = saved[v.task]
    BY <1>1, <1>2, <1>4
  <2>2. ~LastWrite(v)
    BY <2>1 DEF LastWrite
  <2> QED
    BY <2>1, <2>2 DEF Recoverable
<1>13. OneWriteEach'
  BY <1>3, <1>4 DEF OneWriteEach
<1> QED
  BY <1>9, <1>11, <1>12, <1>13 DEF Recoverable

LEMMA FlushBacked == ASSUME RInv, Backing, Flush PROVE Backing'
<1> SUFFICES ASSUME lapses = {} PROVE BackedParts' /\ CallsBacked'
  BY DEF Flush, Backing
<1>1. PICK w \in writes :
         /\ \A v \in writes : w.rank <= v.rank
         /\ saved' = [saved EXCEPT ![w.task] = w.rec]
         /\ writes' = writes \ {w}
  BY DEF Flush
<1>2. UNCHANGED <<result, call, waiting>> /\ BackedParts /\ CallsBacked
  BY DEF Flush, Backing
<1>3. w.task \in Ids /\ saved'[w.task] = w.rec /\ \A u \in Ids \ {w.task} : saved'[u] = saved[u]
  BY <1>1, WriteOf DEF RInv, Typed, ReviewTypeOK
<1>4. \A v \in writes : v.rank \in Nat
  BY WriteOf
<1>5. Backed'
  BY <1>2 DEF BackedParts, Backed
<1>6. ASSUME NEW t \in Ids PROVE Agrees(t)'
  <2>1. Agrees(t)
    BY <1>2 DEF BackedParts, AllAgree
  <2>2. CASE t # w.task
    BY <1>1, <1>2, <1>3, <2>1, <2>2 DEF Agrees
  <2>3. CASE t = w.task
    <3>1. PICK q \in writes : /\ q.task = t /\ Alike(t, q.rec, result[t])
                              /\ \A v \in writes : v.task = t /\ v # q => v.rank < q.rank
      BY <2>1, <2>3 DEF Agrees
    <3>2. CASE q = w
      <4>1. \A v \in writes' : v.task # t
        BY <1>1, <1>4, <3>1, <3>2
      <4> QED
        BY <1>2, <1>3, <2>3, <3>1, <3>2, <4>1 DEF Agrees
    <3>3. CASE q # w
      BY <1>1, <1>2, <3>1, <3>3 DEF Agrees
    <3> QED
      BY <3>2, <3>3
  <2> QED
    BY <2>2, <2>3
<1>7. AllAgree'
  BY <1>6 DEF AllAgree
<1>8. CutFits'
  BY <1>1, <1>2 DEF BackedParts, CutFits
<1>9. Cutting' \/ Recoverable'
  <2>1. CASE Cutting /\ ~Cutting'
    <3>1. w.rank = N + 1
      BY <1>1, <2>1 DEF Cutting
    <3> QED
      BY <1>1, <1>2, <3>1, RetractionSaved
  <2>2. CASE ~Cutting /\ LastWrite(w)
    <3>1. writes' = {}
      BY <1>1, <2>2 DEF LastWrite
    <3> QED
      BY <1>5, <1>7, <3>1, NoWritesLeft
  <2>3. CASE ~Cutting /\ ~LastWrite(w)
    BY <1>1, <1>2, <2>3, MarkSaved DEF BackedParts
  <2> QED
    BY <2>1, <2>2, <2>3
<1>10. CallsBacked'
  BY <1>2 DEF CallsBacked
<1> QED
  BY <1>5, <1>7, <1>8, <1>9, <1>10 DEF BackedParts

-----------------------------------------------------------------------------
(* A crash: hydrateTasks finds in the views what the lost writes would have *)
(* said.                                                                    *)

(* The roots above a task.                                                  *)
Over(tk, t) == {u \in Ids : IsRoot(tk[u], u) /\ t \in Down(tk, u)}

LEMMA HydrateIs ==
  ASSUME NEW tk \in [Ids -> Recs], NEW t \in Ids
  PROVE  /\ Over(tk, t) = {} => HydrateTasks(tk)[t] = tk[t]
         /\ (\E z \in Over(tk, t) : Over(tk, z) = {}) => ~IsConfirmed(HydrateTasks(tk)[t], t)
<1> DEFINE Gone(u) == tk[u].rev.st = "retracted"
           Self(u) == tk[u].rev.st = "needs_recheck" /\ tk[u].rev.by = u
           down == [u \in {v \in Ids : Gone(v) \/ Self(v)} |-> Down(tk, u)]
           Above(u) == {v \in DOMAIN down : u \in down[v]}
           Root(u) == Gone(u) \/ Above(u) = {}
           Roots(u) == {v \in Above(u) : Root(v)}
<1>1. HydrateTasks(tk)[t] = IF Roots(t) # {} /\ ~Gone(t) THEN Rechecked(tk[t], Max(Roots(t))) ELSE tk[t]
  BY DEF HydrateTasks, Rechecked
<1>2. \A u \in Ids : Above(u) = Over(tk, u)
  BY DEF Over, IsRoot
<1>3. \A u \in Ids : Over(tk, u) \subseteq Ids
  BY DEF Over
<1> HIDE DEF Above
<1>4. Over(tk, t) = {} => Roots(t) = {}
  BY <1>2
<1>5. (\E z \in Over(tk, t) : Over(tk, z) = {}) => Roots(t) # {}
  BY <1>2, <1>3
<1>6. Gone(t) => ~IsConfirmed(tk[t], t)
  BY DEF IsConfirmed
<1>7. ~IsConfirmed(Rechecked(tk[t], Max(Roots(t))), t)
  <2>1. \A b : Rechecked(tk[t], b).rev.st = "needs_recheck"
    BY DEF Rechecked, Recs
  <2> QED
    BY <2>1 DEF IsConfirmed
<1> HIDE DEF Roots, Gone
<1> QED
  BY <1>1, <1>4, <1>5, <1>6, <1>7

(* Above a task with a root above it there is one with none above itself.   *)
LEMMA HighestRoot ==
  ASSUME NEW tk, NEW t \in Ids, Over(tk, t) # {}
  PROVE  \E z \in Over(tk, t) : Over(tk, z) = {}
<1>1. Over(tk, t) \in SUBSET Nat /\ Over(tk, t) \subseteq Ids /\ \A u \in Ids : u \in Nat
  BY ReviewAssumption DEF Over, Ids
<1>2. PICK z \in Over(tk, t) : \A y \in Over(tk, t) : z <= y
  BY <1>1, LeastNat
<1>3. ASSUME NEW y \in Over(tk, z) PROVE FALSE
  <2>1. y \in Ids /\ IsRoot(tk[y], y) /\ z \in Down(tk, y) /\ z \in Ids /\ t \in Down(tk, z)
    BY <1>1 DEF Over
  <2>2. z \in Reach(tk, y) /\ z # y /\ t \in Reach(tk, z) /\ y <= z /\ z <= t
    BY <2>1, ReachIs
  <2>3. y < z /\ t # y
    BY <1>1, <2>1, <2>2
  <2>4. t \in Reach(tk, y)
    BY <2>1, <2>2, ReachTransitive
  <2>5. y \in Over(tk, t)
    BY <2>1, <2>3, <2>4, ReachIs DEF Over
  <2> QED
    BY <1>1, <1>2, <2>1, <2>3, <2>5
<1> QED
  BY <1>2, <1>3

LEMMA CrashRehydrateBacked == ASSUME RInv, Backing, CrashRehydrate PROVE Backing'
<1> SUFFICES ASSUME NEW tk, tk = HydrateTasks(saved), lapses' = {} PROVE BackedParts' /\ CallsBacked'
  BY DEF Backing
<1>1. /\ result' = tk /\ writes' = {ViewWrite(t, tk[t], t) : t \in {u \in Ids : tk[u] # saved[u]}}
      /\ waiting' = Nobody /\ UNCHANGED saved /\ lapses = {} /\ ~Cutting
  BY DEF CrashRehydrate, Cutting
<1>2. saved \in [Ids -> Recs]
  BY DEF RInv, Typed, ReviewTypeOK
<1>3. tk \in [Ids -> Recs] /\ \A t \in Ids : tk[t] = saved[t] \/ Marked(saved[t], tk[t])
  BY <1>2, HydrateMarks DEF Marks
<1>4. ViewsCovered
  BY <1>1 DEF Backing, BackedParts, Recoverable
<1>5. ASSUME NEW t \in Ids, Over(saved, t) # {}
      PROVE  ~IsConfirmed(tk[t], t) /\ \E z \in Over(saved, t) : tk[z] = saved[z]
  <2>1. PICK z \in Over(saved, t) : Over(saved, z) = {}
    BY <1>5, HighestRoot
  <2>2. z \in Ids
    BY DEF Over
  <2> QED
    BY <1>2, <2>1, <2>2, HydrateIs
<1>6. \A t \in Ids : tk[t] # saved[t] => Over(saved, t) # {}
  BY <1>2, HydrateIs
<1>7. ASSUME NEW w \in writes' PROVE w.task \in Ids /\ w.rec = tk[w.task] /\ tk[w.task] # saved[w.task] /\ w.rank = w.task
  BY <1>1 DEF ViewWrite
<1>8. \A v, w \in writes' : v.task = w.task => v = w
  BY <1>1 DEF ViewWrite
<1>9. ASSUME NEW t \in Ids, Over(saved, t) # {} PROVE Covered(t)'
  <2>1. PICK z \in Over(saved, t) : tk[z] = saved[z]
    BY <1>5, <1>9
  <2>2. \A w \in writes' : w.task # z
    BY <1>7, <2>1
  <2>3. z \in Ids /\ IsRoot(saved'[z], z) /\ t \in Down(saved', z)
    BY <1>1 DEF Over
  <2> QED
    BY <2>2, <2>3 DEF Covered
<1>10. \A t \in Ids : Covered(t) => Over(saved, t) # {}
  BY DEF Covered, Over
<1>11. Backed'
  <2>1. ASSUME NEW t \in Ids, IsConfirmed(tk[t], t), NEW d \in Deps[t] PROVE IsConfirmed(tk[d], d)
    <3>1. tk[t] = saved[t] /\ Over(saved, t) = {} /\ d \in Ids
      BY <1>3, <1>5, <2>1, DepsInIds DEF Marked, IsConfirmed
    <3>2. IsConfirmed(saved[d], d)
      BY <1>4, <1>10, <2>1, <3>1 DEF ViewsCovered
    <3>3. ASSUME NEW u \in Over(saved, d) PROVE FALSE
      <4>1. u \in Ids /\ IsRoot(saved[u], u) /\ d \in Reach(saved, u) /\ u <= d /\ d < t
        BY DepsInIds, ReachIs DEF Over
      <4>2. Rests(saved, t, d)
        BY <2>1, <3>1 DEF Rests, IsConfirmed
      <4>3. t \in Reach(saved, u) /\ t # u
        BY <3>1, <4>1, <4>2, ReachIsClosed, ReviewAssumption DEF Ids
      <4>4. u \in Over(saved, t)
        BY <4>1, <4>3, ReachIs DEF Over
      <4> QED
        BY <3>1, <4>4
    <3> QED
      BY <1>6, <3>1, <3>2, <3>3
  <2> QED
    BY <1>1, <2>1 DEF Backed
<1>12. AllAgree' /\ OneWriteEach'
  <2>1. ASSUME NEW t \in Ids PROVE (\E w \in writes' : w.task = t) \/ Alike(t, saved'[t], result'[t])
    <3>1. CASE tk[t] = saved[t]
      BY <1>1, <3>1 DEF Alike
    <3>2. CASE tk[t] # saved[t]
      <4>1. ViewWrite(t, tk[t], t) \in writes' /\ ViewWrite(t, tk[t], t).task = t
        BY <1>1, <3>2 DEF ViewWrite
      <4> QED
        BY <4>1
    <3> QED
      BY <3>1, <3>2
  <2>2. \A w \in writes' : w.rec = result'[w.task]
    BY <1>1, <1>7
  <2> QED
    BY <1>8, <2>1, <2>2, FreshAgrees
<1>13. CutFits'
  <2>1. \A w \in writes' : w.rank \in 0..N
    BY <1>7, IdsAreNumbers
  <2> QED
    BY <2>1, NoCut
<1>14. ViewsCovered'
  <2>1. \A t \in Ids : IsConfirmed(saved[t], t) => \A d \in Deps[t] : IsConfirmed(saved[d], d) \/ Over(saved, t) # {}
    BY <1>4, <1>10 DEF ViewsCovered
  <2> QED
    BY <1>1, <1>9, <2>1 DEF ViewsCovered
<1>15. ASSUME NEW w \in writes' PROVE WriteCovered(w)'
  BY <1>6, <1>7, <1>9 DEF WriteCovered
<1>16. ASSUME NEW w \in writes'
       PROVE  ~IsConfirmed(w.rec, w.task) /\ (Flows(w.rec) <=> Flows(saved'[w.task]))
  BY <1>1, <1>3, <1>7 DEF Marked, IsConfirmed, Flows
<1>17. Recoverable'
  BY <1>12, <1>14, <1>15, <1>16 DEF Recoverable
<1>18. CallsBacked'
  BY <1>1, NobodyWaits
<1> QED
  BY <1>11, <1>12, <1>13, <1>17, <1>18 DEF BackedParts

-----------------------------------------------------------------------------
LEMMA LoseWriteBacked == ASSUME LoseWrite PROVE Backing'
BY DEF LoseWrite, Backing

LEMMA ReviewInitBacked == ASSUME ReviewInit PROVE Backing
<1>1. saved = result /\ writes = {} /\ waiting = Nobody
  BY DEF ReviewInit
<1>2. \A t \in Ids : ~IsConfirmed(result[t], t)
  BY DEF ReviewInit, IsConfirmed, Review
<1>3. Backed /\ ViewsCovered
  BY <1>1, <1>2 DEF Backed, ViewsCovered
<1>4. AllAgree
  BY <1>1 DEF AllAgree, Agrees, Alike
<1>5. CutFits /\ Recoverable
  BY <1>1, <1>3 DEF CutFits, Recoverable, OneWriteEach
<1>6. CallsBacked
  BY <1>1, ReviewAssumption DEF CallsBacked, Nobody
<1> QED
  BY <1>3, <1>4, <1>5, <1>6 DEF Backing, BackedParts

LEMMA BackingStep == RInv /\ Backing /\ [ReviewNext]_reviewVars => Backing'
<1> SUFFICES ASSUME RInv, Backing, [ReviewNext]_reviewVars PROVE Backing'
  OBVIOUS
<1>1. ASSUME NEW t \in Ids, Look(t) \/ ConfirmRefused(t) \/ Confirm(t) \/ Retract(t) \/ InspectRetry(t) \/ Edit(t)
      PROVE  Backing'
  BY <1>1, LookBacked, ConfirmRefusedBacked, ConfirmBacked, RetractBacked, RetryAskedBacked, EditBacked
<1>2. ASSUME NEW h \in Reviews,
             \/ \E t \in Ids : AskMerge(h, t)
             \/ TimeOut(h) \/ Answer(h) \/ MergeCheck(h) \/ Merge(h) \/ MergeFails(h) \/ Merged(h)
      PROVE  Backing'
  BY <1>2, AskMergeBacked, TimeOutBacked, AnswerBacked, MergingBacked, MergeFailsBacked, MergedBacked
<1>3. ASSUME RetryRefused \/ RetryGo \/ ExecuteAgain \/ Finish PROVE Backing'
  BY <1>3, RetryAskedBacked, RetryGoBacked, ExecuteAgainBacked, FinishBacked
<1>4. ASSUME Flush \/ LoseWrite \/ CrashRehydrate PROVE Backing'
  BY <1>4, FlushBacked, LoseWriteBacked, CrashRehydrateBacked
<1>5. ASSUME UNCHANGED reviewVars PROVE Backing'
  <2>1. UNCHANGED <<result, saved, writes, lapses, call, waiting>>
    BY <1>5 DEF reviewVars
  <2> QED
    BY <2>1, SameBooks, SameCalls DEF Backing
<1> QED
  BY <1>1, <1>2, <1>3, <1>4, <1>5 DEF ReviewNext

(* A confirmed result rests on confirmed results only, for any number of    *)
(* tasks, edges, reviews, edits and crashes (isShareable, hydrateTasks and  *)
(* invalidateDependents of subagents.cjs).                                  *)
THEOREM SharedIsAlwaysBacked == ReviewSpec => []SharedIsBacked
<1>1. ReviewInit => RInv /\ Backing
  BY ReviewInitGood, ReviewInitBacked
<1>2. RInv /\ Backing /\ [ReviewNext]_reviewVars => (RInv /\ Backing)'
  BY ReviewStep, BackingStep
<1>3. RInv /\ Backing => SharedIsBacked
  BY DEF Backing, BackedParts, SharedIsBacked
<1> QED
  BY <1>1, <1>2, <1>3, PTL DEF ReviewSpec

=============================================================================
