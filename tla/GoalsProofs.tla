----------------------------- MODULE GoalsProofs -----------------------------
(***************************************************************************)
(* Unattended work keeps its promises for any tasks, dependencies, limits, *)
(* crashes, failed writes and interventions: no task is worked on twice at *)
(* a time, what was cut off is not run again before it was reviewed, the   *)
(* allowance is not exceeded, and a stop holds for what is under way.       *)
(***************************************************************************)
EXTENDS Goals, WellFoundedInduction, TLAPS

(* The runs of this process are admitted, and a task has one at most that   *)
(* was not settled.                                                         *)
RunsOk ==
  /\ \A r \in live : adm[r].st = "running" /\ adm[r].task \notin lost
  /\ \A q, r \in Unsettled : adm[q].task = adm[r].task => q = r

(* A task that was cut off still has its run, or waits for a review.        *)
LostOk == \A t \in lost : Active(t) \/ Unclear(t)

(* A continuation is paid for when it is claimed.                           *)
PaidOk ==
  /\ carried \in Nat
  /\ claim.asks => carried + 1 <= goal.used
  /\ carried <= goal.used

(* An execution that was stopped is the present one only while it stops.    *)
StopsOk ==
  /\ \A s \in stopped : s \in 0..exec.id
  /\ exec.id \in stopped => exec.st \in {"stopping", "stopped"}

(* The claim of the process and the task that shows the same id agree on    *)
(* the execution.                                                           *)
ClaimsOk ==
  /\ made \in 0..MaxClaims /\ claim.id \in 0..made
  /\ \A t \in Tasks :
       /\ task[t].auto.claim \in 0..made
       /\ task[t].auto.st = "claimed" /\ task[t].auto.claim = claim.id
            => task[t].auto.exec = claim.exec \/ claim.exec = 0

(* A claim, a dispatch and a run under way are of a task.                   *)
Named ==
  /\ claim # NoClaim => claim.task \in Tasks
  /\ window # Idle => window.task \in Tasks /\ window.claim # 0

TypesOk ==
  /\ TypeOK /\ lost \subseteq Tasks /\ Named
  /\ \A r \in Runs : adm[r].st = "running" => adm[r].task \in Tasks

IInv == TypesOk /\ RunsOk /\ LostOk /\ PaidOk /\ StopsOk /\ ClaimsOk

-----------------------------------------------------------------------------
(* A non-empty set of naturals has a least element.                         *)
LEMMA LeastNat ==
  ASSUME NEW S \in SUBSET Nat, S # {}
  PROVE  \E x \in S : \A y \in S : x <= y
<1>1. PICK x \in S : \A y \in S : ~(<<y, x>> \in OpToRel(<, Nat))
  BY NatLessThanWellFounded, WFMin, Zenon
<1>2. \A y \in S : ~(y < x)
  BY <1>1 DEF OpToRel
<1>3. QED BY <1>2

(* The operators of the model.                                              *)
LEMMA FirstIsThere ==
  ASSUME NEW s, FirstOf(s) # NoTask
  PROVE  FirstOf(s) \in s /\ FirstOf(s) \in Tasks
<1> DEFINE at == {i \in 1..Len(Order) : Order[i] \in s}
<1>1. at # {} /\ FirstOf(s) = Order[CHOOSE i \in at : \A j \in at : i <= j]
  BY DEF FirstOf
<1>2. PICK i \in at : \A j \in at : i <= j
  <2>1. at \in SUBSET Nat
    OBVIOUS
  <2> HIDE DEF at
  <2>2. QED BY <1>1, <2>1, LeastNat
<1>3. (CHOOSE k \in at : \A j \in at : k <= j) \in at
  BY <1>2
<1>4. \A k \in at : Order[k] \in s /\ Order[k] \in Tasks
  BY GoalsAssumption
<1> HIDE DEF at
<1>5. QED BY <1>1, <1>3, <1>4

(* A task that the scheduler claims may be run, and if it goes on after a   *)
(* wait, something of the allowance is left.                                *)
LEMMA ScannedMayRun ==
  ASSUME Decision = "run"
  PROVE  /\ Scanned \in Tasks /\ Scanned # NoTask /\ CanRun(Scanned)
         /\ AfterWait(Scanned) => goal.authorized /\ goal.used < Cap
<1>1. Scanned # NoTask /\ ~Attempted(Scanned) /\ CanRun(Scanned)
  BY DEF Decision
<1>2. Scanned \in Tasks /\ Settles(Scanned)
  BY <1>1, FirstIsThere DEF Scanned
<1>3. ~Unclear(Scanned) /\ goal.st = "active"
  BY <1>1 DEF CanRun
<1>4. QED BY <1>1, <1>2, <1>3 DEF Settles

LEMMA AutoOps ==
  /\ NoAuto \in Autos /\ NoAuto.st = "none" /\ NoAuto.claim = 0
  /\ \A a \in Autos : /\ Failed(a) \in Autos /\ Failed(a).st = "failed" /\ Failed(a).claim = 0
                      /\ Over(a) \in Autos /\ Over(a).st = "none" /\ Over(a).claim = 0
<1>1. NoAuto \in Autos /\ NoAuto.st = "none" /\ NoAuto.claim = 0
  BY DEF NoAuto, Autos
<1>2. ASSUME NEW a \in Autos
      PROVE  /\ Failed(a) \in Autos /\ Failed(a).st = "failed" /\ Failed(a).claim = 0
             /\ Over(a) \in Autos /\ Over(a).st = "none" /\ Over(a).claim = 0
  <2>1. a.exec \in {0} \cup Starts /\ a.fresh \in BOOLEAN
    BY DEF Autos
  <2>2. Over(a) \in Autos /\ Over(a).st = "none" /\ Over(a).claim = 0
    BY <1>1, <2>1 DEF Over, Autos
  <2>3. Failed(a) \in Autos /\ Failed(a).st = "failed" /\ Failed(a).claim = 0
    BY <1>1, <2>1 DEF Failed, Autos
  <2>4. QED BY <2>2, <2>3
<1>3. QED BY <1>1, <1>2

LEMMA InitGood == Init => IInv
<1> SUFFICES ASSUME Init PROVE IInv
  OBVIOUS
<1>1. task \in [Tasks -> TaskRecs] /\ \A t \in Tasks : task[t].auto.claim = 0
  <2>1. [st |-> "todo", exe |-> "other", auto |-> NoAuto] \in TaskRecs
    BY AutoOps DEF TaskRecs
  <2>2. QED BY <2>1, AutoOps DEF Init
<1>2. goal \in GoalRecs /\ exec \in ExecRecs /\ window \in WindowRecs /\ claim \in ClaimRecs
  BY GoalsAssumption DEF Init, GoalRecs, ExecRecs, WindowRecs, ClaimRecs, NoExec, Idle, NoClaim
<1>3. adm \in [Runs -> RunRecs] /\ \A r \in Runs : adm[r].st = "none"
  BY DEF Init, RunRecs, NoRun
<1>4. TypesOk
  BY <1>1, <1>2, <1>3 DEF Init, TypesOk, TypeOK, Named, Idle
<1>5. RunsOk /\ LostOk
  BY <1>3 DEF Init, RunsOk, LostOk, Unsettled
<1>6. PaidOk
  BY DEF Init, PaidOk, NoClaim
<1>7. StopsOk
  BY DEF Init, StopsOk
<1>8. ClaimsOk
  <2>1. claim.id = 0 /\ claim.exec = 0 /\ made = 0
    BY DEF Init, NoClaim
  <2>2. QED BY <1>1, <2>1, GoalsAssumption DEF ClaimsOk
<1>9. QED BY <1>4, <1>5, <1>6, <1>7, <1>8 DEF IInv

-----------------------------------------------------------------------------
(* What most steps have in common: they leave the runs alone, and claims are*)
(* kept or let go of.                                                       *)

Unclaims(t) ==
  /\ task'[t].auto.claim \in {0, task[t].auto.claim}
  /\ task'[t].auto.st = "claimed" => /\ task[t].auto.st = "claimed"
                                     /\ task'[t].auto.claim = task[t].auto.claim
                                     /\ task'[t].auto.exec = task[t].auto.exec

ClaimKeptOrGone ==
  /\ claim'.id \in {0, claim.id} /\ (claim'.asks => claim.asks)
  /\ claim'.exec = 0 \/ (claim'.exec = claim.exec /\ claim'.id = claim.id)

LEMMA ClaimsFrame ==
  ASSUME ClaimsOk, made' = made, ClaimKeptOrGone, \A t \in Tasks : Unclaims(t)
  PROVE  ClaimsOk'
<1>1. made' \in 0..MaxClaims /\ claim'.id \in 0..made'
  BY DEF ClaimsOk, ClaimKeptOrGone
<1>2. ASSUME NEW t \in Tasks
      PROVE  /\ task'[t].auto.claim \in 0..made'
             /\ task'[t].auto.st = "claimed" /\ task'[t].auto.claim = claim'.id
                  => task'[t].auto.exec = claim'.exec \/ claim'.exec = 0
  BY <1>1 DEF ClaimsOk, ClaimKeptOrGone, Unclaims
<1>3. QED BY <1>1, <1>2 DEF ClaimsOk

LEMMA RunsFrame ==
  ASSUME RunsOk, UNCHANGED <<adm, live, lost>>
  PROVE  RunsOk'
BY DEF RunsOk, Unsettled

LEMMA LostFrame ==
  ASSUME TypesOk, LostOk, UNCHANGED <<adm, lost>>, reviewed' \subseteq reviewed,
         \A t \in Tasks : task'[t].exe = task[t].exe
  PROVE  LostOk'
BY DEF LostOk, TypesOk, Active, Unsettled, Unclear

LEMMA PaidFrame ==
  ASSUME PaidOk, carried' = carried, goal'.used = goal.used, claim'.asks => claim.asks
  PROVE  PaidOk'
BY DEF PaidOk

LEMMA StopsFrame ==
  ASSUME StopsOk, stopped' = stopped, exec'.id = exec.id,
         exec.id \in stopped => exec'.st \in {"stopping", "stopped"}
  PROVE  StopsOk'
BY DEF StopsOk

LEMMA Frame ==
  ASSUME IInv, TypeOK', Named', UNCHANGED <<adm, live, lost, carried, stopped, made>>,
         goal'.used = goal.used, exec'.id = exec.id,
         exec.id \in stopped => exec'.st \in {"stopping", "stopped"},
         ClaimKeptOrGone, reviewed' \subseteq reviewed,
         \A t \in Tasks : task'[t].exe = task[t].exe /\ Unclaims(t)
  PROVE  IInv'
<1>1. TypesOk'
  BY DEF IInv, TypesOk
<1>2. RunsOk' /\ LostOk'
  BY RunsFrame, LostFrame DEF IInv
<1>3. PaidOk' /\ StopsOk'
  BY PaidFrame, StopsFrame DEF IInv, ClaimKeptOrGone
<1>4. ClaimsOk'
  BY ClaimsFrame DEF IInv
<1>5. QED BY <1>1, <1>2, <1>3, <1>4 DEF IInv

LEMMA NoClaimGone == NoClaim.id = 0 /\ NoClaim.exec = 0 /\ ~NoClaim.asks /\ NoClaim \in ClaimRecs
BY DEF NoClaim, ClaimRecs

LEMMA NothingUnclaimed == \A t \in Tasks : task'[t] = task[t] => Unclaims(t) /\ task'[t].exe = task[t].exe
BY DEF Unclaims

LEMMA ReleasedGood ==
  ASSUME TypeOK, NEW t \in Tasks, NEW id, task' = Released(t, id)
  PROVE  task' \in [Tasks -> TaskRecs] /\ \A u \in Tasks : task'[u].exe = task[u].exe /\ Unclaims(u)
<1>1. task \in [Tasks -> TaskRecs] /\ task[t].auto \in Autos
  BY DEF TypeOK, TaskRecs
<1>2. CASE task' = task
  BY <1>1, <1>2, NothingUnclaimed
<1>3. CASE task' = [task EXCEPT ![t].auto = Failed(task[t].auto)]
  <2>1. task'[t] = [task[t] EXCEPT !.auto = Failed(task[t].auto)]
    BY <1>1, <1>3
  <2>2. task'[t] \in TaskRecs /\ task'[t].exe = task[t].exe /\ task'[t].auto = Failed(task[t].auto)
    BY <1>1, <2>1, AutoOps DEF TaskRecs
  <2>3. task' \in [Tasks -> TaskRecs] /\ \A u \in Tasks \ {t} : task'[u] = task[u]
    BY <1>1, <1>3, <2>2
  <2>4. Unclaims(t)
    BY <1>1, <2>2, AutoOps DEF Unclaims
  <2>5. QED BY <2>2, <2>3, <2>4, NothingUnclaimed
<1>4. QED BY <1>2, <1>3 DEF Released

-----------------------------------------------------------------------------
(* The steps of the scheduler.                                              *)

LEMMA LetGoGood ==
  ASSUME TypesOk, claim # NoClaim, LetGo
  PROVE  /\ task' \in [Tasks -> TaskRecs] /\ claim' \in ClaimRecs /\ claim' = NoClaim
         /\ ClaimKeptOrGone /\ \A t \in Tasks : task'[t].exe = task[t].exe /\ Unclaims(t)
<1>1. claim' = NoClaim /\ claim' \in ClaimRecs /\ ClaimKeptOrGone
  BY NoClaimGone DEF LetGo, ClaimKeptOrGone
<1>2. CASE task' = Released(claim.task, claim.id)
  BY <1>1, <1>2, ReleasedGood DEF TypesOk, Named
<1>3. CASE UNCHANGED task
  BY <1>1, <1>3, NothingUnclaimed DEF TypesOk, TypeOK
<1>4. QED BY <1>2, <1>3 DEF LetGo

LEMMA ExpireGood == IInv /\ Expire => IInv'
<1> SUFFICES ASSUME IInv, Expire PROVE IInv'
  OBVIOUS
<1>1. /\ task' \in [Tasks -> TaskRecs] /\ claim' \in ClaimRecs /\ claim' = NoClaim
      /\ ClaimKeptOrGone /\ \A t \in Tasks : task'[t].exe = task[t].exe /\ Unclaims(t)
  BY LetGoGood DEF IInv, Expire
<1>2. TypeOK' /\ Named'
  BY <1>1 DEF IInv, Expire, TypesOk, TypeOK, Named, view
<1>3. QED BY <1>1, <1>2, Frame DEF IInv, StopsOk, Expire, history

LEMMA ReleaseWaitGood == \A t \in Tasks : IInv /\ ReleaseWait(t) => IInv'
<1> SUFFICES ASSUME IInv, NEW t \in Tasks, ReleaseWait(t) PROVE IInv'
  OBVIOUS
<1> DEFINE a == [NoAuto EXCEPT !.st = "ready", !.fresh = TRUE]
<1>1. a \in Autos /\ a.claim = 0 /\ a.st = "ready"
  BY DEF NoAuto, Autos
<1>2. task \in [Tasks -> TaskRecs] /\ task' = Set(t, "ready", a)
  BY DEF IInv, TypesOk, TypeOK, ReleaseWait
<1> HIDE DEF a
<1>3. task'[t] = [task[t] EXCEPT !.st = "ready", !.auto = a]
  BY <1>2 DEF Set
<1>4. task'[t] \in TaskRecs /\ task'[t].exe = task[t].exe /\ task'[t].auto = a
  <2>1. task[t] \in TaskRecs /\ a \in Autos
    BY <1>1, <1>2
  <2>2. task'[t].exe = task[t].exe /\ task'[t].auto = a
    BY <1>3, <2>1 DEF TaskRecs
  <2>3. task'[t] \in TaskRecs
    BY <1>3, <2>1 DEF TaskRecs
  <2>4. QED BY <2>2, <2>3
<1>5. task' \in [Tasks -> TaskRecs] /\ \A u \in Tasks \ {t} : task'[u] = task[u]
  BY <1>2, <1>4 DEF Set
<1>6. \A u \in Tasks : task'[u].exe = task[u].exe /\ Unclaims(u)
  BY <1>1, <1>4, <1>5, NothingUnclaimed DEF Unclaims
<1>7. TypeOK' /\ Named' /\ ClaimKeptOrGone
  BY <1>5 DEF IInv, ReleaseWait, TypesOk, TypeOK, Named, view, main, ClaimKeptOrGone
<1>8. QED BY <1>6, <1>7, Frame DEF IInv, StopsOk, ReleaseWait, history, main, bounds

LEMMA DecisionIsOne ==
  /\ Decision \in {"idle", "stopped", "waiting", "blocked", "run", "completed"}
  /\ exec.st = "stopping" => Decision \in {"idle", "stopped"}
  /\ exec.st \in {"none", "stopped", "blocked", "completed"} => Decision = "idle"
BY DEF Decision

LEMMA AdvancedGood ==
  ASSUME TypesOk, StopsOk, Decision # "idle"
  PROVE  /\ Advanced \in ExecRecs /\ Advanced.id = exec.id
         /\ exec.id \in stopped => Advanced.st \in {"stopping", "stopped"}
         /\ Decision = "run" => Advanced.st = "active"
<1>1. exec \in ExecRecs /\ Waiting \subseteq Tasks
  BY DEF TypesOk, TypeOK, Waiting
<1> DEFINE st == IF Decision = "run" THEN "active" ELSE Decision
           w == IF Decision \in {"run", "waiting"} /\ goal.st # "paused"
                THEN exec.waited \cup Waiting ELSE exec.waited
<1>2. st \in {"active", "waiting", "stopped", "blocked", "completed"}
  BY DecisionIsOne
<1>3. w \in SUBSET Tasks
  BY <1>1 DEF ExecRecs
<1>4. exec.st = "stopping" => st = "stopped"
  BY DecisionIsOne
<1>5. Decision = "run" => st = "active"
  OBVIOUS
<1>6. exec.st # "stopped"
  BY DecisionIsOne
<1>7. Advanced = [exec EXCEPT !.st = st, !.waited = w]
  BY DEF Advanced
<1> HIDE DEF st, w
<1>8. Advanced \in ExecRecs /\ Advanced.id = exec.id /\ Advanced.st = st
  BY <1>1, <1>2, <1>3, <1>7 DEF ExecRecs
<1>9. exec.id \in stopped => Advanced.st \in {"stopping", "stopped"}
  BY <1>4, <1>6, <1>8 DEF StopsOk
<1>10. QED BY <1>5, <1>8, <1>9

LEMMA CompletedGood ==
  \A g \in GoalRecs : /\ [g EXCEPT !.st = "completed"] \in GoalRecs
                      /\ [g EXCEPT !.st = "completed"].used = g.used
BY DEF GoalRecs

LEMMA AdvanceGood == IInv /\ Advance => IInv'
<1> SUFFICES ASSUME IInv, Advance PROVE IInv'
  OBVIOUS
<1>1. exec' = Advanced /\ Decision # "idle" /\ goal \in GoalRecs
  BY DEF IInv, Advance, TypesOk, TypeOK
<1>2. exec' \in ExecRecs /\ exec'.id = exec.id
      /\ (exec.id \in stopped => exec'.st \in {"stopping", "stopped"})
  BY <1>1, AdvancedGood DEF IInv
<1>3. goal' \in GoalRecs /\ goal'.used = goal.used
  BY <1>1, CompletedGood DEF Advance
<1>4. TypeOK' /\ Named' /\ ClaimKeptOrGone
  BY <1>2, <1>3 DEF IInv, Advance, TypesOk, TypeOK, Named, view, main, ClaimKeptOrGone
<1>5. \A t \in Tasks : task'[t].exe = task[t].exe /\ Unclaims(t)
  BY NothingUnclaimed DEF Advance
<1>6. QED BY <1>2, <1>3, <1>4, <1>5, Frame DEF Advance, history, main, bounds

(* Whatever leaves the store's runs, the goal, the execution and the tasks  *)
(* alone and claims nothing is a step of the frame.                         *)
LEMMA StillGood ==
  ASSUME IInv, TypeOK', Named', UNCHANGED <<adm, live, lost, carried, stopped, made>>,
         UNCHANGED <<exec, task, reviewed>>, goal'.used = goal.used, ClaimKeptOrGone
  PROVE  IInv'
<1>1. \A t \in Tasks : task'[t].exe = task[t].exe /\ Unclaims(t)
  BY NothingUnclaimed
<1>2. QED BY <1>1, Frame DEF IInv, StopsOk

LEMMA ChatEndsGood == IInv /\ ChatEnds => IInv'
<1> SUFFICES ASSUME IInv, ChatEnds PROVE IInv'
  OBVIOUS
<1>1. window \in WindowRecs /\ claim \in ClaimRecs /\ window.task \in Tasks
      /\ window.claim # 0
  BY DEF IInv, ChatEnds, TypesOk, TypeOK, Named, Idle
<1>2. window' \in WindowRecs /\ window'.task = window.task
      /\ window'.claim = window.claim
  BY <1>1 DEF ChatEnds, WindowRecs
<1>3. CASE UNCHANGED claim
  <2>1. TypeOK' /\ Named' /\ ClaimKeptOrGone
    BY <1>1, <1>2, <1>3 DEF IInv, ChatEnds, TypesOk, TypeOK, Named, store, ClaimKeptOrGone
  <2>2. QED BY <2>1, StillGood DEF ChatEnds, store, history, bounds
<1>4. CASE Accepts /\ claim' = [claim EXCEPT !.sent = TRUE]
  <2>1. claim' \in ClaimRecs /\ claim'.id = claim.id /\ claim'.exec = claim.exec
        /\ claim'.asks = claim.asks /\ claim'.task = claim.task
    BY <1>1, <1>4 DEF ClaimRecs
  <2>2. claim # NoClaim
    BY <1>1, <1>4, NoClaimGone DEF Accepts
  <2>3. TypeOK' /\ Named' /\ ClaimKeptOrGone
    BY <1>1, <1>2, <2>1, <2>2 DEF IInv, ChatEnds, TypesOk, TypeOK, Named, store, ClaimKeptOrGone
  <2>4. QED BY <2>3, StillGood DEF ChatEnds, store, history, bounds
<1>5. QED BY <1>3, <1>4 DEF ChatEnds

-----------------------------------------------------------------------------
(* Claims.                                                                  *)

(* What the process sends is a claim of a task with an id of its own.       *)
LEMMA SendGood ==
  ASSUME TypesOk, ClaimsOk, NEW t \in Tasks, NEW c \in ClaimRecs, Send(t, c)
  PROVE  /\ claim' \in ClaimRecs /\ claim'.id = made + 1 /\ claim'.task = t
         /\ claim'.exec = c.exec /\ claim'.asks = c.asks
         /\ window' \in WindowRecs /\ window'.task = t /\ window'.claim # 0
         /\ made' = made + 1 /\ made \in Nat /\ made' \in Claims /\ ready' = "busy"
<1>1. made \in 0..MaxClaims /\ made' = made + 1 /\ made < MaxClaims
  BY DEF ClaimsOk, Send
<1>2. made \in Nat /\ made' \in Claims /\ made' # 0
  BY <1>1, GoalsAssumption DEF Claims
<1>3. claim' = [c EXCEPT !.id = made', !.task = t]
  BY <1>1 DEF Send
<1>4. claim' \in ClaimRecs /\ claim'.id = made' /\ claim'.task = t
      /\ claim'.exec = c.exec /\ claim'.asks = c.asks
  BY <1>2, <1>3 DEF ClaimRecs
<1>5. window' = [Idle EXCEPT !.st = "told", !.claim = made', !.task = t]
  BY DEF Send
<1>6. window' \in WindowRecs /\ window'.task = t /\ window'.claim = made'
  BY <1>2, <1>5 DEF WindowRecs, Idle
<1>7. QED BY <1>1, <1>2, <1>4, <1>6 DEF Send

(* A claim of a task whose wait was paid for keeps the invariant.           *)
LEMMA ClaimedGood ==
  ASSUME IInv, NEW t \in Tasks, NEW c \in ClaimRecs, Send(t, c), NEW a \in Autos,
         task' = Set(t, task[t].st, a), a.claim = made', a.exec = c.exec \/ c.exec = 0,
         exec' \in ExecRecs, exec'.id = exec.id,
         exec.id \in stopped => exec'.st \in {"stopping", "stopped"},
         goal' \in GoalRecs, goal'.used >= goal.used,
         c.asks => goal'.used = goal.used + 1
  PROVE  IInv'
<1>1. /\ claim' \in ClaimRecs /\ claim'.id = made + 1 /\ claim'.task = t
      /\ claim'.exec = c.exec /\ claim'.asks = c.asks
      /\ window' \in WindowRecs /\ window'.task = t /\ window'.claim # 0
      /\ made' = made + 1 /\ made \in Nat /\ made' \in Claims /\ ready' = "busy"
  BY SendGood DEF IInv
<1>2. /\ UNCHANGED <<adm, reviewed, proof, live, lost, carried, stopped>>
      /\ task \in [Tasks -> TaskRecs]
  BY DEF Send, history, IInv, TypesOk, TypeOK
<1>3. task'[t] = [task[t] EXCEPT !.st = task[t].st, !.auto = a]
  BY <1>2 DEF Set
<1>4. task'[t] \in TaskRecs /\ task'[t].exe = task[t].exe /\ task'[t].auto = a
  <2>1. task[t] \in TaskRecs
    BY <1>2
  <2>2. task'[t].exe = task[t].exe /\ task'[t].auto = a
    BY <1>3, <2>1 DEF TaskRecs
  <2>3. task'[t] \in TaskRecs
    BY <1>3, <2>1 DEF TaskRecs
  <2>4. QED BY <2>2, <2>3
<1>5. task' \in [Tasks -> TaskRecs] /\ \A u \in Tasks \ {t} : task'[u] = task[u]
  BY <1>2, <1>4 DEF Set
<1>6. TypesOk'
  BY <1>1, <1>2, <1>5 DEF IInv, TypesOk, TypeOK, Named
<1>7. RunsOk' /\ LostOk'
  <2>1. \A u \in Tasks : task'[u].exe = task[u].exe
    BY <1>4, <1>5
  <2>2. QED BY <1>2, <2>1, RunsFrame, LostFrame DEF IInv
<1>8. PaidOk'
  <2>1. carried \in Nat /\ carried <= goal.used /\ goal.used \in Nat /\ goal'.used \in Nat
    BY GoalsAssumption DEF IInv, PaidOk, TypesOk, TypeOK, GoalRecs
  <2>2. QED BY <1>1, <1>2, <2>1 DEF PaidOk
<1>9. StopsOk'
  BY <1>2, StopsFrame DEF IInv
<1>10. ClaimsOk'
  <2>1. made' \in 0..MaxClaims /\ claim'.id \in 0..made' /\ claim'.id = made'
    BY <1>1, GoalsAssumption DEF Claims
  <2>2. ASSUME NEW u \in Tasks, u # t
        PROVE  task'[u].auto.claim \in 0..made' /\ task'[u].auto.claim # claim'.id
    <3>1. task[u].auto.claim \in 0..made /\ task'[u] = task[u]
      BY <1>5, <2>2 DEF IInv, ClaimsOk
    <3>2. QED BY <1>1, <3>1
  <2>3. task'[t].auto.claim \in 0..made' /\ (task'[t].auto.exec = claim'.exec \/ claim'.exec = 0)
    BY <1>1, <1>4
  <2>4. QED BY <2>1, <2>2, <2>3 DEF ClaimsOk
<1>11. QED BY <1>6, <1>7, <1>8, <1>9, <1>10 DEF IInv

LEMMA PaidForGood ==
  \A g \in GoalRecs : g.used < Cap =>
    /\ [g EXCEPT !.used = @ + 1] \in GoalRecs
    /\ [g EXCEPT !.used = @ + 1].used = g.used + 1
<1> SUFFICES ASSUME NEW g \in GoalRecs, g.used < Cap
             PROVE  /\ [g EXCEPT !.used = @ + 1] \in GoalRecs
                    /\ [g EXCEPT !.used = @ + 1].used = g.used + 1
  OBVIOUS
<1>1. Cap \in Nat /\ g.used \in 0..Cap
  BY GoalsAssumption DEF GoalRecs
<1>2. g.used + 1 \in 0..Cap
  BY <1>1
<1>3. \A n \in 0..Cap : [g EXCEPT !.used = n] \in GoalRecs /\ [g EXCEPT !.used = n].used = n
  BY DEF GoalRecs
<1>4. QED BY <1>2, <1>3

LEMMA ClaimNextGood == IInv /\ ClaimNext => IInv'
<1> SUFFICES ASSUME IInv, ClaimNext PROVE IInv'
  OBVIOUS
<1> DEFINE t == Scanned
           asks == AfterWait(t)
           c == [NoClaim EXCEPT !.exec = exec.id, !.asks = asks]
           a == [st |-> "claimed", claim |-> made', exec |-> exec.id, asks |-> asks, fresh |-> FALSE]
           e == [Advanced EXCEPT !.current = t, !.attempted = @ \cup {t}]
<1>1. Send(t, c) /\ exec' = e /\ task' = Set(t, task[t].st, a)
      /\ goal' = (IF asks THEN [goal EXCEPT !.used = @ + 1] ELSE goal) /\ Decision = "run"
  BY DEF ClaimNext
<1>2. t \in Tasks /\ (asks => goal.used < Cap)
  BY <1>1, ScannedMayRun
<1>3. asks \in BOOLEAN /\ exec.id \in {0} \cup Starts /\ goal \in GoalRecs
  BY DEF IInv, TypesOk, TypeOK, ExecRecs, TaskRecs, Autos, AfterWait
<1>4. exec' \in ExecRecs /\ exec'.id = exec.id
      /\ (exec.id \in stopped => exec'.st \in {"stopping", "stopped"})
  <2>1. Advanced \in ExecRecs /\ Advanced.id = exec.id
        /\ (exec.id \in stopped => Advanced.st \in {"stopping", "stopped"})
    BY <1>1, AdvancedGood DEF IInv
  <2> HIDE DEF t
  <2>2. e \in ExecRecs /\ e.id = Advanced.id /\ e.st = Advanced.st
    BY <1>2, <2>1 DEF ExecRecs
  <2>3. QED BY <1>1, <2>1, <2>2
<1>5. goal' \in GoalRecs /\ goal'.used >= goal.used /\ (asks => goal'.used = goal.used + 1)
  <2>1. goal.used \in Nat
    BY <1>3 DEF GoalRecs
  <2>2. CASE asks
    BY <1>1, <1>2, <1>3, <2>1, <2>2, PaidForGood
  <2>3. CASE ~asks
    BY <1>1, <1>3, <2>1, <2>3
  <2>4. QED BY <2>2, <2>3
<1> HIDE DEF t, asks
<1>6. c \in ClaimRecs /\ c.exec = exec.id /\ c.asks = asks
  BY <1>3, NoClaimGone DEF ClaimRecs, NoClaim
<1> HIDE DEF c
<1>7. made' \in Claims
  BY <1>1, <1>2, <1>6, SendGood DEF IInv
<1>8. a \in Autos /\ a.claim = made' /\ a.exec = exec.id
  BY <1>3, <1>7 DEF Autos
<1> HIDE DEF a, e
<1>9. QED BY <1>1, <1>2, <1>4, <1>5, <1>6, <1>8, ClaimedGood

LEMMA ClaimAfterWaitGood == IInv /\ ClaimAfterWait => IInv'
<1> SUFFICES ASSUME IInv, ClaimAfterWait PROVE IInv'
  OBVIOUS
<1> DEFINE t == FirstOf({u \in Tasks : task[u].st = "ready" /\ task[u].auto.st = "ready" /\ CanRun(u)})
           c == [NoClaim EXCEPT !.asks = TRUE]
           a == [task[t].auto EXCEPT !.st = "claimed", !.claim = made']
<1>1. /\ t # NoTask /\ Send(t, c) /\ task' = Set(t, task[t].st, a) /\ UNCHANGED exec
      /\ goal' = [goal EXCEPT !.used = @ + 1] /\ goal.used < Cap
  BY DEF ClaimAfterWait
<1>2. t \in Tasks
  BY <1>1, FirstIsThere
<1> HIDE DEF t
<1>3. goal' \in GoalRecs /\ goal'.used = goal.used + 1 /\ goal'.used >= goal.used
  <2>1. goal \in GoalRecs /\ goal.used \in Nat
    BY DEF IInv, TypesOk, TypeOK, GoalRecs
  <2>2. QED BY <1>1, <2>1, PaidForGood
<1>4. c \in ClaimRecs /\ c.exec = 0 /\ c.asks
  BY NoClaimGone DEF ClaimRecs, NoClaim
<1> HIDE DEF c
<1>5. made' \in Claims
  BY <1>1, <1>2, <1>4, SendGood DEF IInv
<1>6. task[t].auto \in Autos
  BY <1>2 DEF IInv, TypesOk, TypeOK, TaskRecs
<1>7. a \in Autos /\ a.claim = made'
  BY <1>5, <1>6 DEF Autos
<1> HIDE DEF a
<1>8. exec' \in ExecRecs /\ exec'.id = exec.id
      /\ (exec.id \in stopped => exec'.st \in {"stopping", "stopped"})
  BY <1>1 DEF IInv, TypesOk, TypeOK, StopsOk
<1>9. QED BY <1>1, <1>2, <1>3, <1>4, <1>7, <1>8, ClaimedGood

-----------------------------------------------------------------------------
(* Runs.                                                                    *)

(* Reconciliation turns every run nobody answers for into an open question  *)
(* about its task, so nothing that was cut off is forgotten.                *)
LEMMA ReconciledGood ==
  ASSUME TypesOk, NEW t \in Tasks
  PROVE  /\ Reconciled(t) \in TaskRecs
         /\ Interrupted(t) => Reconciled(t).exe = "unknown"
         /\ ~Interrupted(t) => Reconciled(t) = task[t]
         /\ Reconciled(t).auto.claim \in {0, task[t].auto.claim}
         /\ Reconciled(t).auto.st = "claimed" => Reconciled(t).auto = task[t].auto
<1>1. task[t] \in TaskRecs /\ task[t].auto \in Autos
  BY DEF TypesOk, TypeOK, TaskRecs
<1>2. CASE ~Interrupted(t)
  BY <1>1, <1>2 DEF Reconciled
<1>3. CASE Interrupted(t)
  <2> DEFINE a == IF task[t].auto.st = "started" THEN Over(task[t].auto) ELSE task[t].auto
  <2>1. a \in Autos /\ a.claim \in {0, task[t].auto.claim} /\ (a.st = "claimed" => a = task[t].auto)
    BY <1>1, AutoOps
  <2>2. Reconciled(t) = [st |-> "blocked", exe |-> "unknown", auto |-> a]
    BY <1>3 DEF Reconciled
  <2> HIDE DEF a
  <2>3. QED BY <1>3, <2>1, <2>2 DEF TaskRecs
<1>4. QED BY <1>2, <1>3

LEMMA RefreshGood == IInv /\ Refresh => IInv'
<1> SUFFICES ASSUME IInv, Refresh PROVE IInv'
  OBVIOUS
<1>1. /\ UNCHANGED <<goal, exec, proof, main, view, history, bounds>>
      /\ reviewed' = {t \in reviewed : ~Interrupted(t)}
      /\ TypesOk /\ adm \in [Runs -> RunRecs]
  BY DEF Refresh, IInv, TypesOk, TypeOK
<1>2. /\ adm' \in [Runs -> RunRecs]
      /\ \A r \in Runs : /\ r \in Orphans => adm'[r].st = "unknown"
                         /\ r \notin Orphans => adm'[r] = adm[r]
                         /\ adm'[r].task = adm[r].task
  <2>1. \A r \in Runs : /\ [adm[r] EXCEPT !.st = "unknown"] \in RunRecs
                        /\ [adm[r] EXCEPT !.st = "unknown"].st = "unknown"
                        /\ [adm[r] EXCEPT !.st = "unknown"].task = adm[r].task
    BY <1>1 DEF RunRecs
  <2>2. adm' = [r \in Runs |-> IF r \in Orphans THEN [adm[r] EXCEPT !.st = "unknown"] ELSE adm[r]]
    BY DEF Refresh
  <2>3. QED BY <1>1, <2>1, <2>2
<1>3. \A t \in Tasks : /\ task'[t] \in TaskRecs /\ Unclaims(t)
                       /\ task'[t].exe = Reconciled(t).exe
  <2> SUFFICES ASSUME NEW t \in Tasks
               PROVE  /\ task'[t] \in TaskRecs /\ Unclaims(t)
                      /\ task'[t].exe = Reconciled(t).exe
    OBVIOUS
  <2> DEFINE rec == Reconciled(t)
  <2>1. rec \in TaskRecs /\ rec.auto.claim \in {0, task[t].auto.claim}
        /\ (rec.auto.st = "claimed" => rec.auto = task[t].auto)
    BY <1>1, ReconciledGood
  <2>2. task'[t] = IF Unanswered(rec) THEN [rec EXCEPT !.auto = Failed(@)] ELSE rec
    BY DEF Refresh
  <2> HIDE DEF rec
  <2>3. /\ [rec EXCEPT !.auto = Failed(rec.auto)] \in TaskRecs
        /\ [rec EXCEPT !.auto = Failed(rec.auto)].exe = rec.exe
        /\ [rec EXCEPT !.auto = Failed(rec.auto)].auto.st = "failed"
        /\ [rec EXCEPT !.auto = Failed(rec.auto)].auto.claim = 0
    <3>1. Failed(rec.auto) \in Autos /\ Failed(rec.auto).st = "failed" /\ Failed(rec.auto).claim = 0
      BY <2>1, AutoOps DEF TaskRecs
    <3>2. QED BY <2>1, <3>1 DEF TaskRecs
  <2>4. task'[t] \in TaskRecs /\ task'[t].exe = rec.exe
    BY <2>1, <2>2, <2>3
  <2>5. Unclaims(t)
    BY <2>1, <2>2, <2>3 DEF Unclaims
  <2>6. QED BY <2>4, <2>5 DEF rec
<1>4. task' \in [Tasks -> TaskRecs]
  <2>1. task' = [t \in Tasks |-> task'[t]]
    BY DEF Refresh
  <2>2. QED BY <1>3, <2>1
<1>5. TypesOk'
  BY <1>1, <1>2, <1>4 DEF TypesOk, TypeOK, Named, main, view, history
<1>6. RunsOk'
  <2>1. \A r \in Runs : adm'[r].st = "running" => r \in Unsettled
    BY <1>2 DEF Unsettled
  <2>2. \A r \in live : r \in Runs /\ r \notin Orphans
    BY <1>1 DEF Orphans, TypesOk, TypeOK
  <2>3. \A r \in live' : adm'[r].st = "running" /\ adm'[r].task \notin lost'
    BY <1>1, <1>2, <2>2 DEF IInv, RunsOk, main, history
  <2>4. \A q, r \in Unsettled' : adm'[q].task = adm'[r].task => q = r
    BY <1>2, <2>1 DEF IInv, RunsOk, Unsettled
  <2>5. QED BY <2>3, <2>4 DEF RunsOk
<1>7. LostOk'
  <2> SUFFICES ASSUME NEW t \in lost PROVE Active(t)' \/ Unclear(t)'
    BY <1>1 DEF LostOk, history
  <2>1. t \in Tasks /\ (Active(t) \/ Unclear(t))
    BY <1>1 DEF IInv, LostOk, TypesOk
  <2>2. CASE Interrupted(t)
    <3>1. task'[t].exe = "unknown" /\ t \notin reviewed'
      BY <1>1, <1>3, <2>1, <2>2, ReconciledGood
    <3>2. QED BY <3>1 DEF Unclear
  <2>3. CASE ~Interrupted(t) /\ Active(t)
    <3>1. PICK r \in Unsettled : adm[r].task = t
      BY <2>3 DEF Active
    <3>2. r \in Runs /\ r \notin Orphans
      BY <2>3, <3>1 DEF Interrupted, Unsettled
    <3>3. adm'[r] = adm[r] /\ adm[r].st = "running"
      BY <1>2, <3>1, <3>2 DEF Unsettled
    <3>4. QED BY <3>1, <3>2, <3>3 DEF Active, Unsettled
  <2>4. CASE ~Interrupted(t) /\ Unclear(t)
    <3>1. task'[t].exe = "unknown" /\ t \notin reviewed'
      BY <1>1, <1>3, <2>1, <2>4, ReconciledGood DEF Unclear
    <3>2. QED BY <3>1 DEF Unclear
  <2>5. QED BY <2>1, <2>2, <2>3, <2>4
<1>8. PaidOk' /\ StopsOk'
  BY <1>1, PaidFrame, StopsFrame DEF IInv, StopsOk, main, history
<1>9. ClaimsOk'
  <2>1. ClaimKeptOrGone /\ made' = made
    BY <1>1 DEF ClaimKeptOrGone, main, bounds
  <2>2. QED BY <1>3, <2>1, ClaimsFrame DEF IInv
<1>10. QED BY <1>5, <1>6, <1>7, <1>8, <1>9 DEF IInv

(* A task that may be run is not one that was cut off.                      *)
LEMMA FreeToRun ==
  ASSUME IInv, NEW t \in Tasks, CanRun(t), ~Active(t)
  PROVE  t \notin lost
BY DEF IInv, LostOk, CanRun

LEMMA BeginGood ==
  ASSUME IInv, NEW r \in Runs, NEW t \in Tasks, NEW a \in Autos, Begin(r, t, a),
         CanRun(t), ~Active(t)
  PROVE  /\ RunsOk' /\ LostOk'
         /\ adm' \in [Runs -> RunRecs] /\ task' \in [Tasks -> TaskRecs] /\ live' \subseteq Runs
         /\ \A q \in Runs : adm'[q].st = "running" => adm'[q].task \in Tasks
         /\ task'[t].auto = a /\ \A u \in Tasks \ {t} : task'[u] = task[u]
<1>1. /\ adm \in [Runs -> RunRecs] /\ task \in [Tasks -> TaskRecs] /\ live \subseteq Runs
      /\ lost \subseteq Tasks /\ \A q \in Runs : adm[q].st = "running" => adm[q].task \in Tasks
  BY DEF IInv, TypesOk, TypeOK
<1>2. /\ adm[r].st = "none" /\ live' = live \cup {r} /\ UNCHANGED <<lost, reviewed>>
      /\ adm' = [adm EXCEPT ![r] = [task |-> t, st |-> "running"]]
      /\ task' = [task EXCEPT ![t] = [st |-> "in_progress", exe |-> "other", auto |-> a]]
  BY DEF Begin
<1>3. adm'[r] = [task |-> t, st |-> "running"] /\ \A q \in Runs \ {r} : adm'[q] = adm[q]
  BY <1>1, <1>2
<1>4. [task |-> t, st |-> "running"] \in RunRecs
  BY DEF RunRecs
<1>5. adm' \in [Runs -> RunRecs]
  BY <1>1, <1>2, <1>4
<1>6. [st |-> "in_progress", exe |-> "other", auto |-> a] \in TaskRecs
  BY DEF TaskRecs
<1>7. /\ task' \in [Tasks -> TaskRecs] /\ task'[t].auto = a
      /\ \A u \in Tasks \ {t} : task'[u] = task[u]
  BY <1>1, <1>2, <1>6
<1>8. RunsOk'
  <2>1. t \notin lost
    BY FreeToRun
  <2>2. \A q \in live : adm[q].st = "running" /\ adm[q].task \notin lost /\ q # r
    BY <1>2 DEF IInv, RunsOk
  <2>3. \A q \in live' : adm'[q].st = "running" /\ adm'[q].task \notin lost'
    BY <1>1, <1>2, <1>3, <2>1, <2>2
  <2>4. \A q \in Unsettled' : q = r \/ (q \in Unsettled /\ adm'[q].task = adm[q].task /\ adm[q].task # t)
    BY <1>3 DEF Unsettled, Active
  <2>5. \A p, q \in Unsettled' : adm'[p].task = adm'[q].task => p = q
    BY <1>3, <2>4 DEF IInv, RunsOk
  <2>6. QED BY <2>3, <2>5 DEF RunsOk
<1>9. LostOk'
  <2> SUFFICES ASSUME NEW u \in lost PROVE Active(u)' \/ Unclear(u)'
    BY <1>2 DEF LostOk
  <2>1. u \in Tasks /\ u # t /\ (Active(u) \/ Unclear(u))
    BY <1>1, FreeToRun DEF IInv, LostOk
  <2>2. CASE Active(u)
    <3>1. PICK q \in Unsettled : adm[q].task = u
      BY <2>2 DEF Active
    <3>2. q # r /\ q \in Runs /\ adm[q].st = "running"
      BY <1>2, <3>1 DEF Unsettled
    <3>3. QED BY <1>3, <3>1, <3>2 DEF Active, Unsettled
  <2>3. CASE Unclear(u)
    BY <1>2, <1>7, <2>1, <2>3 DEF Unclear
  <2>4. QED BY <2>1, <2>2, <2>3
<1>10. live' \subseteq Runs /\ \A q \in Runs : adm'[q].st = "running" => adm'[q].task \in Tasks
  BY <1>1, <1>2, <1>3
<1>11. QED BY <1>5, <1>7, <1>8, <1>9, <1>10

LEMMA ChatAdmittedGood == \A r \in Runs : IInv /\ ChatAdmitted(r) => IInv'
<1> SUFFICES ASSUME IInv, NEW r \in Runs, ChatAdmitted(r) PROVE IInv'
  OBVIOUS
<1> DEFINE t == window.task
           a == [task[t].auto EXCEPT !.st = "started", !.claim = 0]
<1>1. t \in Tasks /\ window \in WindowRecs /\ window.claim # 0
  BY DEF IInv, TypesOk, TypeOK, Named, Idle, ChatAdmitted
<1>2. a \in Autos /\ a.st = "started" /\ a.claim = 0
  <2>1. task[t].auto \in Autos
    BY <1>1 DEF IInv, TypesOk, TypeOK, TaskRecs
  <2> HIDE DEF t
  <2>2. QED BY <2>1 DEF Autos
<1>3. /\ Begin(r, t, a) /\ CanRun(t) /\ ~Active(t)
      /\ claim' = NoClaim /\ UNCHANGED <<ready, goal, exec, reviewed, proof, stopped, made>>
      /\ carried' = carried + (IF claim.asks THEN 1 ELSE 0)
      /\ window' = [window EXCEPT !.st = "waiting", !.run = r] /\ lost' = lost
  BY DEF ChatAdmitted, Admits, Begin
<1> HIDE DEF t, a
<1>4. /\ RunsOk' /\ LostOk'
      /\ adm' \in [Runs -> RunRecs] /\ task' \in [Tasks -> TaskRecs] /\ live' \subseteq Runs
      /\ \A q \in Runs : adm'[q].st = "running" => adm'[q].task \in Tasks
      /\ task'[t].auto = a /\ \A u \in Tasks \ {t} : task'[u] = task[u]
  BY <1>1, <1>2, <1>3, BeginGood
<1>5. window' \in WindowRecs /\ window'.task = t /\ window'.claim # 0
  BY <1>1, <1>3 DEF WindowRecs, t
<1>6. TypesOk'
  BY <1>1, <1>3, <1>4, <1>5, NoClaimGone DEF IInv, TypesOk, TypeOK, Named
<1>7. PaidOk'
  <2>1. carried \in Nat /\ carried <= goal.used /\ (claim.asks => carried + 1 <= goal.used)
        /\ goal.used \in Nat
    BY GoalsAssumption DEF IInv, PaidOk, TypesOk, TypeOK, GoalRecs
  <2>2. ~claim'.asks /\ goal' = goal
    BY <1>3, NoClaimGone
  <2>3. carried' \in Nat /\ carried' <= goal.used
    BY <1>3, <2>1
  <2>4. QED BY <2>2, <2>3 DEF PaidOk
<1>8. StopsOk'
  BY <1>3, StopsFrame DEF IInv, StopsOk
<1>9. ClaimsOk'
  <2>1. ClaimKeptOrGone
    BY <1>3, NoClaimGone DEF ClaimKeptOrGone
  <2>2. \A u \in Tasks : Unclaims(u)
    BY <1>2, <1>4, NothingUnclaimed DEF Unclaims
  <2>3. QED BY <1>3, <2>1, <2>2, ClaimsFrame DEF IInv
<1>10. QED BY <1>4, <1>6, <1>7, <1>8, <1>9 DEF IInv

LEMMA RunByHandGood == \A r \in Runs, t \in Tasks : IInv /\ RunByHand(r, t) => IInv'
<1> SUFFICES ASSUME IInv, NEW r \in Runs, NEW t \in Tasks, RunByHand(r, t) PROVE IInv'
  OBVIOUS
<1> DEFINE a == IF task[t].auto.st = "ready" THEN Over(task[t].auto) ELSE task[t].auto
<1>1. a \in Autos /\ a.st # "claimed" /\ a.claim \in {0, task[t].auto.claim}
  <2>1. task[t].auto \in Autos /\ task[t].auto.st # "claimed"
    BY DEF IInv, TypesOk, TypeOK, TaskRecs, RunByHand, AdmitsByHand
  <2>2. QED BY <2>1, AutoOps
<1>2. /\ Begin(r, t, a) /\ CanRun(t) /\ ~Active(t)
      /\ UNCHANGED <<claim, view, carried, goal, exec, reviewed, proof, stopped, made, lost>>
  BY DEF RunByHand, AdmitsByHand, Begin
<1> HIDE DEF a
<1>3. /\ RunsOk' /\ LostOk'
      /\ adm' \in [Runs -> RunRecs] /\ task' \in [Tasks -> TaskRecs] /\ live' \subseteq Runs
      /\ \A q \in Runs : adm'[q].st = "running" => adm'[q].task \in Tasks
      /\ task'[t].auto = a /\ \A u \in Tasks \ {t} : task'[u] = task[u]
  BY <1>1, <1>2, BeginGood
<1>4. TypesOk'
  BY <1>2, <1>3 DEF IInv, TypesOk, TypeOK, Named, view
<1>5. PaidOk' /\ StopsOk'
  BY <1>2, PaidFrame, StopsFrame DEF IInv, StopsOk
<1>6. ClaimsOk'
  <2>1. ClaimKeptOrGone
    BY <1>2 DEF ClaimKeptOrGone
  <2>2. \A u \in Tasks : Unclaims(u)
    BY <1>1, <1>3, NothingUnclaimed DEF Unclaims
  <2>3. QED BY <1>2, <2>1, <2>2, ClaimsFrame DEF IInv
<1>7. QED BY <1>3, <1>4, <1>5, <1>6 DEF IInv

LEMMA FinishGood ==
  \A r \in Runs, outcome \in {"completed", "failed", "cancelled"}, verified \in BOOLEAN :
    IInv /\ Finish(r, outcome, verified) => IInv'
<1> SUFFICES ASSUME IInv, NEW r \in Runs, NEW outcome \in {"completed", "failed", "cancelled"},
                    NEW verified \in BOOLEAN, Finish(r, outcome, verified)
             PROVE  IInv'
  OBVIOUS
<1> DEFINE t == adm[r].task
           proof1 == IF verified /\ t \notin Bound THEN proof \cup {t} ELSE proof
           st == IF outcome # "completed" THEN outcome
                 ELSE IF t \in proof1 THEN "completed" ELSE "blocked"
           auto == IF task[t].auto.st = "started" THEN Over(task[t].auto) ELSE task[t].auto
           rec == [st |-> st, auto |-> auto,
                   exe |-> IF outcome = "completed" THEN outcome ELSE "other"]
<1>1. /\ r \in live /\ adm \in [Runs -> RunRecs] /\ task \in [Tasks -> TaskRecs]
      /\ live \subseteq Runs /\ goal \in GoalRecs /\ proof \subseteq Tasks
      /\ window \in WindowRecs /\ lost \subseteq Tasks
  BY DEF IInv, TypesOk, TypeOK, Finish
<1>2. adm[r].st = "running" /\ t \in Tasks /\ t \notin lost
  BY <1>1 DEF IInv, RunsOk, TypesOk
<1>3. /\ live' = live \ {r} /\ window' = Returns(r)
      /\ UNCHANGED <<exec, reviewed, claim, ready, history, bounds>>
      /\ proof' = proof1 /\ task' = [task EXCEPT ![t] = rec]
      /\ adm' = [adm EXCEPT ![r].st = "settled"]
      /\ goal' = [goal EXCEPT !.st = "completed"] \/ goal' = goal
  BY DEF Finish, Settled
<1>4. auto \in Autos /\ auto.claim \in {0, task[t].auto.claim}
      /\ (auto.st = "claimed" => auto = task[t].auto)
  <2>1. task[t].auto \in Autos
    BY <1>1, <1>2 DEF TaskRecs
  <2>2. QED BY <2>1, AutoOps
<1>5. rec \in TaskRecs /\ rec.auto = auto
  <2>1. st \in {"completed", "failed", "cancelled", "blocked"}
    OBVIOUS
  <2> HIDE DEF st, auto
  <2>2. QED BY <1>4, <2>1 DEF TaskRecs
<1>6. proof1 \subseteq Tasks
  BY <1>1, <1>2
<1> HIDE DEF t, proof1, st, auto, rec
<1>7. /\ task' \in [Tasks -> TaskRecs] /\ task'[t].auto = auto
      /\ \A u \in Tasks \ {t} : task'[u] = task[u]
  BY <1>1, <1>2, <1>3, <1>5
<1>8. /\ adm' \in [Runs -> RunRecs] /\ adm'[r].st = "settled"
      /\ \A q \in Runs \ {r} : adm'[q] = adm[q]
  <2>1. adm'[r] = [adm[r] EXCEPT !.st = "settled"]
    BY <1>1, <1>3
  <2>2. adm'[r] \in RunRecs /\ adm'[r].st = "settled"
    BY <1>1, <2>1 DEF RunRecs
  <2>3. QED BY <1>1, <1>3, <2>2
<1>9. goal' \in GoalRecs /\ goal'.used = goal.used
  BY <1>1, <1>3, CompletedGood
<1>10. window' \in WindowRecs /\ (window' # Idle => window'.task \in Tasks /\ window'.claim # 0)
  <2>1. CASE window.run = r
    <3>1. window # Idle
      BY <2>1 DEF Idle, Runs
    <3>2. window.task \in Tasks /\ window.claim # 0
      BY <3>1 DEF IInv, TypesOk, Named
    <3>3. window' = [window EXCEPT !.st = "ended"]
      BY <1>3, <2>1 DEF Returns
    <3>4. window' \in WindowRecs /\ window'.task = window.task /\ window'.claim = window.claim
      BY <1>1, <3>3 DEF WindowRecs
    <3>5. QED BY <3>2, <3>4
  <2>2. CASE window.run # r
    BY <1>1, <1>3, <2>2 DEF Returns, IInv, TypesOk, Named
  <2>3. QED BY <2>1, <2>2
<1>11. TypesOk'
  <2>1. \A q \in Runs : adm'[q].st = "running" => adm'[q].task \in Tasks
    BY <1>8 DEF IInv, TypesOk
  <2>2. QED BY <1>1, <1>3, <1>6, <1>7, <1>8, <1>9, <1>10, <2>1
            DEF IInv, TypesOk, TypeOK, Named, history
<1>6a. RunsOk'
  <2>1. \A q \in live' : q \in live /\ q # r /\ q \in Runs
    BY <1>1, <1>3
  <2>2. \A q \in live' : adm'[q].st = "running" /\ adm'[q].task \notin lost'
    BY <1>3, <1>8, <2>1 DEF IInv, RunsOk, history
  <2>3. \A q \in Unsettled' : q \in Unsettled /\ adm'[q] = adm[q]
    BY <1>8 DEF Unsettled
  <2>4. \A p, q \in Unsettled' : adm'[p].task = adm'[q].task => p = q
    BY <2>3 DEF IInv, RunsOk
  <2>5. QED BY <2>2, <2>4 DEF RunsOk
<1>13. LostOk'
  <2> SUFFICES ASSUME NEW u \in lost PROVE Active(u)' \/ Unclear(u)'
    BY <1>3 DEF LostOk, history
  <2>1. u \in Tasks /\ u # t /\ (Active(u) \/ Unclear(u))
    BY <1>1, <1>2 DEF IInv, LostOk
  <2>2. CASE Active(u)
    <3>1. PICK q \in Unsettled : adm[q].task = u
      BY <2>2 DEF Active
    <3>2. q # r /\ q \in Runs /\ adm[q].st = "running"
      BY <2>1, <3>1 DEF Unsettled, t
    <3>3. QED BY <1>8, <3>1, <3>2 DEF Active, Unsettled
  <2>3. CASE Unclear(u)
    BY <1>3, <1>7, <2>1, <2>3 DEF Unclear
  <2>4. QED BY <2>1, <2>2, <2>3
<1>14. PaidOk' /\ StopsOk'
  BY <1>3, <1>9, PaidFrame, StopsFrame DEF IInv, StopsOk, history
<1>15. ClaimsOk'
  <2>1. ClaimKeptOrGone /\ made' = made
    BY <1>3 DEF ClaimKeptOrGone, bounds
  <2>2. \A u \in Tasks : Unclaims(u)
    BY <1>2, <1>4, <1>7, NothingUnclaimed DEF Unclaims
  <2>3. QED BY <2>1, <2>2, ClaimsFrame DEF IInv
<1>16. QED BY <1>11, <1>6a, <1>13, <1>14, <1>15 DEF IInv

(* A run that could not be settled stays admitted, so that its task is      *)
(* counted as cut off and is still active.                                  *)
LEMMA FinishUnsettledGood == \A r \in Runs : IInv /\ FinishUnsettled(r) => IInv'
<1> SUFFICES ASSUME IInv, NEW r \in Runs, FinishUnsettled(r) PROVE IInv'
  OBVIOUS
<1> DEFINE t == adm[r].task
<1>1. /\ r \in live /\ live \subseteq Runs /\ window \in WindowRecs /\ lost \subseteq Tasks
  BY DEF IInv, TypesOk, TypeOK, FinishUnsettled
<1>2. adm[r].st = "running" /\ t \in Tasks /\ t \notin lost /\ r \in Unsettled
  BY <1>1 DEF IInv, RunsOk, TypesOk, Unsettled
<1>3. /\ live' = live \ {r} /\ window' = Returns(r) /\ lost' = lost \cup {t}
      /\ UNCHANGED <<store, claim, ready, carried, stopped, made>>
  BY DEF FinishUnsettled
<1> HIDE DEF t
<1>4. window' \in WindowRecs /\ (window' # Idle => window'.task \in Tasks /\ window'.claim # 0)
  <2>1. CASE window.run = r
    <3>1. window # Idle
      BY <2>1 DEF Idle, Runs
    <3>2. window.task \in Tasks /\ window.claim # 0
      BY <3>1 DEF IInv, TypesOk, Named
    <3>3. window' = [window EXCEPT !.st = "ended"]
      BY <1>3, <2>1 DEF Returns
    <3>4. window' \in WindowRecs /\ window'.task = window.task /\ window'.claim = window.claim
      BY <1>1, <3>3 DEF WindowRecs
    <3>5. QED BY <3>2, <3>4
  <2>2. CASE window.run # r
    BY <1>1, <1>3, <2>2 DEF Returns, IInv, TypesOk, Named
  <2>3. QED BY <2>1, <2>2
<1>5. TypesOk'
  BY <1>1, <1>2, <1>3, <1>4 DEF IInv, TypesOk, TypeOK, Named, store
<1>6. RunsOk'
  <2>1. \A q \in live' : q \in live /\ q # r /\ q \in Unsettled
    BY <1>1, <1>3 DEF IInv, RunsOk, Unsettled
  <2>2. \A q \in live' : adm[q].st = "running" /\ adm[q].task \notin lost /\ adm[q].task # t
    BY <1>2, <2>1 DEF IInv, RunsOk, t
  <2>3. \A q \in live' : adm'[q].st = "running" /\ adm'[q].task \notin lost'
    BY <1>3, <2>2 DEF store
  <2>4. Unsettled' = Unsettled /\ adm' = adm
    BY <1>3 DEF Unsettled, store
  <2>5. QED BY <2>3, <2>4 DEF IInv, RunsOk
<1>7. LostOk'
  <2>1. Active(t)
    BY <1>2 DEF Active, t
  <2>2. \A u \in lost' : Active(u) \/ Unclear(u)
    BY <1>3, <2>1 DEF IInv, LostOk
  <2>3. QED BY <1>3, <2>2 DEF LostOk, Active, Unclear, Unsettled, store
<1>8. PaidOk' /\ StopsOk'
  BY <1>3, PaidFrame, StopsFrame DEF IInv, StopsOk, store
<1>9. ClaimsOk'
  <2>1. ClaimKeptOrGone /\ \A u \in Tasks : Unclaims(u)
    BY <1>3, NothingUnclaimed DEF ClaimKeptOrGone, store
  <2>2. QED BY <1>3, <2>1, ClaimsFrame DEF IInv
<1>10. QED BY <1>5, <1>6, <1>7, <1>8, <1>9 DEF IInv

LEMMA CrashGood == IInv /\ Crash => IInv'
<1> SUFFICES ASSUME IInv, Crash PROVE IInv'
  OBVIOUS
<1> DEFINE cut == {adm[r].task : r \in live}
<1>1. /\ live' = {} /\ claim' = NoClaim /\ window' = Idle /\ ready' = "unbound"
      /\ lost' = lost \cup cut /\ UNCHANGED <<store, carried, stopped, made>>
  BY DEF Crash
<1>2. \A t \in cut : t \in Tasks /\ Active(t)
  BY DEF IInv, TypesOk, TypeOK, RunsOk, Active, Unsettled
<1>3. Idle \in WindowRecs /\ Idle.st = "idle"
  BY DEF Idle, WindowRecs
<1> HIDE DEF cut
<1>4. TypesOk'
  BY <1>1, <1>2, <1>3, NoClaimGone DEF IInv, TypesOk, TypeOK, Named, store
<1>5. RunsOk'
  BY <1>1 DEF IInv, RunsOk, Unsettled, store
<1>6. LostOk'
  <2>1. \A u \in lost' : Active(u) \/ Unclear(u)
    BY <1>1, <1>2 DEF IInv, LostOk
  <2>2. QED BY <1>1, <2>1 DEF LostOk, Active, Unclear, Unsettled, store
<1>7. ClaimKeptOrGone /\ \A u \in Tasks : Unclaims(u)
  BY <1>1, NoClaimGone, NothingUnclaimed DEF ClaimKeptOrGone, store
<1>8. PaidOk' /\ StopsOk' /\ ClaimsOk'
  BY <1>1, <1>7, PaidFrame, StopsFrame, ClaimsFrame DEF IInv, StopsOk, store, ClaimKeptOrGone
<1>9. QED BY <1>4, <1>5, <1>6, <1>8 DEF IInv

-----------------------------------------------------------------------------
(* The window, and the user.                                                *)

LEMMA IdleGood == Idle \in WindowRecs
BY DEF Idle, WindowRecs

LEMMA GiveBackGood == IInv /\ GiveBack => IInv'
<1> SUFFICES ASSUME IInv, GiveBack PROVE IInv'
  OBVIOUS
<1>1. window.task \in Tasks /\ TypeOK
  BY DEF IInv, TypesOk, Named, GiveBack, Idle
<1>2. claim' \in {claim, NoClaim} /\ (task' = Released(window.task, window.claim) \/ task' = task)
  BY DEF GiveBack
<1>3. ClaimKeptOrGone /\ claim' \in ClaimRecs /\ (claim' # NoClaim => claim' = claim)
  BY <1>1, <1>2, NoClaimGone DEF ClaimKeptOrGone, TypeOK
<1>4. task' \in [Tasks -> TaskRecs] /\ \A t \in Tasks : task'[t].exe = task[t].exe /\ Unclaims(t)
  <2>1. CASE task' = task
    BY <1>1, <2>1, NothingUnclaimed DEF TypeOK
  <2>2. CASE task' = Released(window.task, window.claim)
    BY <1>1, <2>2, ReleasedGood
  <2>3. QED BY <1>2, <2>1, <2>2
<1>5. TypeOK' /\ Named'
  BY <1>3, <1>4, IdleGood DEF IInv, GiveBack, TypesOk, TypeOK, Named
<1>6. QED BY <1>3, <1>4, <1>5, Frame DEF IInv, StopsOk, GiveBack

LEMMA BindGood == IInv /\ Bind => IInv'
<1> SUFFICES ASSUME IInv, Bind PROVE IInv'
  OBVIOUS
<1>1. TypeOK' /\ Named' /\ ClaimKeptOrGone
  BY DEF IInv, Bind, TypesOk, TypeOK, Named, store, main, ClaimKeptOrGone
<1>2. QED BY <1>1, StillGood DEF Bind, store, main, history, bounds

LEMMA UnbindGood == IInv /\ Unbind => IInv'
<1> SUFFICES ASSUME IInv, Unbind PROVE IInv'
  OBVIOUS
<1>1. window' \in {window, Idle}
  BY DEF Unbind
<1>2. /\ task' \in [Tasks -> TaskRecs] /\ claim' \in ClaimRecs /\ claim' \in {claim, NoClaim}
      /\ ClaimKeptOrGone /\ \A t \in Tasks : task'[t].exe = task[t].exe /\ Unclaims(t)
  <2>1. CASE claim # NoClaim /\ ~claim.sent
    BY <2>1, LetGoGood DEF IInv, Unbind
  <2>2. CASE ~(claim # NoClaim /\ ~claim.sent)
    <3>1. UNCHANGED <<task, claim>>
      BY <2>2 DEF Unbind
    <3>2. QED BY <3>1, NothingUnclaimed DEF IInv, TypesOk, TypeOK, ClaimKeptOrGone
  <2>3. QED BY <2>1, <2>2
<1>3. TypeOK' /\ Named'
  BY <1>1, <1>2, IdleGood DEF IInv, Unbind, TypesOk, TypeOK, Named
<1>4. QED BY <1>2, <1>3, Frame DEF IInv, StopsOk, Unbind, history

LEMMA ReloadGood == IInv /\ Reload => IInv'
<1> SUFFICES ASSUME IInv, Reload PROVE IInv'
  OBVIOUS
<1>1. TypeOK' /\ Named' /\ ClaimKeptOrGone
  BY IdleGood DEF IInv, Reload, TypesOk, TypeOK, Named, store, main, ClaimKeptOrGone
<1>2. QED BY <1>1, StillGood DEF Reload, store, main, bounds

LEMMA UpdateGoalGood ==
  \A st \in {"active", "paused", "stopped", "completed"} : IInv /\ UpdateGoal(st) => IInv'
<1> SUFFICES ASSUME IInv, NEW st \in {"active", "paused", "stopped", "completed"}, UpdateGoal(st)
             PROVE  IInv'
  OBVIOUS
<1>1. goal' \in GoalRecs /\ goal'.used = goal.used
  BY DEF IInv, UpdateGoal, TypesOk, TypeOK, GoalRecs
<1>2. TypeOK' /\ Named' /\ ClaimKeptOrGone
  BY <1>1 DEF IInv, UpdateGoal, TypesOk, TypeOK, Named, view, main, ClaimKeptOrGone
<1>3. QED BY <1>1, <1>2, StillGood DEF UpdateGoal, Acts, main, history

LEMMA AuthorizeGood == IInv /\ Authorize => IInv'
<1> SUFFICES ASSUME IInv, Authorize PROVE IInv'
  OBVIOUS
<1>1. goal' \in GoalRecs /\ goal'.used = goal.used
  BY DEF IInv, Authorize, TypesOk, TypeOK, GoalRecs
<1>2. TypeOK' /\ Named' /\ ClaimKeptOrGone
  BY <1>1 DEF IInv, Authorize, TypesOk, TypeOK, Named, view, main, ClaimKeptOrGone
<1>3. QED BY <1>1, <1>2, StillGood DEF Authorize, Acts, main, history

LEMMA EditFilesGood == IInv /\ EditFiles => IInv'
<1> SUFFICES ASSUME IInv, EditFiles PROVE IInv'
  OBVIOUS
<1>1. TypeOK' /\ Named' /\ ClaimKeptOrGone /\ reviewed' \subseteq reviewed
  BY DEF IInv, EditFiles, TypesOk, TypeOK, Named, view, main, ClaimKeptOrGone
<1>2. \A t \in Tasks : task'[t].exe = task[t].exe /\ Unclaims(t)
  BY NothingUnclaimed DEF EditFiles
<1>3. QED BY <1>1, <1>2, Frame DEF IInv, StopsOk, EditFiles, Acts, main, history

LEMMA EditContractGood == IInv /\ EditContract => IInv'
<1> SUFFICES ASSUME IInv, EditContract PROVE IInv'
  OBVIOUS
<1>1. exec' \in ExecRecs /\ exec'.id = exec.id /\ exec'.st = exec.st
  BY DEF IInv, EditContract, TypesOk, TypeOK, ExecRecs
<1>2. TypeOK' /\ Named' /\ ClaimKeptOrGone
  BY <1>1 DEF IInv, EditContract, TypesOk, TypeOK, Named, view, main, ClaimKeptOrGone
<1>3. \A t \in Tasks : task'[t].exe = task[t].exe /\ Unclaims(t)
  BY NothingUnclaimed DEF EditContract
<1>4. QED BY <1>1, <1>2, <1>3, Frame DEF IInv, StopsOk, EditContract, Acts, main, history

LEMMA VerifyGood == \A t \in Tasks : IInv /\ Verify(t) => IInv'
<1> SUFFICES ASSUME IInv, NEW t \in Tasks, Verify(t) PROVE IInv'
  OBVIOUS
<1>1. task \in [Tasks -> TaskRecs] /\ proof' = proof \cup {t} /\ proof \subseteq Tasks
  BY DEF IInv, TypesOk, TypeOK, Verify
<1>2. task' \in [Tasks -> TaskRecs] /\ \A u \in Tasks : task'[u].exe = task[u].exe /\ Unclaims(u)
  <2>1. CASE task' = task
    BY <1>1, <2>1, NothingUnclaimed
  <2>2. CASE task' = [task EXCEPT ![t].st = "completed"]
    <3>1. task'[t] = [task[t] EXCEPT !.st = "completed"]
      BY <1>1, <2>2
    <3>2. task'[t] \in TaskRecs /\ task'[t].exe = task[t].exe /\ task'[t].auto = task[t].auto
      BY <1>1, <3>1 DEF TaskRecs
    <3>3. task' \in [Tasks -> TaskRecs] /\ \A u \in Tasks \ {t} : task'[u] = task[u]
      BY <1>1, <2>2, <3>2
    <3>4. QED BY <3>2, <3>3, NothingUnclaimed DEF Unclaims
  <2>3. QED BY <2>1, <2>2 DEF Verify
<1>3. TypeOK' /\ Named' /\ ClaimKeptOrGone
  BY <1>1, <1>2 DEF IInv, Verify, TypesOk, TypeOK, Named, view, main, ClaimKeptOrGone
<1>4. QED BY <1>2, <1>3, Frame DEF IInv, StopsOk, Verify, Acts, main, history

(* A task is taken out of the open question about its run only after a      *)
(* review, or while the run is still under way.                             *)
LEMMA ChangedGood ==
  ASSUME IInv, TypeOK', Named', UNCHANGED <<adm, live, lost, reviewed, carried, stopped, made>>,
         UNCHANGED <<goal, exec, claim>>, NEW t \in Tasks, Unclaims(t),
         task'[t].exe = "unknown" \/ ~Unclear(t), \A u \in Tasks \ {t} : task'[u] = task[u]
  PROVE  IInv'
<1>1. TypesOk' /\ RunsOk'
  BY RunsFrame DEF IInv, TypesOk
<1>2. LostOk'
  <2> SUFFICES ASSUME NEW u \in lost PROVE Active(u)' \/ Unclear(u)'
    BY DEF LostOk
  <2>1. u \in Tasks /\ (Active(u) \/ Unclear(u))
    BY DEF IInv, LostOk, TypesOk
  <2>2. CASE Active(u)
    BY <2>2 DEF Active, Unsettled
  <2>3. CASE Unclear(u)
    BY <2>1, <2>3 DEF Unclear
  <2>4. QED BY <2>1, <2>2, <2>3
<1>3. ClaimKeptOrGone /\ \A u \in Tasks : Unclaims(u)
  BY NothingUnclaimed DEF ClaimKeptOrGone
<1>4. PaidOk' /\ StopsOk' /\ ClaimsOk'
  BY <1>3, PaidFrame, StopsFrame, ClaimsFrame DEF IInv, StopsOk
<1>5. QED BY <1>1, <1>2, <1>4 DEF IInv

LEMMA SetStatusGood ==
  \A t \in Tasks, st \in {"todo", "completed", "cancelled"} : IInv /\ SetStatus(t, st) => IInv'
<1> SUFFICES ASSUME IInv, NEW t \in Tasks, NEW st \in {"todo", "completed", "cancelled"},
                    SetStatus(t, st)
             PROVE  IInv'
  OBVIOUS
<1> DEFINE a == IF task[t].auto.st \in {"ready", "claimed"} THEN Over(task[t].auto) ELSE task[t].auto
           e == IF st = "cancelled" THEN task[t].exe ELSE Reviewed(t)
           rec == [st |-> st, exe |-> e, auto |-> a]
<1>1. task \in [Tasks -> TaskRecs] /\ task[t] \in TaskRecs /\ task[t].auto \in Autos
  BY DEF IInv, TypesOk, TypeOK, TaskRecs
<1>2. task' = [task EXCEPT ![t] = rec] /\ (st # "cancelled" => ~Unclear(t))
  BY DEF SetStatus
<1>3. a \in Autos /\ a.claim \in {0, task[t].auto.claim} /\ a.st # "claimed"
  BY <1>1, AutoOps
<1>4. e \in {"other", "completed", "unknown"} /\ (e = "unknown" \/ ~Unclear(t))
  BY <1>1, <1>2 DEF TaskRecs, Reviewed, Unclear
<1> HIDE DEF a, e
<1>5. rec \in TaskRecs /\ rec.auto = a /\ rec.exe = e
  BY <1>3, <1>4 DEF TaskRecs
<1> HIDE DEF rec
<1>6. task' \in [Tasks -> TaskRecs] /\ task'[t] = rec /\ \A u \in Tasks \ {t} : task'[u] = task[u]
  BY <1>1, <1>2, <1>5
<1>7. Unclaims(t)
  BY <1>3, <1>5, <1>6 DEF Unclaims
<1>8. TypeOK' /\ Named'
  BY <1>6 DEF IInv, SetStatus, TypesOk, TypeOK, Named, view, main
<1>9. QED BY <1>4, <1>5, <1>6, <1>7, <1>8, ChangedGood DEF SetStatus, Acts, main, history

LEMMA SetWaitGood == \A t \in Tasks : IInv /\ SetWait(t) => IInv'
<1> SUFFICES ASSUME IInv, NEW t \in Tasks, SetWait(t) PROVE IInv'
  OBVIOUS
<1> DEFINE rec == [st |-> "waiting", exe |-> Reviewed(t), auto |-> NoAuto]
<1>1. task \in [Tasks -> TaskRecs] /\ task' = [task EXCEPT ![t] = rec] /\ ~Unclear(t)
  BY DEF IInv, TypesOk, TypeOK, SetWait
<1>2. rec \in TaskRecs /\ rec.auto = NoAuto
  <2>1. Reviewed(t) \in {"other", "completed", "unknown"}
    BY <1>1 DEF TaskRecs, Reviewed
  <2>2. QED BY <2>1, AutoOps DEF TaskRecs
<1> HIDE DEF rec
<1>3. task' \in [Tasks -> TaskRecs] /\ task'[t] = rec /\ \A u \in Tasks \ {t} : task'[u] = task[u]
  BY <1>1, <1>2
<1>4. Unclaims(t)
  BY <1>2, <1>3, AutoOps DEF Unclaims
<1>5. TypeOK' /\ Named'
  BY <1>3 DEF IInv, SetWait, TypesOk, TypeOK, Named, view, main
<1>6. QED BY <1>1, <1>3, <1>4, <1>5, ChangedGood DEF SetWait, Acts, main, history

LEMMA ResolveDecisionGood == \A ts \in SUBSET Tasks : IInv /\ ResolveDecision(ts) => IInv'
<1> SUFFICES ASSUME IInv, NEW ts \in SUBSET Tasks, ResolveDecision(ts) PROVE IInv'
  OBVIOUS
<1>1. task \in [Tasks -> TaskRecs]
  BY DEF IInv, TypesOk, TypeOK
<1>2. ASSUME NEW t \in Tasks
      PROVE  task'[t] \in TaskRecs /\ task'[t].exe = task[t].exe /\ Unclaims(t)
  <2>1. CASE task'[t] = task[t]
    BY <1>1, <2>1, NothingUnclaimed
  <2>2. CASE task'[t] = [task[t] EXCEPT !.st = "todo"]
    <3>1. task[t] \in TaskRecs
      BY <1>1
    <3>2. /\ task'[t] \in TaskRecs /\ task'[t].exe = task[t].exe
          /\ task'[t].auto = task[t].auto
      BY <2>2, <3>1 DEF TaskRecs
    <3>3. QED BY <3>2 DEF Unclaims
  <2>3. QED BY <2>1, <2>2 DEF ResolveDecision
<1>3. task' \in [Tasks -> TaskRecs]
  BY <1>2 DEF ResolveDecision
<1>4. TypeOK' /\ Named' /\ ClaimKeptOrGone
  BY <1>3 DEF IInv, ResolveDecision, TypesOk, TypeOK, Named, view, main, ClaimKeptOrGone
<1>5. QED BY <1>2, <1>4, Frame DEF IInv, StopsOk, ResolveDecision, Acts, main, history

LEMMA ConfirmReviewGood == \A t \in Tasks : IInv /\ ConfirmReview(t) => IInv'
<1> SUFFICES ASSUME IInv, NEW t \in Tasks, ConfirmReview(t) PROVE IInv'
  OBVIOUS
<1>1. /\ reviewed' = reviewed \cup {t} /\ lost' = lost \ {t}
      /\ UNCHANGED <<goal, exec, task, adm, proof, live, claim, view, carried, stopped, made>>
  BY DEF ConfirmReview, Acts, main
<1>2. TypesOk'
  BY <1>1 DEF IInv, TypesOk, TypeOK, Named, view
<1>3. RunsOk'
  BY <1>1 DEF IInv, RunsOk, Unsettled
<1>4. LostOk'
  <2>1. \A u \in lost' : u \in lost /\ u # t
    BY <1>1
  <2>2. QED BY <1>1, <2>1 DEF IInv, LostOk, Active, Unclear, Unsettled
<1>5. ClaimKeptOrGone /\ \A u \in Tasks : Unclaims(u)
  BY <1>1, NothingUnclaimed DEF ClaimKeptOrGone
<1>6. PaidOk' /\ StopsOk' /\ ClaimsOk'
  BY <1>1, <1>5, PaidFrame, StopsFrame, ClaimsFrame DEF IInv, StopsOk
<1>7. QED BY <1>2, <1>3, <1>4, <1>6 DEF IInv

LEMMA StopExecutionGood == IInv /\ StopExecution => IInv'
<1> SUFFICES ASSUME IInv, StopExecution PROVE IInv'
  OBVIOUS
<1>1. /\ exec' \in ExecRecs /\ exec'.id = exec.id /\ exec'.st \in {"stopping", "stopped"}
      /\ exec \in ExecRecs /\ stopped' = stopped \cup {exec.id}
      /\ UNCHANGED <<goal, task, adm, reviewed, proof, main, view, lost, carried, made>>
  BY DEF IInv, StopExecution, Acts, TypesOk, TypeOK, ExecRecs
<1>2. TypesOk'
  BY <1>1 DEF IInv, TypesOk, TypeOK, Named, view, main
<1>3. RunsOk' /\ LostOk'
  BY <1>1, RunsFrame, LostFrame DEF IInv, main
<1>4. StopsOk'
  <2>1. exec.id \in Nat /\ exec.id \in 0..exec.id
    BY <1>1, GoalsAssumption, SMTT(20) DEF ExecRecs, Starts
  <2>2. QED BY <1>1, <2>1 DEF IInv, StopsOk
<1>5. ClaimKeptOrGone /\ \A u \in Tasks : Unclaims(u)
  BY <1>1, NothingUnclaimed DEF ClaimKeptOrGone, main
<1>6. PaidOk' /\ ClaimsOk'
  BY <1>1, <1>5, PaidFrame, ClaimsFrame DEF IInv, main
<1>7. QED BY <1>2, <1>3, <1>4, <1>6 DEF IInv

(* A new execution has an id that was never stopped.                        *)
LEMMA StartExecutionGood == IInv /\ StartExecution => IInv'
<1> SUFFICES ASSUME IInv, StartExecution PROVE IInv'
  OBVIOUS
<1>1. /\ exec' = [NoExec EXCEPT !.id = exec.id + 1, !.st = "active", !.waited = Waiting]
      /\ task' = [t \in Tasks |-> [task[t] EXCEPT !.auto.fresh = FALSE]]
      /\ exec.id < MaxStarts /\ exec \in ExecRecs /\ task \in [Tasks -> TaskRecs]
      /\ UNCHANGED <<goal, adm, reviewed, proof, main, view, history, bounds>>
  BY DEF IInv, StartExecution, TypesOk, TypeOK
<1>2. exec' \in ExecRecs /\ exec'.id = exec.id + 1 /\ exec.id \in Nat
  <2>1. exec.id \in Nat /\ exec.id + 1 \in Starts
    BY <1>1, GoalsAssumption DEF ExecRecs, Starts
  <2>2. Waiting \in SUBSET Tasks
    BY DEF Waiting
  <2>3. \A n \in Starts, w \in SUBSET Tasks :
          /\ [NoExec EXCEPT !.id = n, !.st = "active", !.waited = w] \in ExecRecs
          /\ [NoExec EXCEPT !.id = n, !.st = "active", !.waited = w].id = n
    BY DEF ExecRecs, NoExec
  <2>4. QED BY <1>1, <2>1, <2>2, <2>3
<1>3. \A t \in Tasks : /\ task'[t] \in TaskRecs /\ task'[t].exe = task[t].exe
                       /\ task'[t].auto.st = task[t].auto.st
                       /\ task'[t].auto.claim = task[t].auto.claim
                       /\ task'[t].auto.exec = task[t].auto.exec
  <2> SUFFICES ASSUME NEW t \in Tasks
               PROVE  /\ task'[t] \in TaskRecs /\ task'[t].exe = task[t].exe
                      /\ task'[t].auto.st = task[t].auto.st
                      /\ task'[t].auto.claim = task[t].auto.claim
                      /\ task'[t].auto.exec = task[t].auto.exec
    OBVIOUS
  <2> DEFINE b == [task[t].auto EXCEPT !.fresh = FALSE]
  <2>1. b \in Autos /\ b.st = task[t].auto.st /\ b.claim = task[t].auto.claim
        /\ b.exec = task[t].auto.exec /\ task[t] \in TaskRecs
    BY <1>1 DEF TaskRecs, Autos
  <2>2. task'[t] = [task[t] EXCEPT !.auto = b]
    BY <1>1
  <2> HIDE DEF b
  <2>3. QED BY <2>1, <2>2 DEF TaskRecs
<1>4. task' \in [Tasks -> TaskRecs]
  <2>1. task' = [t \in Tasks |-> task'[t]]
    BY <1>1
  <2>2. QED BY <1>3, <2>1
<1>5. TypesOk'
  BY <1>1, <1>2, <1>4 DEF IInv, TypesOk, TypeOK, Named, view, main, history
<1>6. RunsOk' /\ LostOk'
  BY <1>1, <1>3, RunsFrame, LostFrame DEF IInv, main, history
<1>7. StopsOk'
  <2>1. stopped' = stopped /\ \A s \in stopped : s \in 0..exec.id
    BY <1>1 DEF IInv, StopsOk, history
  <2>2. exec'.id \notin stopped
    BY <1>2, <2>1
  <2>3. \A s \in stopped : s \in 0..exec'.id
    BY <1>2, <2>1
  <2>4. QED BY <2>1, <2>2, <2>3 DEF StopsOk
<1>8. ClaimKeptOrGone /\ made' = made /\ \A t \in Tasks : Unclaims(t)
  BY <1>1, <1>3 DEF ClaimKeptOrGone, Unclaims, main, bounds
<1>9. PaidOk' /\ ClaimsOk'
  BY <1>1, <1>8, PaidFrame, ClaimsFrame DEF IInv, main, history
<1>10. QED BY <1>5, <1>6, <1>7, <1>9 DEF IInv

-----------------------------------------------------------------------------
LEMMA StepGood == IInv /\ [Next]_vars => IInv'
<1> SUFFICES ASSUME IInv, [Next]_vars PROVE IInv'
  OBVIOUS
<1>1. CASE Expire \/ Refresh \/ Advance \/ ClaimNext \/ ClaimAfterWait
  BY <1>1, ExpireGood, RefreshGood, AdvanceGood, ClaimNextGood, ClaimAfterWaitGood
<1>2. CASE ChatEnds \/ GiveBack \/ Bind \/ Unbind \/ Reload \/ Crash
  BY <1>2, ChatEndsGood, GiveBackGood, BindGood, UnbindGood, ReloadGood, CrashGood
<1>3. CASE \E st \in {"active", "paused", "stopped", "completed"} : UpdateGoal(st)
  BY <1>3, UpdateGoalGood
<1>4. CASE Authorize \/ StartExecution \/ StopExecution \/ EditContract \/ EditFiles
  BY <1>4, AuthorizeGood, StartExecutionGood, StopExecutionGood, EditContractGood, EditFilesGood
<1>5. CASE \E t \in Tasks : ReleaseWait(t) \/ SetWait(t) \/ ConfirmReview(t) \/ Verify(t)
  BY <1>5, ReleaseWaitGood, SetWaitGood, ConfirmReviewGood, VerifyGood
<1>6. CASE \E t \in Tasks, st \in {"todo", "completed", "cancelled"} : SetStatus(t, st)
  BY <1>6, SetStatusGood
<1>6a. CASE \E ts \in SUBSET Tasks : ResolveDecision(ts)
  BY <1>6a, ResolveDecisionGood
<1>7. CASE \E r \in Runs : ChatAdmitted(r) \/ FinishUnsettled(r)
  BY <1>7, ChatAdmittedGood, FinishUnsettledGood
<1>8. CASE \E r \in Runs, t \in Tasks : RunByHand(r, t)
  BY <1>8, RunByHandGood
<1>9. CASE \E r \in Runs, outcome \in {"completed", "failed", "cancelled"}, verified \in BOOLEAN :
             Finish(r, outcome, verified)
  BY <1>9, FinishGood
<1>10. CASE UNCHANGED vars
  <2>1. /\ UNCHANGED <<adm, live, lost, reviewed, carried, stopped, made>>
        /\ UNCHANGED <<goal, exec, task, proof, claim, window, ready>>
    BY <1>10 DEF vars, store, main, view, history, bounds
  <2>2. TypeOK' /\ Named' /\ ClaimKeptOrGone
    BY <2>1 DEF IInv, TypesOk, TypeOK, Named, ClaimKeptOrGone
  <2>3. QED BY <2>1, <2>2, StillGood
<1>11. QED BY <1>1, <1>2, <1>3, <1>4, <1>5, <1>6, <1>7, <1>8, <1>9, <1>10, <1>6a DEF Next

LEMMA AlwaysGood == Spec => []IInv
<1>1. QED BY InitGood, StepGood, PTL DEF Spec

(* A run begins as the chat of a claim, or by hand.                         *)
LEMMA OnlyTwoBegin ==
  ASSUME TypeOK, Next, ~(live' \subseteq live) \/ (window.st = "told" /\ window'.st = "waiting")
  PROVE  \E r \in Runs : ChatAdmitted(r) \/ \E t \in Tasks : RunByHand(r, t)
<1> SUFFICES ASSUME ~\E r \in Runs : ChatAdmitted(r) \/ \E t \in Tasks : RunByHand(r, t)
             PROVE  FALSE
  OBVIOUS
<1> DEFINE Quiet == live' \subseteq live /\ ~(window.st = "told" /\ window'.st = "waiting")
<1>1. CASE Expire \/ Refresh \/ Advance
  BY <1>1 DEF Expire, Refresh, Advance, main, view
<1>2. CASE ClaimNext \/ ClaimAfterWait
  <2>1. ASSUME NEW t, NEW c, Send(t, c) PROVE Quiet
    BY <2>1 DEF Send, Idle
  <2>2. Quiet
    BY <1>2, <2>1 DEF ClaimNext, ClaimAfterWait
  <2>3. QED BY <2>2
<1>3. CASE ChatEnds
  <2>1. window \in WindowRecs /\ window' = [window EXCEPT !.st = "ended"] /\ live' = live
    BY <1>3 DEF ChatEnds, TypeOK
  <2>2. QED BY <2>1 DEF WindowRecs
<1>4. CASE GiveBack \/ Bind \/ Unbind \/ Reload \/ Crash
  BY <1>4 DEF GiveBack, Bind, Unbind, Reload, Crash, Idle, main
<1>5. CASE \E st \in {"active", "paused", "stopped", "completed"} : UpdateGoal(st)
  BY <1>5 DEF UpdateGoal, main, view
<1>6. CASE Authorize \/ StartExecution \/ StopExecution \/ EditContract \/ EditFiles
  BY <1>6 DEF Authorize, StartExecution, StopExecution, EditContract, EditFiles, main, view
<1>7. CASE \E t \in Tasks : \/ ReleaseWait(t) \/ SetWait(t) \/ ConfirmReview(t) \/ Verify(t)
                            \/ \E st \in {"todo", "completed", "cancelled"} : SetStatus(t, st)
  BY <1>7 DEF ReleaseWait, SetWait, ConfirmReview, Verify, SetStatus, main, view
<1>7a. CASE \E ts \in SUBSET Tasks : ResolveDecision(ts)
  BY <1>7a DEF ResolveDecision, main, view
<1>8. CASE \E r \in Runs : \/ FinishUnsettled(r)
                           \/ \E outcome \in {"completed", "failed", "cancelled"},
                                 verified \in BOOLEAN : Finish(r, outcome, verified)
  <2>1. PICK r \in Runs : live' = live \ {r} /\ window' = Returns(r)
    BY <1>8 DEF FinishUnsettled, Finish
  <2>2. window \in WindowRecs
    BY DEF TypeOK
  <2>3. window'.st # "waiting" \/ window' = window
    BY <2>1, <2>2 DEF Returns, WindowRecs
  <2>4. QED BY <2>1, <2>3
<1>9. QED BY <1>1, <1>2, <1>3, <1>4, <1>5, <1>6, <1>7, <1>8, <1>7a DEF Next

(* Tasks, runs and claims fit together, and no task is worked on by two     *)
(* agents (goalStore.cjs:201, :278), for any number of tasks, runs, claims, *)
(* crashes and failed writes.                                               *)
THEOREM RunsAlwaysAccounted == Spec => []RunsAccounted
<1>1. IInv => RunsAccounted
  <2> SUFFICES ASSUME IInv PROVE RunsAccounted
    OBVIOUS
  <2>1. TypeOK
    BY DEF IInv, TypesOk
  <2>2. live \subseteq Unsettled
    BY <2>1 DEF IInv, RunsOk, Unsettled, TypeOK
  <2>3. QED BY <2>1, <2>2 DEF RunsAccounted, OneRunPerTask, IInv, RunsOk
<1>2. QED BY <1>1, AlwaysGood, PTL

(* The permission to go on by itself after a wait is used Cap times at most *)
(* in the life of the goal, and paid for in advance (goalStore.cjs:202).    *)
THEOREM AllowanceAlwaysKept == Spec => []AllowanceKept
<1>1. IInv => AllowanceKept
  <2> SUFFICES ASSUME IInv PROVE AllowanceKept
    OBVIOUS
  <2>1. goal.used \in 0..Cap /\ Cap \in Nat
    BY GoalsAssumption DEF IInv, TypesOk, TypeOK, GoalRecs
  <2>2. QED BY <2>1 DEF AllowanceKept, IInv, PaidOk
<1>2. QED BY <1>1, AlwaysGood, PTL

(* A task that was cut off is not run again before it was reviewed: whoever *)
(* starts it, canRun() refuses it (docs/canvas-and-goals.md:35).            *)
THEOREM CutOffIsReviewedFirst == Spec => InterruptedIsReviewed
<1> DEFINE Fresh == \A r \in live' \ live : adm'[r].task \notin lost
<1>1. IInv /\ [Next]_vars => Fresh \/ UNCHANGED vars
  <2> SUFFICES ASSUME IInv, Next PROVE Fresh
    OBVIOUS
  <2>1. TypeOK /\ adm \in [Runs -> RunRecs]
    BY DEF IInv, TypesOk, TypeOK
  <2>2. ASSUME NEW r \in Runs, NEW t \in Tasks, NEW a, Begin(r, t, a), CanRun(t), ~Active(t)
        PROVE  Fresh
    <3>1. live' = live \cup {r} /\ adm'[r] = [task |-> t, st |-> "running"]
      BY <2>1, <2>2 DEF Begin
    <3>2. t \notin lost
      BY <2>2, FreeToRun
    <3>3. QED BY <3>1, <3>2
  <2>3. CASE live' \subseteq live
    BY <2>3
  <2>4. CASE \E r \in Runs : ChatAdmitted(r)
    <3>1. window.task \in Tasks
      BY <2>4 DEF IInv, TypesOk, Named, Idle, ChatAdmitted
    <3>2. QED BY <2>2, <2>4, <3>1 DEF ChatAdmitted, Admits
  <2>5. CASE \E r \in Runs, t \in Tasks : RunByHand(r, t)
    BY <2>2, <2>5 DEF RunByHand, AdmitsByHand
  <2>6. QED BY <2>1, <2>3, <2>4, <2>5, OnlyTwoBegin
<1>2. QED BY <1>1, AlwaysGood, PTL DEF Spec, InterruptedIsReviewed

(* What was stopped, paused, edited or forbidden does not start by itself,  *)
(* also when the window had been told to start it.                          *)
THEOREM StopAlwaysHolds == Spec => StopHolds
<1> DEFINE Held == window.st = "told" /\ window'.st = "waiting" =>
                     /\ goal.st = "active" /\ (claim.asks => goal.authorized)
                     /\ claim.exec # 0 => claim.exec \notin stopped /\ exec.same
<1>1. IInv /\ [Next]_vars => Held \/ UNCHANGED vars
  <2> SUFFICES ASSUME IInv, Next, window.st = "told" /\ window'.st = "waiting"
               PROVE  /\ goal.st = "active" /\ (claim.asks => goal.authorized)
                      /\ claim.exec # 0 => claim.exec \notin stopped /\ exec.same
    OBVIOUS
  <2>1. ~\E r \in Runs, t \in Tasks : RunByHand(r, t)
    BY DEF RunByHand, view
  <2>2. PICK r \in Runs : ChatAdmitted(r)
    BY <2>1, OnlyTwoBegin DEF IInv, TypesOk
  <2>3. Accepts /\ Admits(window.task)
    BY <2>2 DEF ChatAdmitted
  <2>4. window.task \in Tasks
    BY DEF IInv, TypesOk, Named, Idle
  <2>5. goal.st = "active" /\ (claim.asks => goal.authorized)
    BY <2>3 DEF Accepts, Admits
  <2>6. ASSUME claim.exec # 0 PROVE claim.exec \notin stopped /\ exec.same
    <3>1. exec.st = "active" /\ exec.id = claim.exec
      BY <2>3, <2>6 DEF Accepts
    <3>2. claim.exec \notin stopped
      BY <3>1 DEF IInv, StopsOk
    <3>3. task[window.task].auto.exec = claim.exec
      BY <2>3, <2>4, <2>6 DEF Accepts, Admits, IInv, ClaimsOk
    <3>4. exec.same
      BY <2>3, <2>6, <3>3 DEF Admits
    <3>5. QED BY <3>2, <3>4
  <2>7. QED BY <2>5, <2>6
<1>2. QED BY <1>1, AlwaysGood, PTL DEF Spec, StopHolds
=============================================================================
