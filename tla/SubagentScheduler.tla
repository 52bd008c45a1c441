-------------------------- MODULE SubagentScheduler --------------------------
(***************************************************************************)
(* The run-wide FIFO of sub-agent executions                               *)
(* (electron/subagentScheduler.cjs, class SubagentScheduler).  Read-only   *)
(* tasks share up to `limit` slots, a writing task holds the scheduler     *)
(* alone, and whoever waits may be cancelled.                              *)
(*                                                                         *)
(* Every method runs to completion on the JavaScript event loop, so one    *)
(* action is one call together with the drain() it ends with.  A call of   *)
(* acquire(readOnly, signal) is named by the task that makes it; a task    *)
(* whose handle was released may call again with a fresh signal.           *)
(***************************************************************************)
EXTENDS Integers, Sequences, FiniteSets

CONSTANTS
  Tasks,    (* callers of acquire                                   *)
  Writers,  (* those that call it with readOnly = false             *)
  limit     (* number of slots, clamped to 1..8 by the constructor  *)

ASSUME SchedulerAssumption ==
  /\ IsFiniteSet(Tasks)
  /\ Writers \subseteq Tasks
  /\ limit \in Nat \ {0}

VARIABLES
  queue,   (* this.queue: the waiting entries, oldest first          *)
  active,  (* this.active: number of slots handed out                *)
  writer,  (* this.writer: a writing task holds the scheduler        *)
  call     (* what has become of each task's latest acquire call     *)

vars == <<queue, active, writer, call>>

Calls == {"none", "waiting", "granted", "released", "rejected"}

Holders == {t \in Tasks : call[t] = "granted"}

-----------------------------------------------------------------------------
(* drain(): hand slots to the head of the queue until the loop condition    *)
(* fails or a writer heads the queue while slots are in use.  Stops says    *)
(* that the loop ends once the first n entries of q have been served,       *)
(* starting from a slots in use and no writer.                              *)
Stops(q, n, a) ==
  \/ n = Len(q)
  \/ n > 0 /\ q[n] \in Writers
  \/ a + n >= limit
  \/ q[n + 1] \in Writers /\ a + n > 0

Grants(q, a, w) ==
  IF w THEN 0
  ELSE CHOOSE n \in 0..Len(q) :
         Stops(q, n, a) /\ \A m \in 0..n-1 : ~Stops(q, m, a)

Served(q, n) == {q[i] : i \in 1..n}

DrainForgetsWriter(q, a, w, c) ==   \* mutant: a granted writer does not close the door
  LET n == Grants(q, a, w) IN
    /\ queue' = SubSeq(q, n + 1, Len(q))
    /\ active' = a + n
    /\ writer' = w
    /\ call' = [t \in Tasks |-> IF t \in Served(q, n) THEN "granted" ELSE c[t]]

(* The state after drain() runs on queue q, active a, writer w and the      *)
(* calls c.                                                                 *)
Drain(q, a, w, c) ==
  LET n == Grants(q, a, w) IN
    /\ queue' = SubSeq(q, n + 1, Len(q))
    /\ active' = a + n
    /\ writer' = (w \/ \E t \in Served(q, n) : t \in Writers)
    /\ call' = [t \in Tasks |-> IF t \in Served(q, n) THEN "granted" ELSE c[t]]

-----------------------------------------------------------------------------
Init ==
  /\ queue = <<>>
  /\ active = 0
  /\ writer = FALSE
  /\ call = [t \in Tasks |-> "none"]

Idle(t) == call[t] \in {"none", "released", "rejected"}

AcquireFirst(t) ==              \* mutant: unshift instead of push
  /\ Idle(t)
  /\ Drain(<<t>> \o queue, active, writer, [call EXCEPT ![t] = "waiting"])

(* acquire() with a live signal: enqueue, then drain.                       *)
Acquire(t) ==
  /\ Idle(t)
  /\ Drain(Append(queue, t), active, writer, [call EXCEPT ![t] = "waiting"])

(* acquire() with a signal that is already aborted rejects before it        *)
(* touches the queue.                                                       *)
AcquireAborted(t) ==
  /\ Idle(t)
  /\ call' = [call EXCEPT ![t] = "rejected"]
  /\ UNCHANGED <<queue, active, writer>>

Without(q, at) == SubSeq(q, 1, at - 1) \o SubSeq(q, at + 1, Len(q))

OnAbortNoDrain(t) ==            \* mutant: the abort listener does not drain
  /\ call[t] = "waiting"
  /\ queue' = SelectSeq(queue, LAMBDA u : u # t)
  /\ call' = [call EXCEPT ![t] = "rejected"]
  /\ UNCHANGED <<active, writer>>

(* The abort listener of an entry that still waits: splice it out of the    *)
(* queue, reject its promise, drain.  A granted entry has no listener.      *)
OnAbort(t) ==
  /\ call[t] = "waiting"
  /\ \E at \in 1..Len(queue) :
       /\ queue[at] = t
       /\ Drain(Without(queue, at), active, writer,
                [call EXCEPT ![t] = "rejected"])

(* The release handle of a granted entry.                                   *)
Release(t) ==
  /\ call[t] = "granted"
  /\ Drain(queue, active - 1, writer /\ t \notin Writers,
           [call EXCEPT ![t] = "released"])

ReleaseTwice(t) ==              \* mutant: the handle is not one-shot
  /\ call[t] = "released"
  /\ active > 0
  /\ Drain(queue, active - 1, writer /\ t \notin Writers, call)

(* The same handle called a second time returns early.                      *)
ReleaseAgain(t) ==
  /\ call[t] = "released"
  /\ UNCHANGED vars

Next ==
  \E t \in Tasks :
    Acquire(t) \/ AcquireAborted(t) \/ OnAbort(t) \/ Release(t) \/ ReleaseAgain(t)

(* A holder always releases: delegate() calls the handle in the finally of  *)
(* the execution, which its deadline timer aborts (subagents.cjs).          *)
Fairness == \A t \in Tasks : WF_vars(Release(t))

Spec == Init /\ [][Next]_vars
FairSpec == Spec /\ Fairness

-----------------------------------------------------------------------------
TypeOK ==
  /\ queue \in Seq(Tasks)
  /\ active \in 0..limit
  /\ writer \in BOOLEAN
  /\ call \in [Tasks -> Calls]

(* A writing sub-agent never runs beside another one: as long as a writer   *)
(* holds a slot nobody else does, whatever was queued, cancelled or         *)
(* released in between (subagentScheduler.cjs:46, :50).                     *)
WriterExclusive ==
  \A w \in Holders \cap Writers : Holders = {w}

(* The counters say who holds the scheduler: active is the number of        *)
(* granted, unreleased entries, never more than limit, and writer is set    *)
(* exactly while a writer is among them.  A slot lost or freed twice breaks *)
(* it and starves or overfills every later run step.                        *)
SlotsAccounted ==
  /\ active = Cardinality(Holders)
  /\ active <= limit
  /\ writer <=> Holders \cap Writers # {}

(* The queue and the calls agree: an entry waits in the queue exactly once. *)
QueueAccounted ==
  /\ \A i, j \in 1..Len(queue) : queue[i] = queue[j] => i = j
  /\ {t \in Tasks : call[t] = "waiting"} = {queue[i] : i \in 1..Len(queue)}

(* However calls, aborts, releases and second releases are interleaved, the *)
(* writers are alone and the scheduler's books are true: its counters are   *)
(* those of the holders, its queue that of the waiting calls.               *)
Consistent == TypeOK /\ WriterExclusive /\ SlotsAccounted /\ QueueAccounted

(* No lost wake-up: once a call has returned, the head of the queue really  *)
(* cannot run.  In particular cancelling a queued writer frees the readers  *)
(* stuck behind it without waiting for a release (onAbort's drain).         *)
NoLostWakeup ==
  queue # <<>> =>
    IF Head(queue) \in Writers
    THEN active > 0
    ELSE writer \/ active = limit

(* First come, first served: whoever is ahead of a task that keeps waiting, *)
(* in the queue or by getting a slot, was ahead of it before.  So neither   *)
(* an abort, a release, a writer at the head nor a free slot at the moment  *)
(* of the call lets a later caller pass an earlier one.                     *)
Before(q, t, u) == \E i, j \in 1..Len(q) : i < j /\ q[i] = t /\ q[j] = u

Passes(t, u) ==
  /\ ~Before(queue, t, u)
  /\ call[u] = "waiting" /\ call'[u] = "waiting"
  /\ \/ call[t] # "granted" /\ call'[t] = "granted"
     \/ Before(queue', t, u)

NoOvertaking == [][\A t, u \in Tasks : ~Passes(t, u)]_vars

(* Nobody waits for ever, a writer among a stream of readers included.      *)
EveryWaiterIsServed ==
  \A t \in Tasks : call[t] = "waiting" ~> call[t] # "waiting"

Lock == INSTANCE ReadersWriterLock WITH inside <- Holders

(* Seen by the sub-agents that hold it, the scheduler is a bounded readers- *)
(* writer lock: every call is a step of the lock or invisible to it.        *)
IsReadersWriterLock == Lock!Spec
=============================================================================
