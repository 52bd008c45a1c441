---------------------------- MODULE RequestQueue ----------------------------
(***************************************************************************)
(* The queue of model requests that all runs of the process share          *)
(* (electron/requestQueue.cjs, class RequestQueue): at most `slots` model  *)
(* requests at a time, the others wait in order, and not more than         *)
(* maxWaiting of them.  The limit is a setting and may change at any time. *)
(*                                                                         *)
(* Each caller makes one call of run(signal, operation) after the other,   *)
(* each with a signal of its own.  Between the moment a waiting call gets  *)
(* its slot and the moment run() goes on, other code may run and the       *)
(* signal may fire.                                                        *)
(***************************************************************************)
EXTENDS Integers, Sequences, FiniteSets

CONSTANTS
  Callers,
  Limits,      (* what setLimit accepts: a range of positive integers      *)
  maxWaiting

ASSUME QueueAssumption ==
  /\ IsFiniteSet(Callers)
  /\ Limits \subseteq Nat \ {0}
  /\ maxWaiting \in Nat

VARIABLES
  slots,    (* this.limit                                                  *)
  used,     (* this.active                                                 *)
  waiting,  (* this.waiting                                                *)
  request,  (* what has become of each caller's latest call                *)
  aborted   (* callers whose latest signal has fired                       *)

queueVars == <<slots, used, waiting, request, aborted>>

Holding == {"granted", "running"}

RequestStates == Holding \cup {"none", "waiting", "done", "rejected"}

RequestHolders == {c \in Callers : request[c] \in Holding}

-----------------------------------------------------------------------------
(* drain(): the number of waiting calls it gives a slot, starting from a    *)
(* slots in use under the limit l.                                          *)
QueueGrants(q, a, l) ==
  IF a >= l THEN 0 ELSE IF Len(q) <= l - a THEN Len(q) ELSE l - a

(* The state after drain() runs on queue q, a slots in use, the limit l and *)
(* the calls f.                                                             *)
DrainQueue(q, a, l, f) ==
  LET n == QueueGrants(q, a, l)
      served == {q[i] : i \in 1..n}
  IN
    /\ slots' = l
    /\ used' = a + n
    /\ waiting' = SubSeq(q, n + 1, Len(q))
    /\ request' = [c \in Callers |-> IF c \in served THEN "granted" ELSE f[c]]

QueueInit ==
  /\ slots \in Limits
  /\ used = 0
  /\ waiting = <<>>
  /\ request = [c \in Callers |-> "none"]
  /\ aborted = {}

NoRequest(c) == request[c] \in {"none", "done", "rejected"}

(* acquire() with a signal that has fired already.                          *)
RequestAborted(c) ==
  /\ NoRequest(c)
  /\ request' = [request EXCEPT ![c] = "rejected"]
  /\ aborted' = aborted \cup {c}
  /\ UNCHANGED <<slots, used, waiting>>

(* acquire() finds a free slot and nobody waiting.                          *)
RequestAtOnce(c) ==
  /\ NoRequest(c)
  /\ waiting = <<>> /\ used < slots
  /\ used' = used + 1
  /\ request' = [request EXCEPT ![c] = "granted"]
  /\ aborted' = aborted \ {c}
  /\ UNCHANGED <<slots, waiting>>

RequestLaterFirst(c) ==         \* mutant: a call that has to wait goes to the front
  /\ NoRequest(c)
  /\ waiting # <<>> \/ used >= slots
  /\ aborted' = aborted \ {c}
  /\ IF Len(waiting) >= maxWaiting
     THEN request' = [request EXCEPT ![c] = "rejected"] /\ UNCHANGED waiting
     ELSE request' = [request EXCEPT ![c] = "waiting"] /\ waiting' = <<c>> \o waiting
  /\ UNCHANGED <<slots, used>>

(* acquire() has to wait, or finds the queue full.                          *)
RequestLater(c) ==
  /\ NoRequest(c)
  /\ waiting # <<>> \/ used >= slots
  /\ aborted' = aborted \ {c}
  /\ IF Len(waiting) >= maxWaiting
     THEN request' = [request EXCEPT ![c] = "rejected"] /\ UNCHANGED waiting
     ELSE request' = [request EXCEPT ![c] = "waiting"] /\ waiting' = Append(waiting, c)
  /\ UNCHANGED <<slots, used>>

WithoutRequest(q, at) == SubSeq(q, 1, at - 1) \o SubSeq(q, at + 1, Len(q))

AbortStays(c) ==                \* mutant: the listener leaves the entry behind
  /\ ~NoRequest(c) /\ c \notin aborted
  /\ aborted' = aborted \cup {c}
  /\ IF request[c] = "waiting" THEN request' = [request EXCEPT ![c] = "rejected"]
                            ELSE UNCHANGED request
  /\ UNCHANGED <<slots, used, waiting>>

(* The signal fires.  While the call waits its listener takes it out of the *)
(* queue; afterwards there is no listener any more.                         *)
Abort(c) ==
  /\ ~NoRequest(c) /\ c \notin aborted
  /\ aborted' = aborted \cup {c}
  /\ IF request[c] = "waiting"
     THEN /\ request' = [request EXCEPT ![c] = "rejected"]
          /\ \E at \in 1..Len(waiting) :
               waiting[at] = c /\ waiting' = WithoutRequest(waiting, at)
     ELSE UNCHANGED <<request, waiting>>
  /\ UNCHANGED <<slots, used>>

ResumeKeeps(c) ==               \* mutant: the early return skips the release
  /\ request[c] = "granted"
  /\ request' = [request EXCEPT ![c] = IF c \in aborted THEN "rejected" ELSE "running"]
  /\ UNCHANGED <<slots, used, waiting, aborted>>

(* run() goes on with its slot: it starts the operation, or, when the       *)
(* signal has fired in the meantime, gives the slot back.                   *)
Resume(c) ==
  /\ request[c] = "granted"
  /\ IF c \in aborted
     THEN DrainQueue(waiting, used - 1, slots, [request EXCEPT ![c] = "rejected"])
     ELSE /\ request' = [request EXCEPT ![c] = "running"]
          /\ UNCHANGED <<slots, used, waiting>>
  /\ UNCHANGED aborted

(* The operation ends, well or badly: release and drain.                    *)
Finish(c) ==
  /\ request[c] = "running"
  /\ DrainQueue(waiting, used - 1, slots, [request EXCEPT ![c] = "done"])
  /\ UNCHANGED aborted

SetLimitOnly(l) ==              \* mutant: setLimit does not drain
  /\ slots' = l
  /\ UNCHANGED <<used, waiting, request, aborted>>

(* setLimit(): a higher limit serves waiting calls at once.                 *)
SetLimit(l) ==
  /\ DrainQueue(waiting, used, l, request)
  /\ UNCHANGED aborted

QueueNext ==
  \/ \E c \in Callers :
       \/ RequestAborted(c) \/ RequestAtOnce(c) \/ RequestLater(c)
       \/ Abort(c) \/ Resume(c) \/ Finish(c)
  \/ \E l \in Limits : SetLimit(l)

(* The event loop goes on with a call that has its slot, and a model        *)
(* request ends: it has a timeout (agent.cjs).                              *)
QueueFairness == \A c \in Callers : WF_queueVars(Resume(c)) /\ WF_queueVars(Finish(c))

QueueSpec == QueueInit /\ [][QueueNext]_queueVars
FairQueueSpec == QueueSpec /\ QueueFairness

-----------------------------------------------------------------------------
QueueTypeOK ==
  /\ slots \in Limits
  /\ used \in Nat
  /\ waiting \in Seq(Callers)
  /\ request \in [Callers -> RequestStates]
  /\ aborted \subseteq Callers

(* Every slot in use belongs to one unfinished call: none is lost when a    *)
(* signal fires between the grant and the start, none is freed twice.       *)
RequestsAccounted == used = Cardinality(RequestHolders)

(* The queue holds the calls that wait, each once, and no more than allowed.*)
WaitingAccounted ==
  /\ \A i, j \in 1..Len(waiting) : waiting[i] = waiting[j] => i = j
  /\ {c \in Callers : request[c] = "waiting"} = {waiting[i] : i \in 1..Len(waiting)}
  /\ Len(waiting) <= maxWaiting

(* Slots and queue stay true to the calls, whatever order aborts, ends,     *)
(* resumptions of granted calls and changes of the limit come in.           *)
QueueConsistent == QueueTypeOK /\ RequestsAccounted /\ WaitingAccounted

(* Nobody waits beside a free slot, whatever happened to the limit.         *)
NoIdleSlot == waiting # <<>> => used >= slots

(* After the limit was lowered more requests may be running than allowed,   *)
(* but none is started until their number is below the new limit.           *)
NoGrantOverLimit == [][used' > used => used' <= slots']_queueVars

(* First come, first served, also across changes of the limit.              *)
WaitsBefore(q, c, d) == \E i, j \in 1..Len(q) : i < j /\ q[i] = c /\ q[j] = d

PassesRequest(c, d) ==
  /\ ~WaitsBefore(waiting, c, d)
  /\ request[d] = "waiting" /\ request'[d] = "waiting"
  /\ \/ request[c] \notin Holding /\ request'[c] \in Holding
     \/ WaitsBefore(waiting', c, d)

NobodyIsPassed == [][\A c, d \in Callers : ~PassesRequest(c, d)]_queueVars

(* Whoever waits gets a slot or is cancelled, even if the limit keeps       *)
(* changing.                                                                *)
EveryCallIsServed ==
  \A c \in Callers : request[c] = "waiting" ~> request[c] # "waiting"
=============================================================================
