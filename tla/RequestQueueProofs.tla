-------------------------- MODULE RequestQueueProofs --------------------------
(***************************************************************************)
(* The request queue is safe for any number of callers, any length of the  *)
(* queue and any range of limits.                                           *)
(*                                                                         *)
(* Accounted is the inductive invariant, stated for the queue, slots and   *)
(* calls that a drain starts from.  Every action either leaves it alone or *)
(* prepares such a state and drains, so one lemma about Drain serves them  *)
(* all.                                                                     *)
(***************************************************************************)
EXTENDS RequestQueue, FiniteSetTheorems, SequenceTheorems, TLAPS

HeldIn(f) == {c \in Callers : f[c] \in Holding}

Served(q, n) == {q[i] : i \in 1..n}

Accounted(q, a, f) ==
  /\ q \in Seq(Callers)
  /\ f \in [Callers -> RequestStates]
  /\ a = Cardinality(HeldIn(f))
  /\ Len(q) <= maxWaiting
  /\ \A i, j \in 1..Len(q) : q[i] = q[j] => i = j
  /\ \A c \in Callers : f[c] = "waiting" <=> \E i \in 1..Len(q) : q[i] = c

IInv ==
  /\ Accounted(waiting, used, request)
  /\ slots \in Limits
  /\ aborted \subseteq Callers
  /\ NoIdleSlot

-----------------------------------------------------------------------------
(* How many calls a drain serves: as many as there are, or up to the limit. *)
LEMMA GrantsFit ==
  ASSUME NEW q \in Seq(Callers), NEW a \in Nat, NEW l \in Nat
  PROVE  /\ QueueGrants(q, a, l) \in 0..Len(q)
         /\ QueueGrants(q, a, l) > 0 => a + QueueGrants(q, a, l) <= l
         /\ QueueGrants(q, a, l) = Len(q) \/ a + QueueGrants(q, a, l) >= l
BY DEF QueueGrants

(* A prefix of a queue without duplicates has as many entries as its length.*)
LEMMA ServedCount ==
  ASSUME NEW q \in Seq(Callers), NEW n \in 0..Len(q),
         \A i, j \in 1..Len(q) : q[i] = q[j] => i = j
  PROVE  /\ IsFiniteSet(Served(q, n))
         /\ Cardinality(Served(q, n)) = n
<1> DEFINE f == [i \in 1..n |-> q[i]]
<1>1. f \in Bijection(1..n, Served(q, n))
  <2>1. f \in [1..n -> Served(q, n)]
    BY DEF Served
  <2>2. IsInjective(f)
    BY DEF IsInjective
  <2>3. \A c \in Served(q, n) : \E i \in 1..n : f[i] = c
    BY DEF Served
  <2>4. QED BY <2>1, <2>2, <2>3 DEF Bijection, Injection, Surjection
<1>2. IsFiniteSet(1..n) /\ Cardinality(1..n) = n
  BY FS_Interval
<1>3. ExistsBijection(1..n, Served(q, n))
  BY <1>1 DEF ExistsBijection
<1>4. QED BY <1>2, <1>3, FS_Bijection

LEMMA HeldIsFinite ==
  ASSUME NEW f
  PROVE  IsFiniteSet(HeldIn(f)) /\ Cardinality(HeldIn(f)) \in Nat
<1>1. HeldIn(f) \in SUBSET Callers
  BY DEF HeldIn
<1>2. QED BY <1>1, FS_Subset, FS_CardinalityType, QueueAssumption

(* drain() keeps the accounts and leaves nobody waiting beside a free slot. *)
LEMMA DrainKeepsAccounts ==
  ASSUME NEW q, NEW a, NEW l \in Limits, NEW f,
         Accounted(q, a, f), DrainQueue(q, a, l, f)
  PROVE  /\ Accounted(waiting', used', request')
         /\ NoIdleSlot'
         /\ slots' \in Limits
<1> DEFINE n == QueueGrants(q, a, l)
           got == Served(q, n)
<1>1. /\ q \in Seq(Callers) /\ a \in Nat /\ l \in Nat
      /\ IsFiniteSet(HeldIn(f)) /\ a = Cardinality(HeldIn(f))
  BY HeldIsFinite, QueueAssumption DEF Accounted
<1>2. n \in 0..Len(q) /\ (n = Len(q) \/ a + n >= l)
  BY <1>1, GrantsFit
<1>3. \A i, j \in 1..Len(q) : q[i] = q[j] => i = j
  BY DEF Accounted
<1> HIDE DEF n
<1>4. IsFiniteSet(got) /\ Cardinality(got) = n
  BY <1>1, <1>2, <1>3, ServedCount
<1>5. /\ slots' = l
      /\ used' = a + n
      /\ waiting' = SubSeq(q, n + 1, Len(q))
      /\ request' = [c \in Callers |-> IF c \in got THEN "granted" ELSE f[c]]
  BY DEF DrainQueue, n, Served
<1>6. \A c \in Callers : f[c] = "waiting" <=> \E i \in 1..Len(q) : q[i] = c
  BY DEF Accounted
<1>7. got \subseteq {c \in Callers : f[c] = "waiting"}
  BY <1>1, <1>2, <1>6 DEF Served
<1>8. used' = Cardinality(HeldIn(request'))
  <2>1. HeldIn(request') = HeldIn(f) \cup got /\ HeldIn(f) \cap got = {}
    BY <1>5, <1>7 DEF HeldIn, Holding
  <2>2. Cardinality(HeldIn(f) \cup got) = Cardinality(HeldIn(f)) + Cardinality(got) - 0
    BY <1>1, <1>4, <2>1, FS_Union, FS_EmptySet
  <2>3. Cardinality(HeldIn(request')) = a + n - 0
    BY <2>1, <2>2, <1>1, <1>4
  <2>4. QED BY <2>3, <1>1, <1>2, <1>5
<1>9. /\ waiting' \in Seq(Callers)
      /\ Len(waiting') = Len(q) - n
      /\ \A i \in 1..Len(waiting') : waiting'[i] = q[n + i]
  BY <1>1, <1>2, <1>5
<1>10. request' \in [Callers -> RequestStates]
  BY <1>5 DEF Accounted, RequestStates, Holding
<1>11. Len(waiting') <= maxWaiting
  BY <1>1, <1>2, <1>9, QueueAssumption DEF Accounted
<1>12. \A i, j \in 1..Len(waiting') : waiting'[i] = waiting'[j] => i = j
  BY <1>1, <1>2, <1>3, <1>9
<1>13. ASSUME NEW c \in Callers
       PROVE  request'[c] = "waiting" <=> \E i \in 1..Len(waiting') : waiting'[i] = c
  <2>1. c \in got <=> \E i \in 1..n : q[i] = c
    BY DEF Served
  <2>2. ASSUME request'[c] = "waiting"
        PROVE  \E i \in 1..Len(waiting') : waiting'[i] = c
    <3>1. c \notin got /\ f[c] = "waiting"
      BY <2>2, <1>5
    <3>2. PICK k \in 1..Len(q) : q[k] = c
      BY <3>1, <1>6
    <3>3. k \notin 1..n
      BY <3>1, <3>2, <2>1
    <3>4. k - n \in 1..Len(waiting') /\ waiting'[k - n] = q[n + (k - n)]
      BY <3>2, <3>3, <1>1, <1>2, <1>9
    <3>5. QED BY <3>2, <3>4, <1>2
  <2>3. ASSUME NEW i \in 1..Len(waiting'), waiting'[i] = c
        PROVE  request'[c] = "waiting"
    <3>1. n + i \in 1..Len(q) /\ q[n + i] = c /\ n + i \notin 1..n
      BY <2>3, <1>1, <1>2, <1>9
    <3>2. c \notin got
      BY <3>1, <2>1, <1>2, <1>3
    <3>3. f[c] = "waiting"
      BY <3>1, <1>6
    <3>4. QED BY <3>2, <3>3, <1>5
  <2>4. QED BY <2>2, <2>3
<1>14. NoIdleSlot'
  <2>1. waiting' # <<>> => n # Len(q)
    BY <1>1, <1>2, <1>9
  <2>2. QED BY <2>1, <1>2, <1>5 DEF NoIdleSlot
<1>15. QED
  BY <1>5, <1>8, <1>9, <1>10, <1>11, <1>12, <1>13, <1>14 DEF Accounted

(* A call that stops holding its slot leaves one slot less in use.          *)
LEMMA ReturnKeepsAccounts ==
  ASSUME NEW c \in Callers, NEW to \in {"rejected", "done"},
         IInv, request[c] \in Holding
  PROVE  Accounted(waiting, used - 1, [request EXCEPT ![c] = to])
<1> DEFINE f == [request EXCEPT ![c] = to]
<1>1. request \in [Callers -> RequestStates] /\ used = Cardinality(HeldIn(request))
  BY DEF IInv, Accounted
<1>2. c \in HeldIn(request) /\ HeldIn(f) = HeldIn(request) \ {c}
  BY <1>1 DEF HeldIn, Holding
<1>3. IsFiniteSet(HeldIn(request)) /\ Cardinality(HeldIn(request)) \in Nat
  BY HeldIsFinite
<1>4. Cardinality(HeldIn(f)) = Cardinality(HeldIn(request)) - 1
  BY <1>2, <1>3, FS_RemoveElement
<1>5. f \in [Callers -> RequestStates]
  BY <1>1 DEF RequestStates, Holding
<1>6. \A d \in Callers : f[d] = "waiting" <=> request[d] = "waiting"
  BY <1>1 DEF Holding
<1> HIDE DEF f
<1>7. Accounted(waiting, used - 1, f)
  BY <1>1, <1>4, <1>5, <1>6 DEF IInv, Accounted
<1>8. QED BY <1>7 DEF f

(* Taking one entry out of a queue keeps the order of the others.           *)
LEMMA WithoutEntries ==
  ASSUME NEW q \in Seq(Callers), NEW at \in 1..Len(q)
  PROVE  /\ WithoutRequest(q, at) \in Seq(Callers)
         /\ Len(WithoutRequest(q, at)) = Len(q) - 1
         /\ \A i \in 1..Len(q)-1 :
              WithoutRequest(q, at)[i] = IF i < at THEN q[i] ELSE q[i + 1]
<1> DEFINE front == SubSeq(q, 1, at - 1)
           back == SubSeq(q, at + 1, Len(q))
<1>1. /\ front \in Seq(Callers) /\ Len(front) = at - 1
      /\ \A i \in 1..at-1 : front[i] = q[i]
  OBVIOUS
<1>2. /\ back \in Seq(Callers) /\ Len(back) = Len(q) - at
      /\ \A i \in 1..Len(q)-at : back[i] = q[at + i]
  OBVIOUS
<1> HIDE DEF front, back
<1>3. /\ front \o back \in Seq(Callers)
      /\ Len(front \o back) = Len(front) + Len(back)
      /\ \A i \in 1..Len(front)+Len(back) :
           (front \o back)[i] = IF i <= Len(front) THEN front[i] ELSE back[i - Len(front)]
  BY <1>1, <1>2, ConcatProperties
<1>4. Len(front) + Len(back) = Len(q) - 1
  BY <1>1, <1>2
<1>5. ASSUME NEW i \in 1..Len(q)-1
      PROVE  (front \o back)[i] = IF i < at THEN q[i] ELSE q[i + 1]
  <2>1. CASE i < at
    BY <2>1, <1>1, <1>3, <1>4
  <2>2. CASE ~(i < at)
    <3>1. i - (at - 1) \in 1..Len(q)-at /\ at + (i - (at - 1)) = i + 1
      BY <2>2
    <3>2. back[i - (at - 1)] = q[at + (i - (at - 1))]
      BY <3>1, <1>2
    <3>3. (front \o back)[i] = back[i - (at - 1)]
      BY <2>2, <1>1, <1>3, <1>4
    <3>4. QED BY <2>2, <3>1, <3>2, <3>3
  <2>3. QED BY <2>1, <2>2
<1>6. QED BY <1>3, <1>4, <1>5 DEF WithoutRequest, front, back

(* A cancelled call leaves the queue and nothing else.                      *)
LEMMA SpliceKeepsAccounts ==
  ASSUME NEW c \in Callers, IInv, request[c] = "waiting",
         NEW at \in 1..Len(waiting), waiting[at] = c
  PROVE  Accounted(WithoutRequest(waiting, at), used, [request EXCEPT ![c] = "rejected"])
<1> DEFINE q == WithoutRequest(waiting, at)
           f == [request EXCEPT ![c] = "rejected"]
<1>1. /\ request \in [Callers -> RequestStates] /\ waiting \in Seq(Callers)
      /\ used = Cardinality(HeldIn(request)) /\ Len(waiting) <= maxWaiting
  BY DEF IInv, Accounted
<1>2. /\ q \in Seq(Callers)
      /\ Len(q) = Len(waiting) - 1
      /\ \A i \in 1..Len(q) : q[i] = IF i < at THEN waiting[i] ELSE waiting[i + 1]
  BY <1>1, WithoutEntries
<1> HIDE DEF q
<1>3. HeldIn(f) = HeldIn(request) /\ f \in [Callers -> RequestStates]
  BY <1>1 DEF HeldIn, RequestStates, Holding
<1>4. \A i, j \in 1..Len(waiting) : waiting[i] = waiting[j] => i = j
  BY DEF IInv, Accounted
<1>5. \A i, j \in 1..Len(q) : q[i] = q[j] => i = j
  BY <1>1, <1>2, <1>4
<1>6. ASSUME NEW d \in Callers
      PROVE  f[d] = "waiting" <=> \E i \in 1..Len(q) : q[i] = d
  <2>1. request[d] = "waiting" <=> \E i \in 1..Len(waiting) : waiting[i] = d
    BY DEF IInv, Accounted
  <2>2. CASE d = c
    BY <2>2, <1>1, <1>2, <1>4
  <2>3. CASE d # c
    <3>1. f[d] = request[d]
      BY <2>3, <1>1
    <3>2. ASSUME NEW k \in 1..Len(waiting), waiting[k] = d
          PROVE  \E i \in 1..Len(q) : q[i] = d
      <4>1. CASE k < at
        BY <4>1, <3>2, <1>1, <1>2
      <4>2. CASE k > at
        <5>1. k - 1 \in 1..Len(q) /\ ~(k - 1 < at) /\ (k - 1) + 1 = k
          BY <4>2, <1>1, <1>2
        <5>2. q[k - 1] = waiting[(k - 1) + 1]
          BY <5>1, <1>2
        <5>3. QED BY <5>1, <5>2, <3>2
      <4>3. QED BY <4>1, <4>2, <3>2, <2>3, <1>1
    <3>3. ASSUME NEW i \in 1..Len(q), q[i] = d
          PROVE  \E k \in 1..Len(waiting) : waiting[k] = d
      BY <3>3, <1>1, <1>2
    <3>4. QED BY <2>1, <3>1, <3>2, <3>3
  <2>4. QED BY <2>2, <2>3
<1>7. Len(q) <= maxWaiting
  BY <1>1, <1>2, QueueAssumption
<1> HIDE DEF f
<1>8. Accounted(q, used, f)
  BY <1>1, <1>2, <1>3, <1>5, <1>6, <1>7 DEF Accounted
<1>9. QED BY <1>8 DEF q, f

(* A call that has to wait is the last of the queue.                        *)
LEMMA EnqueueKeepsAccounts ==
  ASSUME NEW c \in Callers, IInv, NoRequest(c), Len(waiting) < maxWaiting
  PROVE  Accounted(Append(waiting, c), used, [request EXCEPT ![c] = "waiting"])
<1> DEFINE q == Append(waiting, c)
           f == [request EXCEPT ![c] = "waiting"]
<1>1. /\ request \in [Callers -> RequestStates] /\ waiting \in Seq(Callers)
      /\ used = Cardinality(HeldIn(request))
      /\ request[c] # "waiting" /\ request[c] \notin Holding
  BY DEF IInv, Accounted, NoRequest, Holding
<1>2. /\ q \in Seq(Callers)
      /\ Len(q) = Len(waiting) + 1
      /\ \A i \in 1..Len(waiting) : q[i] = waiting[i]
      /\ q[Len(waiting) + 1] = c
  BY <1>1
<1>3. HeldIn(f) = HeldIn(request) /\ f \in [Callers -> RequestStates]
  BY <1>1 DEF HeldIn, RequestStates, Holding
<1>4. \A i \in 1..Len(waiting) : waiting[i] # c
  BY <1>1 DEF IInv, Accounted
<1>5. \A i, j \in 1..Len(q) : q[i] = q[j] => i = j
  BY <1>1, <1>2, <1>4 DEF IInv, Accounted
<1>6. \A d \in Callers : f[d] = "waiting" <=> \E i \in 1..Len(q) : q[i] = d
  BY <1>1, <1>2 DEF IInv, Accounted
<1>7. Len(q) <= maxWaiting
  BY <1>1, <1>2, QueueAssumption
<1> HIDE DEF q, f
<1>8. Accounted(q, used, f)
  BY <1>1, <1>2, <1>3, <1>5, <1>6, <1>7 DEF Accounted
<1>9. QED BY <1>8 DEF q, f

(* Changing a call that neither waits nor holds a slot touches no account.  *)
LEMMA RejectKeepsAccounts ==
  ASSUME NEW c \in Callers, IInv, NoRequest(c)
  PROVE  Accounted(waiting, used, [request EXCEPT ![c] = "rejected"])
<1> DEFINE f == [request EXCEPT ![c] = "rejected"]
<1>1. request \in [Callers -> RequestStates] /\ request[c] # "waiting" /\ request[c] \notin Holding
  BY DEF IInv, Accounted, NoRequest, Holding
<1>2. HeldIn(f) = HeldIn(request) /\ f \in [Callers -> RequestStates]
  BY <1>1 DEF HeldIn, RequestStates, Holding
<1>3. \A d \in Callers : f[d] = "waiting" <=> request[d] = "waiting"
  BY <1>1
<1> HIDE DEF f
<1>4. Accounted(waiting, used, f)
  BY <1>2, <1>3 DEF IInv, Accounted
<1>5. QED BY <1>4 DEF f

-----------------------------------------------------------------------------
LEMMA InitAccounts == QueueInit => IInv
<1> SUFFICES ASSUME QueueInit PROVE IInv
  OBVIOUS
<1>1. HeldIn(request) = {}
  BY DEF QueueInit, HeldIn, Holding
<1>2. Cardinality(HeldIn(request)) = 0
  BY <1>1, FS_EmptySet
<1>3. request \in [Callers -> RequestStates] /\ \A c \in Callers : request[c] # "waiting"
  BY DEF QueueInit, RequestStates
<1>4. /\ waiting \in Seq(Callers) /\ Len(waiting) = 0
      /\ used = 0 /\ slots \in Limits /\ aborted = {}
      /\ NoIdleSlot
  BY DEF QueueInit, NoIdleSlot
<1>5. Len(waiting) <= maxWaiting
  BY <1>4, QueueAssumption
<1>6. QED BY <1>2, <1>3, <1>4, <1>5 DEF IInv, Accounted

(* Inductive step, one case per method of the queue and per event.          *)
LEMMA StepKeepsAccounts == IInv /\ [QueueNext]_queueVars => IInv'
<1> SUFFICES ASSUME IInv, [QueueNext]_queueVars PROVE IInv'
  OBVIOUS
<1>1. slots \in Limits /\ aborted \subseteq Callers /\ NoIdleSlot
  BY DEF IInv
<1>2. ASSUME NEW c \in Callers, RequestAborted(c) PROVE IInv'
  <2>1. Accounted(waiting, used, [request EXCEPT ![c] = "rejected"])
    BY <1>2, RejectKeepsAccounts DEF RequestAborted
  <2>2. QED BY <1>1, <1>2, <2>1 DEF RequestAborted, IInv, NoIdleSlot
<1>3. ASSUME NEW c \in Callers, RequestAtOnce(c) PROVE IInv'
  <2>1. /\ request \in [Callers -> RequestStates] /\ request[c] \notin Holding
        /\ request[c] # "waiting" /\ request' = [request EXCEPT ![c] = "granted"]
    BY <1>3 DEF IInv, Accounted, RequestAtOnce, NoRequest, Holding
  <2>2. HeldIn(request') = HeldIn(request) \cup {c} /\ c \notin HeldIn(request)
    BY <2>1 DEF HeldIn, Holding
  <2>3. used' = Cardinality(HeldIn(request'))
    <3>1. Cardinality(HeldIn(request) \cup {c}) = Cardinality(HeldIn(request)) + 1
      BY <2>2, HeldIsFinite, FS_AddElement
    <3>2. QED BY <1>3, <2>2, <3>1 DEF RequestAtOnce, IInv, Accounted
  <2>4. request' \in [Callers -> RequestStates]
    BY <2>1 DEF RequestStates, Holding
  <2>5. \A d \in Callers : request'[d] = "waiting" <=> request[d] = "waiting"
    BY <2>1
  <2>6. Accounted(waiting, used', request')
    BY <2>3, <2>4, <2>5 DEF IInv, Accounted
  <2>7. QED
    BY <1>1, <1>3, <2>6 DEF RequestAtOnce, IInv, NoIdleSlot
<1>4. ASSUME NEW c \in Callers, RequestLater(c) PROVE IInv'
  <2>1. CASE Len(waiting) >= maxWaiting
    <3>1. Accounted(waiting, used, [request EXCEPT ![c] = "rejected"])
      BY <1>4, RejectKeepsAccounts DEF RequestLater
    <3>2. QED BY <1>1, <1>4, <2>1, <3>1 DEF RequestLater, IInv, NoIdleSlot
  <2>2. CASE Len(waiting) < maxWaiting
    <3>1. Accounted(Append(waiting, c), used, [request EXCEPT ![c] = "waiting"])
      BY <1>4, <2>2, EnqueueKeepsAccounts DEF RequestLater
    <3>2. used >= slots
      BY <1>1, <1>4 DEF RequestLater, NoIdleSlot
    <3>3. Len(waiting) \in Nat /\ maxWaiting \in Nat
      BY QueueAssumption DEF IInv, Accounted
    <3>4. /\ request' = [request EXCEPT ![c] = "waiting"]
          /\ waiting' = Append(waiting, c)
          /\ UNCHANGED <<slots, used>> /\ aborted' = aborted \ {c}
      BY <1>4, <2>2, <3>3 DEF RequestLater
    <3>5. QED BY <1>1, <3>1, <3>2, <3>4 DEF IInv, NoIdleSlot
  <2>3. Len(waiting) \in Nat /\ maxWaiting \in Nat
    BY QueueAssumption DEF IInv, Accounted
  <2>4. Len(waiting) >= maxWaiting \/ Len(waiting) < maxWaiting
    BY <2>3
  <2>5. QED BY <2>1, <2>2, <2>4
<1>5. ASSUME NEW c \in Callers, Abort(c) PROVE IInv'
  <2>1. CASE request[c] = "waiting"
    <3>1. PICK at \in 1..Len(waiting) :
            waiting[at] = c /\ waiting' = WithoutRequest(waiting, at)
      BY <1>5, <2>1 DEF Abort
    <3>2. Accounted(WithoutRequest(waiting, at), used, [request EXCEPT ![c] = "rejected"])
      BY <2>1, <3>1, SpliceKeepsAccounts
    <3>3. used >= slots
      BY <1>1, <3>1 DEF NoIdleSlot
    <3>4. QED BY <1>1, <1>5, <2>1, <3>1, <3>2, <3>3 DEF Abort, IInv, NoIdleSlot
  <2>2. CASE request[c] # "waiting"
    BY <1>1, <1>5, <2>2 DEF Abort, IInv, NoIdleSlot
  <2>3. QED BY <2>1, <2>2
<1>6. ASSUME NEW c \in Callers, Resume(c) PROVE IInv'
  <2>1. CASE c \in aborted
    <3>1. Accounted(waiting, used - 1, [request EXCEPT ![c] = "rejected"])
      BY <1>6, ReturnKeepsAccounts DEF Resume, Holding
    <3>2. QED BY <1>1, <1>6, <2>1, <3>1, DrainKeepsAccounts DEF Resume, IInv
  <2>2. CASE c \notin aborted
    <3>1. /\ request \in [Callers -> RequestStates] /\ request[c] = "granted"
          /\ request' = [request EXCEPT ![c] = "running"]
          /\ UNCHANGED <<slots, used, waiting, aborted>>
      BY <1>6, <2>2 DEF Resume, IInv, Accounted
    <3>2. HeldIn(request') = HeldIn(request) /\ request' \in [Callers -> RequestStates]
      BY <3>1 DEF HeldIn, Holding, RequestStates
    <3>3. \A d \in Callers : request'[d] = "waiting" <=> request[d] = "waiting"
      BY <3>1
    <3>4. Accounted(waiting, used, request')
      BY <3>2, <3>3 DEF IInv, Accounted
    <3>5. QED BY <1>1, <3>1, <3>4 DEF IInv, NoIdleSlot
  <2>3. QED BY <2>1, <2>2
<1>7. ASSUME NEW c \in Callers, Finish(c) PROVE IInv'
  <2>1. Accounted(waiting, used - 1, [request EXCEPT ![c] = "done"])
    BY <1>7, ReturnKeepsAccounts DEF Finish, Holding
  <2>2. QED BY <1>1, <1>7, <2>1, DrainKeepsAccounts DEF Finish, IInv
<1>8. ASSUME NEW l \in Limits, SetLimit(l) PROVE IInv'
  BY <1>1, <1>8, DrainKeepsAccounts DEF SetLimit, IInv
<1>9. CASE UNCHANGED queueVars
  BY <1>9 DEF queueVars, IInv, Accounted, NoIdleSlot
<1>10. QED
  BY <1>2, <1>3, <1>4, <1>5, <1>6, <1>7, <1>8, <1>9 DEF QueueNext

LEMMA AlwaysAccounted == QueueSpec => []IInv
BY InitAccounts, StepKeepsAccounts, PTL DEF QueueSpec

(* The variables keep their types; active in particular never goes below 0. *)
THEOREM TypeCorrect == QueueSpec => []QueueTypeOK
<1>1. IInv => QueueTypeOK
  BY HeldIsFinite DEF IInv, Accounted, QueueTypeOK
<1>2. QED BY <1>1, AlwaysAccounted, PTL

(* Slots are neither lost nor freed twice, for any number of callers and    *)
(* any changes of the limit.                                                *)
THEOREM SlotsNeverLost == QueueSpec => []RequestsAccounted
<1>1. IInv => RequestsAccounted
  BY DEF IInv, Accounted, RequestsAccounted, RequestHolders, HeldIn
<1>2. QED BY <1>1, AlwaysAccounted, PTL

(* The queue is exactly the calls that wait and never longer than allowed.  *)
THEOREM QueueNeverLost == QueueSpec => []WaitingAccounted
<1>1. IInv => WaitingAccounted
  <2> SUFFICES ASSUME IInv PROVE WaitingAccounted
    OBVIOUS
  <2>1. /\ waiting \in Seq(Callers) /\ Len(waiting) <= maxWaiting
        /\ \A i, j \in 1..Len(waiting) : waiting[i] = waiting[j] => i = j
        /\ \A c \in Callers : request[c] = "waiting" <=> \E i \in 1..Len(waiting) : waiting[i] = c
    BY DEF IInv, Accounted
  <2>2. {c \in Callers : request[c] = "waiting"} = {waiting[i] : i \in 1..Len(waiting)}
    BY <2>1
  <2>3. QED BY <2>1, <2>2 DEF WaitingAccounted
<1>2. QED BY <1>1, AlwaysAccounted, PTL

(* The three together, for any callers, length of the queue and limits.     *)
THEOREM AlwaysConsistent == QueueSpec => []QueueConsistent
<1>1. QueueTypeOK /\ RequestsAccounted /\ WaitingAccounted => QueueConsistent
  BY DEF QueueConsistent
<1>2. QED BY <1>1, TypeCorrect, SlotsNeverLost, QueueNeverLost, PTL

(* No change of the limit and no cancelled call leaves somebody waiting     *)
(* beside a free slot.                                                      *)
THEOREM NoWakeupLost == QueueSpec => []NoIdleSlot
<1>1. IInv => NoIdleSlot
  BY DEF IInv
<1>2. QED BY <1>1, AlwaysAccounted, PTL

-----------------------------------------------------------------------------
LEMMA DrainStaysBelow ==
  ASSUME NEW q \in Seq(Callers), NEW a \in Nat, NEW l \in Nat, NEW f,
         DrainQueue(q, a, l, f)
  PROVE  used' > a => used' <= slots'
<1> DEFINE n == QueueGrants(q, a, l)
<1>1. n \in 0..Len(q) /\ (n > 0 => a + n <= l)
  BY GrantsFit
<1>2. used' = a + n /\ slots' = l
  BY DEF DrainQueue
<1> HIDE DEF n
<1>3. QED BY <1>1, <1>2

(* No request is started over the limit in force at that moment.            *)
THEOREM NeverOverLimit == QueueSpec => NoGrantOverLimit
<1>1. IInv /\ [QueueNext]_queueVars => [used' > used => used' <= slots']_queueVars
  <2> SUFFICES ASSUME IInv, QueueNext PROVE used' > used => used' <= slots'
    BY DEF queueVars
  <2>1. /\ waiting \in Seq(Callers) /\ used \in Nat /\ slots \in Limits
        /\ Limits \subseteq Nat
    BY HeldIsFinite, QueueAssumption DEF IInv, Accounted
  <2>2. ASSUME NEW c \in Callers, RequestAtOnce(c) PROVE used' <= slots'
    BY <2>1, <2>2 DEF RequestAtOnce
  <2>3. ASSUME NEW c \in Callers, request[c] \in Holding, NEW f,
               DrainQueue(waiting, used - 1, slots, f)
        PROVE  used' > used => used' <= slots'
    <3>1. used - 1 \in Nat /\ slots \in Nat
      <4>1. c \in HeldIn(request)
        BY <2>3 DEF HeldIn
      <4>2. Cardinality(HeldIn(request)) # 0
        BY <4>1, HeldIsFinite, FS_EmptySet
      <4>3. QED BY <4>2, <2>1 DEF IInv, Accounted
    <3>2. used' > used - 1 => used' <= slots'
      BY <2>1, <2>3, <3>1, DrainStaysBelow
    <3>3. used' \in Nat
      <4>1. QueueGrants(waiting, used - 1, slots) \in 0..Len(waiting)
        BY <2>1, <3>1, GrantsFit
      <4>2. used' = (used - 1) + QueueGrants(waiting, used - 1, slots)
        BY <2>3 DEF DrainQueue
      <4>3. QED BY <2>1, <3>1, <4>1, <4>2
    <3>4. QED BY <2>1, <3>2, <3>3
  <2>4. ASSUME NEW l \in Limits, SetLimit(l)
        PROVE  used' > used => used' <= slots'
    BY <2>1, <2>4, DrainStaysBelow DEF SetLimit
  <2>5. UNCHANGED used => ~(used' > used)
    BY <2>1
  <2>6. ASSUME NEW c \in Callers, Resume(c)
        PROVE  used' > used => used' <= slots'
    BY <2>3, <2>5, <2>6 DEF Resume, Holding
  <2>7. ASSUME NEW c \in Callers, Finish(c)
        PROVE  used' > used => used' <= slots'
    BY <2>3, <2>7 DEF Finish, Holding
  <2>8. ASSUME NEW c \in Callers, RequestAborted(c) \/ RequestLater(c) \/ Abort(c)
        PROVE  used' > used => used' <= slots'
    BY <2>5, <2>8 DEF RequestAborted, RequestLater, Abort
  <2>9. QED BY <2>2, <2>4, <2>6, <2>7, <2>8 DEF QueueNext
<1>2. QED BY <1>1, AlwaysAccounted, PTL DEF QueueSpec, NoGrantOverLimit

-----------------------------------------------------------------------------
(* A drain of the whole queue serves its first calls and keeps the order of *)
(* the rest.                                                                *)
LEMMA DrainInOrder ==
  ASSUME IInv, NEW a \in Nat, NEW l \in Nat, NEW f \in [Callers -> RequestStates],
         \A c \in Callers : f[c] \in Holding => request[c] \in Holding,
         DrainQueue(waiting, a, l, f),
         NEW c \in Callers, NEW d \in Callers
  PROVE  ~PassesRequest(c, d)
<1> DEFINE n == QueueGrants(waiting, a, l)
           got == Served(waiting, n)
<1>1. /\ waiting \in Seq(Callers)
      /\ \A i, j \in 1..Len(waiting) : waiting[i] = waiting[j] => i = j
      /\ \A e \in Callers : request[e] = "waiting" <=> \E i \in 1..Len(waiting) : waiting[i] = e
  BY DEF IInv, Accounted
<1>2. n \in 0..Len(waiting)
  BY <1>1, GrantsFit
<1>3. /\ waiting' = SubSeq(waiting, n + 1, Len(waiting))
      /\ request' = [e \in Callers |-> IF e \in got THEN "granted" ELSE f[e]]
  BY DEF DrainQueue, Served
<1> HIDE DEF n
<1>4. /\ Len(waiting') = Len(waiting) - n
      /\ \A i \in 1..Len(waiting') : waiting'[i] = waiting[n + i]
  BY <1>1, <1>2, <1>3
<1>5. SUFFICES ASSUME PassesRequest(c, d) PROVE FALSE
  OBVIOUS
<1>6. ~WaitsBefore(waiting, c, d) /\ request[d] = "waiting" /\ request'[d] = "waiting"
  BY <1>5 DEF PassesRequest
<1>7. PICK k \in 1..Len(waiting) : waiting[k] = d
  BY <1>1, <1>6
<1>8. ~(k <= n)
  BY <1>2, <1>3, <1>6, <1>7 DEF Served
<1>9. CASE request[c] \notin Holding /\ request'[c] \in Holding
  <2>1. c \in got
    BY <1>3, <1>9
  <2>2. PICK i \in 1..n : waiting[i] = c
    BY <2>1 DEF Served
  <2>3. i \in 1..Len(waiting) /\ i < k
    BY <1>1, <1>2, <1>7, <1>8, <2>2
  <2>4. QED BY <1>6, <1>7, <2>2, <2>3 DEF WaitsBefore
<1>10. CASE WaitsBefore(waiting', c, d)
  <2>1. PICK i, j \in 1..Len(waiting') : i < j /\ waiting'[i] = c /\ waiting'[j] = d
    BY <1>10 DEF WaitsBefore
  <2>2. /\ n + i \in 1..Len(waiting) /\ n + j \in 1..Len(waiting) /\ n + i < n + j
        /\ waiting[n + i] = c /\ waiting[n + j] = d
    BY <1>1, <1>2, <1>4, <2>1
  <2>3. QED BY <1>6, <2>2 DEF WaitsBefore
<1>11. QED BY <1>5, <1>9, <1>10 DEF PassesRequest

(* First come, first served: no call gets a slot, or a place in the queue,  *)
(* before one that was waiting ahead of it.                                 *)
THEOREM FirstComeFirstServed == QueueSpec => NobodyIsPassed
<1>1. IInv /\ [QueueNext]_queueVars => [\A c, d \in Callers : ~PassesRequest(c, d)]_queueVars
  <2> SUFFICES ASSUME IInv, QueueNext, NEW c \in Callers, NEW d \in Callers, PassesRequest(c, d)
               PROVE  FALSE
    BY DEF queueVars
  <2>1. /\ waiting \in Seq(Callers) /\ used \in Nat /\ slots \in Nat
        /\ request \in [Callers -> RequestStates]
        /\ \A i, j \in 1..Len(waiting) : waiting[i] = waiting[j] => i = j
        /\ \A e \in Callers : request[e] = "waiting" <=> \E i \in 1..Len(waiting) : waiting[i] = e
    BY HeldIsFinite, QueueAssumption DEF IInv, Accounted
  <2>2. /\ ~WaitsBefore(waiting, c, d) /\ request[d] = "waiting" /\ request'[d] = "waiting"
        /\ \/ request[c] \notin Holding /\ request'[c] \in Holding
           \/ WaitsBefore(waiting', c, d)
    BY DEF PassesRequest
  <2>3. PICK k \in 1..Len(waiting) : waiting[k] = d
    BY <2>1, <2>2
  <2>4. ASSUME NEW e \in Callers, request[e] \in Holding, NEW to \in {"rejected", "done"},
               DrainQueue(waiting, used - 1, slots, [request EXCEPT ![e] = to])
        PROVE  FALSE
    <3> DEFINE f == [request EXCEPT ![e] = to]
    <3>1. used - 1 \in Nat
      <4>1. e \in HeldIn(request)
        BY <2>4 DEF HeldIn
      <4>2. Cardinality(HeldIn(request)) # 0
        BY <4>1, HeldIsFinite, FS_EmptySet
      <4>3. QED BY <4>2, <2>1 DEF IInv, Accounted
    <3>2. f \in [Callers -> RequestStates] /\ \A x \in Callers : f[x] \in Holding => request[x] \in Holding
      BY <2>1, <2>4 DEF RequestStates, Holding
    <3>3. DrainQueue(waiting, used - 1, slots, f)
      BY <2>4
    <3> HIDE DEF f
    <3>4. QED BY <2>1, <3>1, <3>2, <3>3, DrainInOrder
  <2>5. ASSUME NEW e \in Callers, RequestAtOnce(e) PROVE FALSE
    BY <2>1, <2>3, <2>5 DEF RequestAtOnce
  <2>6. ASSUME UNCHANGED waiting, \A x \in Callers : request'[x] \in Holding => request[x] \in Holding
        PROVE  FALSE
    BY <2>2, <2>6 DEF WaitsBefore
  <2>7. ASSUME NEW e \in Callers, RequestAborted(e) PROVE FALSE
    BY <2>1, <2>6, <2>7 DEF RequestAborted, Holding
  <2>8. ASSUME NEW e \in Callers, RequestLater(e) PROVE FALSE
    <3>1. \A x \in Callers : request'[x] \in Holding => request[x] \in Holding
      BY <2>1, <2>8 DEF RequestLater, Holding
    <3>2. CASE UNCHANGED waiting
      BY <2>6, <3>1, <3>2
    <3>3. CASE waiting' = Append(waiting, e)
      <4>1. request[e] # "waiting"
        BY <2>8 DEF RequestLater, NoRequest
      <4>2. PICK i, j \in 1..Len(waiting') : i < j /\ waiting'[i] = c /\ waiting'[j] = d
        BY <2>2, <3>1 DEF WaitsBefore
      <4>3. /\ Len(waiting') = Len(waiting) + 1
            /\ \A x \in 1..Len(waiting) : waiting'[x] = waiting[x]
            /\ waiting'[Len(waiting) + 1] = e
        BY <2>1, <3>3
      <4>4. j \in 1..Len(waiting) /\ i \in 1..Len(waiting)
        BY <2>1, <2>2, <4>1, <4>2, <4>3
      <4>5. QED BY <2>2, <4>2, <4>3, <4>4 DEF WaitsBefore
    <3>4. QED BY <2>8, <3>2, <3>3 DEF RequestLater
  <2>9. ASSUME NEW e \in Callers, Abort(e) PROVE FALSE
    <3>1. \A x \in Callers : request'[x] \in Holding => request[x] \in Holding
      BY <2>1, <2>9 DEF Abort, Holding
    <3>2. CASE UNCHANGED waiting
      BY <2>6, <3>1, <3>2
    <3>3. ASSUME NEW at \in 1..Len(waiting), waiting' = WithoutRequest(waiting, at)
          PROVE  FALSE
      <4>1. PICK i, j \in 1..Len(waiting') : i < j /\ waiting'[i] = c /\ waiting'[j] = d
        BY <2>2, <3>1 DEF WaitsBefore
      <4>2. /\ Len(waiting') = Len(waiting) - 1
            /\ \A x \in 1..Len(waiting)-1 :
                 waiting'[x] = IF x < at THEN waiting[x] ELSE waiting[x + 1]
        <5>1. /\ Len(WithoutRequest(waiting, at)) = Len(waiting) - 1
              /\ \A x \in 1..Len(waiting)-1 : WithoutRequest(waiting, at)[x] =
                   IF x < at THEN waiting[x] ELSE waiting[x + 1]
          BY <2>1, WithoutEntries
        <5>2. QED BY <5>1, <3>3
      <4>3. \E x, y \in 1..Len(waiting) : x < y /\ waiting[x] = c /\ waiting[y] = d
        <5> DEFINE x == IF i < at THEN i ELSE i + 1
                   y == IF j < at THEN j ELSE j + 1
        <5>1. x \in 1..Len(waiting) /\ y \in 1..Len(waiting) /\ x < y
          BY <2>1, <4>1, <4>2
        <5>2. waiting[x] = c /\ waiting[y] = d
          BY <2>1, <4>1, <4>2
        <5> HIDE DEF x, y
        <5>3. QED BY <5>1, <5>2
      <4>4. QED BY <2>2, <4>3 DEF WaitsBefore
    <3>4. QED BY <2>9, <3>2, <3>3 DEF Abort
  <2>10. ASSUME NEW e \in Callers, Resume(e) PROVE FALSE
    <3>1. CASE e \in aborted
      BY <2>4, <2>10, <3>1 DEF Resume, Holding
    <3>2. CASE e \notin aborted
      BY <2>1, <2>6, <2>10, <3>2 DEF Resume, Holding
    <3>3. QED BY <3>1, <3>2
  <2>11. ASSUME NEW e \in Callers, Finish(e) PROVE FALSE
    BY <2>4, <2>11 DEF Finish, Holding
  <2>12. ASSUME NEW l \in Limits, SetLimit(l) PROVE FALSE
    <3>1. l \in Nat
      BY QueueAssumption
    <3>2. QED BY <2>1, <2>12, <3>1, DrainInOrder DEF SetLimit
  <2>13. QED
    BY <2>5, <2>7, <2>8, <2>9, <2>10, <2>11, <2>12 DEF QueueNext
<1>2. QED BY <1>1, AlwaysAccounted, PTL DEF QueueSpec, NobodyIsPassed
=============================================================================
