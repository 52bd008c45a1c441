----------------------- MODULE SubagentSchedulerProofs -----------------------
(***************************************************************************)
(* The safety invariants of SubagentScheduler for any number of tasks,     *)
(* writers and slots.                                                       *)
(*                                                                         *)
(* Every action ends in drain(), so the proof has one hard lemma: drain    *)
(* turns any accounted scheduler state, between the action's own change and *)
(* the drain, into an accounted state again.  The actions then only have to *)
(* show that their own change keeps the accounts.                           *)
(***************************************************************************)
EXTENDS SubagentScheduler, WellFoundedInduction, FiniteSetTheorems, SequenceTheorems, TLAPS

(* The inductive invariant, as a predicate of the state a drain starts from.*)
HeldIn(c) == {t \in Tasks : c[t] = "granted"}

Accounted(q, a, w, c) ==
  /\ q \in Seq(Tasks)
  /\ w \in BOOLEAN
  /\ c \in [Tasks -> Calls]
  /\ a = Cardinality(HeldIn(c))
  /\ a <= limit
  /\ w <=> HeldIn(c) \cap Writers # {}
  /\ \A x \in HeldIn(c) \cap Writers : HeldIn(c) = {x}
  /\ \A i, j \in 1..Len(q) : q[i] = q[j] => i = j
  /\ \A t \in Tasks : c[t] = "waiting" <=> \E i \in 1..Len(q) : q[i] = t
  /\ \A i \in 1..Len(q) : q[i] \in Tasks

IInv == Accounted(queue, active, writer, call)

-----------------------------------------------------------------------------
(* A non-empty set of naturals has a least element.                         *)
LEMMA LeastNat ==
  ASSUME NEW S \in SUBSET Nat, S # {}
  PROVE  \E x \in S : \A y \in S : x <= y
<1>1. PICK x \in S : \A y \in S : ~(<<y, x>> \in OpToRel(<, Nat))
  BY NatLessThanWellFounded, WFMin, Zenon
<1>2. \A y \in S : ~(y < x)
  BY <1>1 DEF OpToRel
<1>3. QED BY <1>2

(* The drain loop terminates: Grants names the first position where it      *)
(* stops.                                                                   *)
LEMMA GrantsStops ==
  ASSUME NEW q \in Seq(Tasks), NEW a \in Nat
  PROVE  /\ Grants(q, a, FALSE) \in 0..Len(q)
         /\ Stops(q, Grants(q, a, FALSE), a)
         /\ \A m \in 0..Grants(q, a, FALSE)-1 : ~Stops(q, m, a)
<1> DEFINE S == {n \in 0..Len(q) : Stops(q, n, a)}
<1>1. Len(q) \in S
  BY DEF Stops
<1>2. PICK n \in S : \A y \in S : n <= y
  <2>1. S \in SUBSET Nat
    OBVIOUS
  <2> HIDE DEF S
  <2>2. QED BY <1>1, <2>1, LeastNat
<1>3. \A m \in 0..n-1 : ~Stops(q, m, a)
  <2> SUFFICES ASSUME NEW m \in 0..n-1, Stops(q, m, a) PROVE FALSE
    OBVIOUS
  <2>1. m \in S
    BY <1>2
  <2>2. QED BY <2>1, <1>2
<1>4. QED
  <2>1. \E k \in 0..Len(q) : Stops(q, k, a) /\ \A m \in 0..k-1 : ~Stops(q, m, a)
    BY <1>2, <1>3
  <2> HIDE DEF S
  <2>2. QED BY <2>1 DEF Grants

(* What drain() may hand out: nothing beside a writer, never more than the  *)
(* free slots, and a writer only alone and only on an idle scheduler.       *)
LEMMA GrantsFit ==
  ASSUME NEW q \in Seq(Tasks), NEW a \in Nat, NEW w \in BOOLEAN, a <= limit
  PROVE  LET n == Grants(q, a, w) IN
           /\ n \in 0..Len(q)
           /\ w => n = 0
           /\ a + n <= limit
           /\ \A i \in 1..n : q[i] \in Writers => n = 1 /\ a = 0
<1>1. CASE w
  BY <1>1, SchedulerAssumption DEF Grants
<1>2. CASE ~w
  <2> DEFINE n == Grants(q, a, FALSE)
  <2>1. n \in 0..Len(q) /\ \A m \in 0..n-1 : ~Stops(q, m, a)
    BY GrantsStops
  <2>2. w = FALSE
    BY <1>2
  <2> HIDE DEF n
  <2>3. a + n <= limit
    <3>1. CASE n = 0
      BY <3>1
    <3>2. CASE n > 0
      <4>1. n - 1 \in 0..n-1
        BY <2>1, <3>2
      <4>2. ~Stops(q, n - 1, a)
        BY <4>1, <2>1
      <4>3. QED BY <4>2, <2>1, <3>2, SchedulerAssumption DEF Stops
    <3>3. QED BY <2>1, <3>1, <3>2
  <2>4. ASSUME NEW i \in 1..n, q[i] \in Writers
        PROVE  n = 1 /\ a = 0
    <3>1. i - 1 \in 0..n-1 /\ (i - 1) + 1 = i
      BY <2>1
    <3>2. ~Stops(q, i - 1, a)
      BY <3>1, <2>1
    <3>3. a + (i - 1) = 0
      BY <3>1, <3>2, <2>4, <2>1 DEF Stops
    <3>4. i = 1 /\ a = 0
      BY <3>3, <2>1
    <3>5. ~(n > 1)
      <4> SUFFICES ASSUME n > 1 PROVE FALSE
        OBVIOUS
      <4>1. 1 \in 0..n-1
        BY <2>1
      <4>2. ~Stops(q, 1, a)
        BY <4>1, <2>1
      <4>3. QED BY <4>2, <3>4, <2>4 DEF Stops
    <3>6. QED BY <3>4, <3>5, <2>1
  <2>5. QED BY <2>1, <2>2, <2>3, <2>4 DEF n
<1>3. QED BY <1>1, <1>2

(* A prefix of a queue without duplicates has as many entries as its length.*)
LEMMA ServedCount ==
  ASSUME NEW q \in Seq(Tasks), NEW n \in 0..Len(q),
         \A i, j \in 1..Len(q) : q[i] = q[j] => i = j
  PROVE  /\ IsFiniteSet(Served(q, n))
         /\ Cardinality(Served(q, n)) = n
<1> DEFINE f == [i \in 1..n |-> q[i]]
<1>1. f \in Bijection(1..n, Served(q, n))
  <2>1. f \in [1..n -> Served(q, n)]
    BY DEF Served
  <2>2. IsInjective(f)
    BY DEF IsInjective
  <2>3. \A t \in Served(q, n) : \E i \in 1..n : f[i] = t
    BY DEF Served
  <2>4. QED BY <2>1, <2>2, <2>3 DEF Bijection, Injection, Surjection
<1>2. IsFiniteSet(1..n) /\ Cardinality(1..n) = n
  BY FS_Interval
<1>3. ExistsBijection(1..n, Served(q, n))
  BY <1>1 DEF ExistsBijection
<1>4. QED BY <1>2, <1>3, FS_Bijection

(* drain() keeps the accounts.                                              *)
LEMMA DrainKeepsAccounts ==
  ASSUME NEW q, NEW a, NEW w, NEW c, Accounted(q, a, w, c), Drain(q, a, w, c)
  PROVE  IInv'
<1> DEFINE n == Grants(q, a, w)
           got == Served(q, n)
<1>1. /\ IsFiniteSet(HeldIn(c)) /\ a \in Nat /\ a <= limit
      /\ q \in Seq(Tasks) /\ w \in BOOLEAN
  <2>1. HeldIn(c) \in SUBSET Tasks
    BY DEF HeldIn
  <2>2. QED BY <2>1, FS_Subset, FS_CardinalityType, SchedulerAssumption DEF Accounted
<1>2. /\ n \in 0..Len(q)
      /\ w => n = 0
      /\ a + n <= limit
      /\ \A i \in 1..n : q[i] \in Writers => n = 1 /\ a = 0
  BY <1>1, GrantsFit
<1>3. IsFiniteSet(got) /\ Cardinality(got) = n
  <2> HIDE DEF n
  <2>1. \A i, j \in 1..Len(q) : q[i] = q[j] => i = j
    BY DEF Accounted
  <2>2. QED BY <1>1, <1>2, <2>1, ServedCount
<1> HIDE DEF n
<1>4. /\ queue' = SubSeq(q, n + 1, Len(q))
      /\ active' = a + n
      /\ writer' = (w \/ \E t \in got : t \in Writers)
      /\ call' = [t \in Tasks |-> IF t \in got THEN "granted" ELSE c[t]]
  BY DEF Drain, n
<1>5. got \subseteq {t \in Tasks : c[t] = "waiting"}
  BY <1>1, <1>2 DEF Served, Accounted
<1>6. HeldIn(call') = HeldIn(c) \cup got
  BY <1>4, <1>5 DEF HeldIn
<1>7. active' = Cardinality(HeldIn(call'))
  <2>1. HeldIn(c) \cap got = {}
    BY <1>5 DEF HeldIn
  <2>2. Cardinality(HeldIn(c) \cup got) = Cardinality(HeldIn(c)) + Cardinality(got) - 0
    BY <1>1, <1>3, <2>1, FS_Union, FS_EmptySet
  <2>3. Cardinality(HeldIn(c)) = a
    BY DEF Accounted
  <2>4. Cardinality(HeldIn(call')) = a + n - 0
    BY <2>2, <2>3, <1>3, <1>6
  <2>5. QED BY <2>4, <1>1, <1>2, <1>4
<1>8. /\ queue' \in Seq(Tasks)
      /\ Len(queue') = Len(q) - n
      /\ \A i \in 1..Len(queue') : queue'[i] = q[n + i]
  BY <1>1, <1>2, <1>4
<1>9. writer' \in BOOLEAN /\ call' \in [Tasks -> Calls]
  BY <1>1, <1>4 DEF Accounted, Calls
<1>10. /\ writer' <=> HeldIn(call') \cap Writers # {}
       /\ \A x \in HeldIn(call') \cap Writers : HeldIn(call') = {x}
  <2>1. CASE got \cap Writers = {}
    <3>1. HeldIn(call') \cap Writers = HeldIn(c) \cap Writers /\ writer' = w
      BY <2>1, <1>1, <1>4, <1>6
    <3>2. CASE w
      <4>1. got = {}
        BY <3>2, <1>2 DEF Served
      <4>2. QED BY <4>1, <3>1, <1>6 DEF Accounted
    <3>3. CASE ~w
      BY <3>1, <3>3, <1>1 DEF Accounted
    <3>4. QED BY <3>2, <3>3
  <2>2. CASE got \cap Writers # {}
    <3>1. PICK i \in 1..n : q[i] \in Writers
      BY <2>2 DEF Served
    <3>2. n = 1 /\ a = 0 /\ i = 1
      BY <3>1, <1>2
    <3>3. HeldIn(c) = {}
      BY <3>2, <1>1, FS_EmptySet DEF Accounted
    <3>4. got = {q[1]}
      BY <3>2 DEF Served
    <3>5. QED BY <3>1, <3>2, <3>3, <3>4, <1>4, <1>6
  <2>3. QED BY <2>1, <2>2
<1>11. \A i, j \in 1..Len(queue') : queue'[i] = queue'[j] => i = j
  BY <1>1, <1>2, <1>8 DEF Accounted
<1>12. \A t \in Tasks : call'[t] = "waiting" <=> \E i \in 1..Len(queue') : queue'[i] = t
  <2> SUFFICES ASSUME NEW t \in Tasks
               PROVE  call'[t] = "waiting" <=> \E i \in 1..Len(queue') : queue'[i] = t
    OBVIOUS
  <2>1. c[t] = "waiting" <=> \E i \in 1..Len(q) : q[i] = t
    BY DEF Accounted
  <2>2. t \in got <=> \E i \in 1..n : q[i] = t
    BY DEF Served
  <2>3. \A i, j \in 1..Len(q) : q[i] = q[j] => i = j
    BY DEF Accounted
  <2>4. call'[t] = "waiting" => \E i \in 1..Len(queue') : queue'[i] = t
    <3> SUFFICES ASSUME call'[t] = "waiting"
                 PROVE  \E i \in 1..Len(queue') : queue'[i] = t
      OBVIOUS
    <3>1. t \notin got /\ c[t] = "waiting"
      BY <1>4
    <3>2. PICK k \in 1..Len(q) : q[k] = t
      BY <3>1, <2>1
    <3>3. k \notin 1..n
      BY <3>1, <3>2, <2>2
    <3>4. k - n \in 1..Len(queue') /\ queue'[k - n] = q[n + (k - n)]
      BY <3>2, <3>3, <1>1, <1>2, <1>8
    <3>5. QED BY <3>2, <3>4, <1>2
  <2>5. ASSUME NEW i \in 1..Len(queue'), queue'[i] = t
        PROVE  call'[t] = "waiting"
    <3>1. n + i \in 1..Len(q) /\ q[n + i] = t /\ n + i \notin 1..n
      BY <2>5, <1>1, <1>2, <1>8
    <3>2. t \notin got
      BY <3>1, <2>2, <2>3, <1>2
    <3>3. c[t] = "waiting"
      BY <3>1, <2>1
    <3>4. QED BY <3>2, <3>3, <1>4
  <2>6. QED BY <2>4, <2>5
<1>13. \A i \in 1..Len(queue') : queue'[i] \in Tasks
  BY <1>8
<1>14. active' <= limit
  BY <1>2, <1>4
<1>15. QED
  BY <1>7, <1>8, <1>9, <1>10, <1>11, <1>12, <1>13, <1>14 DEF IInv, Accounted, HeldIn

-----------------------------------------------------------------------------
(* The changes the actions make before they drain.                          *)

LEMMA EnqueueKeepsAccounts ==
  ASSUME NEW t \in Tasks, IInv, Idle(t)
  PROVE  Accounted(Append(queue, t), active, writer, [call EXCEPT ![t] = "waiting"])
<1> DEFINE q == Append(queue, t)
           c == [call EXCEPT ![t] = "waiting"]
<1>1. call \in [Tasks -> Calls] /\ queue \in Seq(Tasks)
  BY DEF IInv, Accounted
<1>2. call[t] # "waiting" /\ call[t] # "granted"
  BY DEF Idle
<1>3. /\ q \in Seq(Tasks)
      /\ Len(q) = Len(queue) + 1
      /\ \A i \in 1..Len(queue) : q[i] = queue[i]
      /\ q[Len(queue) + 1] = t
  BY <1>1
<1>4. HeldIn(c) = HeldIn(call)
  BY <1>1, <1>2 DEF HeldIn
<1>5. c \in [Tasks -> Calls]
  BY <1>1 DEF Calls
<1>6. \A i \in 1..Len(queue) : queue[i] # t
  BY <1>2 DEF IInv, Accounted
<1>7. \A i, j \in 1..Len(q) : q[i] = q[j] => i = j
  BY <1>1, <1>3, <1>6 DEF IInv, Accounted
<1>8. \A u \in Tasks : c[u] = "waiting" <=> \E i \in 1..Len(q) : q[i] = u
  BY <1>1, <1>3 DEF IInv, Accounted
<1>9. \A i \in 1..Len(q) : q[i] \in Tasks
  BY <1>3
<1> HIDE DEF q, c
<1>10. Accounted(q, active, writer, c)
  BY <1>3, <1>4, <1>5, <1>7, <1>8, <1>9 DEF IInv, Accounted
<1>11. QED BY <1>10 DEF q, c

(* Taking out one entry moves those behind it one place up.                 *)
LEMMA WithoutEntries ==
  ASSUME NEW q \in Seq(Tasks), NEW at \in 1..Len(q)
  PROVE  /\ Without(q, at) \in Seq(Tasks)
         /\ Len(Without(q, at)) = Len(q) - 1
         /\ \A i \in 1..Len(Without(q, at)) :
              Without(q, at)[i] = IF i < at THEN q[i] ELSE q[i + 1]
<1> DEFINE rest == Without(q, at)
           front == SubSeq(q, 1, at - 1)
           back == SubSeq(q, at + 1, Len(q))
<1>1. /\ front \in Seq(Tasks) /\ Len(front) = at - 1
      /\ \A i \in 1..at-1 : front[i] = q[i]
  OBVIOUS
<1>2. /\ back \in Seq(Tasks) /\ Len(back) = Len(q) - at
      /\ \A i \in 1..Len(q)-at : back[i] = q[at + i]
  OBVIOUS
<1> HIDE DEF front, back
<1>3. /\ front \o back \in Seq(Tasks)
      /\ Len(front \o back) = Len(front) + Len(back)
      /\ \A i \in 1..Len(front)+Len(back) :
           (front \o back)[i] = IF i <= Len(front) THEN front[i] ELSE back[i - Len(front)]
  BY <1>1, <1>2, ConcatProperties
<1>4. rest = front \o back
  BY DEF Without, front, back
<1> HIDE DEF rest
<1>5. Len(rest) = Len(q) - 1 /\ Len(q) \in Nat
  BY <1>1, <1>2, <1>3, <1>4
<1>6. ASSUME NEW i \in 1..Len(rest)
      PROVE  rest[i] = IF i < at THEN q[i] ELSE q[i + 1]
  <2>1. CASE i < at
    BY <2>1, <1>1, <1>2, <1>3, <1>4, <1>5
  <2>2. CASE ~(i < at)
    <3>1. i - (at - 1) \in 1..Len(q)-at /\ at + (i - (at - 1)) = i + 1
      BY <2>2, <1>5
    <3>2. back[i - (at - 1)] = q[at + (i - (at - 1))]
      BY <3>1, <1>2
    <3>3. rest[i] = back[i - (at - 1)]
      BY <2>2, <1>1, <1>2, <1>3, <1>4, <1>5
    <3>4. QED BY <2>2, <3>1, <3>2, <3>3
  <2>3. QED BY <2>1, <2>2
<1>7. QED BY <1>3, <1>4, <1>5, <1>6 DEF rest

LEMMA SpliceKeepsAccounts ==
  ASSUME NEW t \in Tasks, IInv, call[t] = "waiting",
         NEW at \in 1..Len(queue), queue[at] = t
  PROVE  Accounted(Without(queue, at), active, writer, [call EXCEPT ![t] = "rejected"])
<1> DEFINE q == Without(queue, at)
           c == [call EXCEPT ![t] = "rejected"]
<1>1. call \in [Tasks -> Calls] /\ queue \in Seq(Tasks)
  BY DEF IInv, Accounted
<1>2. /\ q \in Seq(Tasks)
      /\ Len(q) = Len(queue) - 1
      /\ \A i \in 1..Len(q) : q[i] = IF i < at THEN queue[i] ELSE queue[i + 1]
  BY <1>1, WithoutEntries
<1>3. HeldIn(c) = HeldIn(call)
  BY <1>1 DEF HeldIn
<1>4. c \in [Tasks -> Calls]
  BY <1>1 DEF Calls
<1>5. \A i, j \in 1..Len(queue) : queue[i] = queue[j] => i = j
  BY DEF IInv, Accounted
<1>6. \A i, j \in 1..Len(q) : q[i] = q[j] => i = j
  BY <1>1, <1>2, <1>5
<1>7. \A u \in Tasks : c[u] = "waiting" <=> \E i \in 1..Len(q) : q[i] = u
  <2> SUFFICES ASSUME NEW u \in Tasks
               PROVE  c[u] = "waiting" <=> \E i \in 1..Len(q) : q[i] = u
    OBVIOUS
  <2>1. call[u] = "waiting" <=> \E i \in 1..Len(queue) : queue[i] = u
    BY DEF IInv, Accounted
  <2>2. CASE u = t
    BY <2>2, <1>1, <1>2, <1>5
  <2>3. CASE u # t
    <3>1. c[u] = call[u]
      BY <2>3, <1>1
    <3>2. ASSUME NEW k \in 1..Len(queue), queue[k] = u
          PROVE  \E i \in 1..Len(q) : q[i] = u
      <4>1. k # at
        BY <3>2, <2>3
      <4>2. CASE k < at
        BY <4>2, <3>2, <1>1, <1>2
      <4>3. CASE k > at
        <5>1. k - 1 \in 1..Len(q) /\ ~(k - 1 < at) /\ (k - 1) + 1 = k
          BY <4>3, <1>1, <1>2
        <5>2. q[k - 1] = queue[(k - 1) + 1]
          BY <5>1, <1>2
        <5>3. q[k - 1] = u
          BY <5>1, <5>2, <3>2
        <5>4. QED BY <5>1, <5>3
      <4>4. QED BY <4>1, <4>2, <4>3, <1>1
    <3>3. ASSUME NEW i \in 1..Len(q), q[i] = u
          PROVE  \E k \in 1..Len(queue) : queue[k] = u
      BY <3>3, <1>1, <1>2
    <3>4. QED BY <2>1, <3>1, <3>2, <3>3
  <2>4. QED BY <2>2, <2>3
<1>8. \A i \in 1..Len(q) : q[i] \in Tasks
  BY <1>2
<1> HIDE DEF q, c
<1>9. Accounted(q, active, writer, c)
  BY <1>2, <1>3, <1>4, <1>6, <1>7, <1>8 DEF IInv, Accounted
<1>10. QED BY <1>9 DEF q, c

LEMMA ReturnKeepsAccounts ==
  ASSUME NEW t \in Tasks, IInv, call[t] = "granted"
  PROVE  Accounted(queue, active - 1, writer /\ t \notin Writers,
                   [call EXCEPT ![t] = "released"])
<1> DEFINE c == [call EXCEPT ![t] = "released"]
           w == writer /\ t \notin Writers
<1>1. call \in [Tasks -> Calls] /\ queue \in Seq(Tasks)
  BY DEF IInv, Accounted
<1>2. t \in HeldIn(call) /\ HeldIn(c) = HeldIn(call) \ {t}
  BY <1>1 DEF HeldIn
<1>3. IsFiniteSet(HeldIn(call))
  <2>1. HeldIn(call) \in SUBSET Tasks
    BY DEF HeldIn
  <2>2. QED BY <2>1, FS_Subset, SchedulerAssumption
<1>4. Cardinality(HeldIn(c)) = active - 1 /\ active - 1 <= limit
  <2>1. Cardinality(HeldIn(call)) = active /\ active <= limit
    BY DEF IInv, Accounted
  <2>2. Cardinality(HeldIn(call)) \in Nat
    BY <1>3, FS_CardinalityType
  <2>3. Cardinality(HeldIn(c)) = Cardinality(HeldIn(call)) - 1
    BY <1>2, <1>3, FS_RemoveElement
  <2>4. QED BY <2>1, <2>2, <2>3, SchedulerAssumption
<1>5. c \in [Tasks -> Calls] /\ w \in BOOLEAN
  BY <1>1 DEF Calls, IInv, Accounted
<1>6. /\ w <=> HeldIn(c) \cap Writers # {}
      /\ \A x \in HeldIn(c) \cap Writers : HeldIn(c) = {x}
  <2>1. CASE t \in Writers
    <3>1. HeldIn(call) = {t}
      BY <2>1, <1>2 DEF IInv, Accounted
    <3>2. HeldIn(c) = {}
      BY <3>1, <1>2
    <3>3. QED BY <3>2, <2>1
  <2>2. CASE t \notin Writers
    <3>1. HeldIn(call) \cap Writers = {}
      BY <2>2, <1>2 DEF IInv, Accounted
    <3>2. HeldIn(c) \cap Writers = {} /\ ~writer
      BY <3>1, <1>2 DEF IInv, Accounted
    <3>3. QED BY <3>2
  <2>3. QED BY <2>1, <2>2
<1>7. \A u \in Tasks : c[u] = "waiting" <=> \E i \in 1..Len(queue) : queue[i] = u
  BY <1>1 DEF IInv, Accounted
<1> HIDE DEF c, w
<1>8. Accounted(queue, active - 1, w, c)
  BY <1>4, <1>5, <1>6, <1>7 DEF IInv, Accounted
<1>9. QED BY <1>8 DEF c, w

-----------------------------------------------------------------------------
(* Inductive step, one case per method of the scheduler.                    *)
LEMMA StepKeepsAccounts == IInv /\ [Next]_vars => IInv'
<1> SUFFICES ASSUME IInv, [Next]_vars PROVE IInv'
  OBVIOUS
<1>1. ASSUME NEW t \in Tasks, Acquire(t) PROVE IInv'
  <2>1. Accounted(Append(queue, t), active, writer, [call EXCEPT ![t] = "waiting"])
    BY <1>1, EnqueueKeepsAccounts DEF Acquire
  <2>2. QED BY <1>1, <2>1, DrainKeepsAccounts DEF Acquire
<1>2. ASSUME NEW t \in Tasks, AcquireAborted(t) PROVE IInv'
  <2>1. /\ call \in [Tasks -> Calls]
        /\ call[t] # "waiting" /\ call[t] # "granted"
        /\ call' = [call EXCEPT ![t] = "rejected"]
        /\ UNCHANGED <<queue, active, writer>>
    BY <1>2 DEF AcquireAborted, Idle, IInv, Accounted
  <2>2. HeldIn(call') = HeldIn(call) /\ call' \in [Tasks -> Calls]
    BY <2>1 DEF HeldIn, Calls
  <2>3. \A u \in Tasks : call'[u] = "waiting" <=> call[u] = "waiting"
    BY <2>1
  <2>4. Accounted(queue, active, writer, call')
    BY <2>1, <2>2, <2>3 DEF IInv, Accounted
  <2>5. QED BY <2>1, <2>4 DEF IInv
<1>3. ASSUME NEW t \in Tasks, OnAbort(t) PROVE IInv'
  <2>1. PICK at \in 1..Len(queue) :
          /\ queue[at] = t
          /\ Drain(Without(queue, at), active, writer, [call EXCEPT ![t] = "rejected"])
    BY <1>3 DEF OnAbort
  <2>2. Accounted(Without(queue, at), active, writer, [call EXCEPT ![t] = "rejected"])
    BY <1>3, <2>1, SpliceKeepsAccounts DEF OnAbort
  <2>3. QED BY <2>1, <2>2, DrainKeepsAccounts
<1>4. ASSUME NEW t \in Tasks, Release(t) PROVE IInv'
  <2>1. Accounted(queue, active - 1, writer /\ t \notin Writers,
                  [call EXCEPT ![t] = "released"])
    BY <1>4, ReturnKeepsAccounts DEF Release
  <2>2. QED BY <1>4, <2>1, DrainKeepsAccounts DEF Release
<1>5. CASE UNCHANGED vars
  BY <1>5 DEF vars, IInv, Accounted, HeldIn
<1>6. ASSUME NEW t \in Tasks, ReleaseAgain(t) PROVE IInv'
  BY <1>6, <1>5 DEF ReleaseAgain
<1>7. QED BY <1>1, <1>2, <1>3, <1>4, <1>5, <1>6 DEF Next

LEMMA InitAccounts == Init => IInv
<1> SUFFICES ASSUME Init PROVE IInv
  OBVIOUS
<1>1. HeldIn(call) = {}
  BY DEF Init, HeldIn
<1>2. call \in [Tasks -> Calls]
  BY DEF Init, Calls
<1>3. Cardinality(HeldIn(call)) = 0 /\ 0 <= limit
  BY <1>1, FS_EmptySet, SchedulerAssumption
<1>4. queue \in Seq(Tasks) /\ Len(queue) = 0
  BY DEF Init
<1>5. /\ writer \in BOOLEAN
      /\ writer <=> HeldIn(call) \cap Writers # {}
      /\ active = 0
  BY <1>1 DEF Init
<1>6. \A t \in Tasks : call[t] # "waiting"
  BY DEF Init
<1>7. QED
  BY <1>1, <1>2, <1>3, <1>4, <1>5, <1>6 DEF IInv, Accounted

LEMMA AlwaysAccounted == Spec => []IInv
BY InitAccounts, StepKeepsAccounts, PTL DEF Spec

(* The variables keep their types, active its range among them, for every   *)
(* set of tasks and every number of slots.                                  *)
THEOREM TypeCorrect == Spec => []TypeOK
<1>1. IInv => TypeOK
  <2> SUFFICES ASSUME IInv PROVE TypeOK
    OBVIOUS
  <2>1. HeldIn(call) \in SUBSET Tasks
    BY DEF HeldIn
  <2>2. active \in Nat
    BY <2>1, FS_Subset, FS_CardinalityType, SchedulerAssumption DEF IInv, Accounted
  <2>3. QED BY <2>2, SchedulerAssumption DEF IInv, Accounted, TypeOK
<1>2. QED BY <1>1, AlwaysAccounted, PTL

(* A writing sub-agent is alone: the mutual exclusion of                    *)
(* subagentScheduler.cjs:43-60 for any mix of callers, aborts and releases. *)
THEOREM WritersAlone == Spec => []WriterExclusive
<1>1. IInv => WriterExclusive
  BY DEF IInv, Accounted, WriterExclusive, Holders, HeldIn
<1>2. QED BY <1>1, AlwaysAccounted, PTL

(* No slot is ever lost or handed out twice: active counts the unreleased   *)
(* handles and never exceeds limit.                                         *)
THEOREM SlotsNeverLost == Spec => []SlotsAccounted
<1>1. IInv => SlotsAccounted
  BY DEF IInv, Accounted, SlotsAccounted, Holders, HeldIn
<1>2. QED BY <1>1, AlwaysAccounted, PTL

(* The queue is the waiting calls, each once: onAbort takes out the entry   *)
(* of its own call and a grant takes out the head.                          *)
THEOREM QueueNeverLost == Spec => []QueueAccounted
<1>1. IInv => QueueAccounted
  <2> SUFFICES ASSUME IInv PROVE QueueAccounted
    OBVIOUS
  <2>1. /\ \A i, j \in 1..Len(queue) : queue[i] = queue[j] => i = j
        /\ \A t \in Tasks : call[t] = "waiting" <=> \E i \in 1..Len(queue) : queue[i] = t
        /\ \A i \in 1..Len(queue) : queue[i] \in Tasks
    BY DEF IInv, Accounted
  <2>2. {t \in Tasks : call[t] = "waiting"} = {queue[i] : i \in 1..Len(queue)}
    BY <2>1
  <2>3. QED BY <2>1, <2>2 DEF QueueAccounted
<1>2. QED BY <1>1, AlwaysAccounted, PTL

(* The four together: writers are alone and the books are true, for any     *)
(* tasks, writers and slots.                                                *)
THEOREM AlwaysConsistent == Spec => []Consistent
<1>1. TypeOK /\ WriterExclusive /\ SlotsAccounted /\ QueueAccounted => Consistent
  BY DEF Consistent
<1>2. QED BY <1>1, TypeCorrect, WritersAlone, SlotsNeverLost, QueueNeverLost, PTL

-----------------------------------------------------------------------------
(* drain() leaves no servable entry at the head of the queue.               *)
LEMMA DrainLeavesNobodyReady ==
  ASSUME NEW q, NEW a, NEW w, NEW c, Accounted(q, a, w, c), Drain(q, a, w, c)
  PROVE  NoLostWakeup'
<1> DEFINE n == Grants(q, a, w)
<1>1. /\ q \in Seq(Tasks) /\ w \in BOOLEAN /\ a \in Nat /\ a <= limit
      /\ w => a > 0
  <2>1. HeldIn(c) \in SUBSET Tasks
    BY DEF HeldIn
  <2>2. IsFiniteSet(HeldIn(c)) /\ a = Cardinality(HeldIn(c)) /\ a \in Nat
    BY <2>1, FS_Subset, FS_CardinalityType, SchedulerAssumption DEF Accounted
  <2>3. w => HeldIn(c) # {}
    BY DEF Accounted
  <2>4. QED BY <2>2, <2>3, FS_EmptySet DEF Accounted
<1>2. n \in 0..Len(q) /\ a + n <= limit /\ (w => n = 0)
  BY <1>1, GrantsFit
<1>3. w = FALSE => Stops(q, n, a)
  BY <1>1, GrantsStops
<1> HIDE DEF n
<1>4. /\ queue' = SubSeq(q, n + 1, Len(q))
      /\ active' = a + n
      /\ writer' = (w \/ \E t \in Served(q, n) : t \in Writers)
  BY DEF Drain, n
<1>5. queue' # <<>> => n < Len(q) /\ Head(queue') = q[n + 1]
  BY <1>1, <1>2, <1>4
<1>6. SUFFICES ASSUME queue' # <<>>
               PROVE  IF Head(queue') \in Writers THEN active' > 0
                      ELSE writer' \/ active' = limit
  BY DEF NoLostWakeup
<1>7. CASE w
  <2>1. active' > 0
    BY <1>7, <1>1, <1>2, <1>4
  <2>2. writer'
    BY <1>7, <1>4, Zenon
  <2>3. QED BY <2>1, <2>2
<1>8. CASE ~w
  <2>1. Stops(q, n, a) /\ n # Len(q)
    BY <1>8, <1>1, <1>3, <1>5, <1>6
  <2>2. CASE n > 0 /\ q[n] \in Writers
    <3>1. q[n] \in Served(q, n)
      BY <2>2, <1>2 DEF Served
    <3>2. active' > 0
      BY <2>2, <1>1, <1>2, <1>4
    <3>3. writer'
      BY <3>1, <2>2, <1>4, Zenon
    <3>4. QED BY <3>2, <3>3
  <2>3. CASE a + n >= limit
    BY <2>3, <1>1, <1>2, <1>4, SchedulerAssumption
  <2>4. CASE q[n + 1] \in Writers /\ a + n > 0
    BY <2>4, <1>4, <1>5, <1>6
  <2>5. QED BY <2>1, <2>2, <2>3, <2>4 DEF Stops
<1>9. QED BY <1>7, <1>8

(* No call returns with work at the head of the queue that could run, so a  *)
(* cancelled writer never leaves the readers behind it waiting for nothing. *)
THEOREM NoWakeupLost == Spec => []NoLostWakeup
<1>1. Init => NoLostWakeup
  BY DEF Init, NoLostWakeup
<1>2. IInv /\ NoLostWakeup /\ [Next]_vars => NoLostWakeup'
  <2> SUFFICES ASSUME IInv, NoLostWakeup, [Next]_vars PROVE NoLostWakeup'
    OBVIOUS
  <2>1. ASSUME NEW t \in Tasks, Acquire(t) PROVE NoLostWakeup'
    BY <2>1, EnqueueKeepsAccounts, DrainLeavesNobodyReady DEF Acquire
  <2>2. ASSUME NEW t \in Tasks, OnAbort(t) PROVE NoLostWakeup'
    BY <2>2, SpliceKeepsAccounts, DrainLeavesNobodyReady DEF OnAbort
  <2>3. ASSUME NEW t \in Tasks, Release(t) PROVE NoLostWakeup'
    BY <2>3, ReturnKeepsAccounts, DrainLeavesNobodyReady DEF Release
  <2>4. CASE UNCHANGED <<queue, active, writer>>
    BY <2>4 DEF NoLostWakeup
  <2>5. QED
    BY <2>1, <2>2, <2>3, <2>4 DEF Next, vars, AcquireAborted, ReleaseAgain
<1>3. QED BY <1>1, <1>2, AlwaysAccounted, PTL DEF Spec

-----------------------------------------------------------------------------
(* drain() serves from the front, so whoever it serves, or leaves in front  *)
(* of an entry that keeps waiting, was in front of it before.               *)
LEMMA DrainInOrder ==
  ASSUME NEW q, NEW a, NEW w, NEW c, Accounted(q, a, w, c), Drain(q, a, w, c),
         NEW t \in Tasks, NEW u \in Tasks, call'[u] = "waiting",
         \/ c[t] # "granted" /\ call'[t] = "granted"
         \/ Before(queue', t, u)
  PROVE  Before(q, t, u)
<1> DEFINE n == Grants(q, a, w)
<1>1. /\ q \in Seq(Tasks) /\ w \in BOOLEAN /\ a \in Nat /\ a <= limit
  <2>1. HeldIn(c) \in SUBSET Tasks
    BY DEF HeldIn
  <2>2. QED BY <2>1, FS_Subset, FS_CardinalityType, SchedulerAssumption DEF Accounted
<1>2. n \in 0..Len(q)
  BY <1>1, GrantsFit
<1> HIDE DEF n
<1>3. /\ queue' = SubSeq(q, n + 1, Len(q))
      /\ call' = [x \in Tasks |-> IF x \in Served(q, n) THEN "granted" ELSE c[x]]
  BY DEF Drain, n
<1>4. /\ Len(queue') = Len(q) - n
      /\ \A i \in 1..Len(queue') : queue'[i] = q[n + i]
  BY <1>1, <1>2, <1>3
<1>5. CASE c[t] # "granted" /\ call'[t] = "granted"
  <2>1. t \in Served(q, n) /\ u \notin Served(q, n) /\ c[u] = "waiting"
    BY <1>3, <1>5
  <2>2. PICK i \in 1..n : q[i] = t
    BY <2>1 DEF Served
  <2>3. PICK j \in 1..Len(q) : q[j] = u
    BY <2>1 DEF Accounted
  <2>4. j \notin 1..n
    BY <2>1, <2>3 DEF Served
  <2>5. i \in 1..Len(q) /\ i < j
    BY <1>1, <1>2, <2>2, <2>3, <2>4
  <2> QED
    BY <2>2, <2>3, <2>5 DEF Before
<1>6. CASE Before(queue', t, u)
  <2>1. PICK i, j \in 1..Len(queue') : i < j /\ queue'[i] = t /\ queue'[j] = u
    BY <1>6 DEF Before
  <2>2. n + i \in 1..Len(q) /\ n + j \in 1..Len(q) /\ n + i < n + j
    BY <1>1, <1>2, <1>4, <2>1
  <2>3. q[n + i] = t /\ q[n + j] = u
    BY <1>4, <2>1
  <2> QED
    BY <2>2, <2>3 DEF Before
<1> QED
  BY <1>5, <1>6

(* First come, first served: neither an abort, a release, a writer at the   *)
(* head nor a free slot at the moment of a call lets a later caller pass an *)
(* earlier one (subagentScheduler.cjs:43-60).                               *)
THEOREM FirstComeFirstServed == Spec => NoOvertaking
<1>1. IInv /\ [Next]_vars => [\A t, u \in Tasks : ~Passes(t, u)]_vars
  <2> SUFFICES ASSUME IInv, Next, NEW t \in Tasks, NEW u \in Tasks, Passes(t, u)
               PROVE  FALSE
    BY DEF vars
  <2>1. /\ ~Before(queue, t, u) /\ call[u] = "waiting" /\ call'[u] = "waiting"
        /\ \/ call[t] # "granted" /\ call'[t] = "granted"
           \/ Before(queue', t, u)
    BY DEF Passes
  <2>2. queue \in Seq(Tasks) /\ call \in [Tasks -> Calls]
    BY DEF IInv, Accounted
  <2>3. ASSUME NEW x \in Tasks, Acquire(x) PROVE FALSE
    <3> DEFINE q == Append(queue, x)
               c == [call EXCEPT ![x] = "waiting"]
    <3>1. Accounted(q, active, writer, c) /\ Drain(q, active, writer, c)
      BY <2>3, EnqueueKeepsAccounts DEF Acquire
    <3>2. call[t] # "granted" => c[t] # "granted"
      BY <2>2
    <3>3. x # u
      BY <2>1, <2>3 DEF Acquire, Idle
    <3>4. /\ Len(q) = Len(queue) + 1
          /\ \A i \in 1..Len(queue) : q[i] = queue[i]
          /\ q[Len(queue) + 1] = x
      BY <2>2
    <3> HIDE DEF q, c
    <3>5. Before(q, t, u)
      BY <2>1, <3>1, <3>2, DrainInOrder
    <3>6. PICK i, j \in 1..Len(q) : i < j /\ q[i] = t /\ q[j] = u
      BY <3>5 DEF Before
    <3>7. i \in 1..Len(queue) /\ j \in 1..Len(queue)
      BY <2>2, <3>3, <3>4, <3>6
    <3> QED
      BY <2>1, <3>4, <3>6, <3>7 DEF Before
  <2>4. ASSUME NEW x \in Tasks, AcquireAborted(x) PROVE FALSE
    BY <2>1, <2>2, <2>4 DEF AcquireAborted
  <2>5. ASSUME NEW x \in Tasks, OnAbort(x) PROVE FALSE
    <3>1. PICK at \in 1..Len(queue) :
            /\ queue[at] = x
            /\ Drain(Without(queue, at), active, writer, [call EXCEPT ![x] = "rejected"])
      BY <2>5 DEF OnAbort
    <3> DEFINE q == Without(queue, at)
               c == [call EXCEPT ![x] = "rejected"]
    <3>2. Accounted(q, active, writer, c) /\ Drain(q, active, writer, c)
      BY <2>5, <3>1, SpliceKeepsAccounts DEF OnAbort
    <3>3. call[t] # "granted" => c[t] # "granted"
      BY <2>2
    <3>4. /\ Len(q) = Len(queue) - 1
          /\ \A i \in 1..Len(q) : q[i] = IF i < at THEN queue[i] ELSE queue[i + 1]
      BY <2>2, WithoutEntries
    <3> HIDE DEF q, c
    <3>5. Before(q, t, u)
      BY <2>1, <3>2, <3>3, DrainInOrder
    <3>6. PICK i, j \in 1..Len(q) : i < j /\ q[i] = t /\ q[j] = u
      BY <3>5 DEF Before
    <3> DEFINE k == IF i < at THEN i ELSE i + 1
               l == IF j < at THEN j ELSE j + 1
    <3>7. k \in 1..Len(queue) /\ l \in 1..Len(queue) /\ k < l
      BY <2>2, <3>4, <3>6
    <3>8. queue[k] = t /\ queue[l] = u
      BY <3>4, <3>6
    <3> HIDE DEF k, l
    <3> QED
      BY <2>1, <3>7, <3>8 DEF Before
  <2>6. ASSUME NEW x \in Tasks, Release(x) PROVE FALSE
    <3> DEFINE w == writer /\ x \notin Writers
               c == [call EXCEPT ![x] = "released"]
    <3>1. Accounted(queue, active - 1, w, c) /\ Drain(queue, active - 1, w, c)
      BY <2>6, ReturnKeepsAccounts DEF Release
    <3>2. call[t] # "granted" => c[t] # "granted"
      BY <2>2
    <3> HIDE DEF w, c
    <3> QED
      BY <2>1, <3>1, <3>2, DrainInOrder
  <2>7. ASSUME NEW x \in Tasks, ReleaseAgain(x) PROVE FALSE
    BY <2>1, <2>7 DEF ReleaseAgain, vars
  <2> QED
    BY <2>3, <2>4, <2>5, <2>6, <2>7 DEF Next
<1>2. QED
  BY <1>1, AlwaysAccounted, PTL DEF Spec, NoOvertaking

-----------------------------------------------------------------------------
(* A drain only ever adds holders; a release removes the one that called it.*)
LEMMA DrainAddsHolders ==
  ASSUME NEW q, NEW a, NEW w, NEW c, Drain(q, a, w, c)
  PROVE  HeldIn(c) \subseteq Holders'
BY DEF Drain, HeldIn, Holders

(* The lock module counts with the same Cardinality.                        *)
LEMMA SameCardinality == \A S : Lock!Cardinality(S) = Cardinality(S)
BY DEF Lock!Cardinality, Cardinality, Lock!IsFiniteSet, IsFiniteSet

(* SubagentScheduler implements the readers-writer lock its callers rely on.*)
THEOREM ImplementsLock == Spec => IsReadersWriterLock
<1>1. Init => Lock!Init
  BY DEF Init, Lock!Init, Holders
<1>2. IInv /\ IInv' /\ [Next]_vars => [Lock!Next]_Holders
  <2> SUFFICES ASSUME IInv, IInv', [Next]_vars PROVE [Lock!Next]_Holders
    OBVIOUS
  <2> DEFINE gone == Holders \ Holders'
             come == Holders' \ Holders
  <2>1. Cardinality(gone) <= 1
    <3>1. ASSUME NEW t \in Tasks, Release(t) PROVE gone \subseteq {t}
      <4>1. HeldIn([call EXCEPT ![t] = "released"]) \subseteq Holders'
        BY <3>1, DrainAddsHolders DEF Release
      <4>2. Holders \ {t} \subseteq HeldIn([call EXCEPT ![t] = "released"])
        BY DEF Holders, HeldIn, IInv, Accounted
      <4>3. QED BY <4>1, <4>2
    <3>2. ASSUME NEW t \in Tasks, Acquire(t) PROVE gone = {}
      <4>1. HeldIn([call EXCEPT ![t] = "waiting"]) \subseteq Holders'
        BY <3>2, DrainAddsHolders DEF Acquire
      <4>2. Holders \subseteq HeldIn([call EXCEPT ![t] = "waiting"])
        BY <3>2 DEF Acquire, Idle, Holders, HeldIn, IInv, Accounted
      <4>3. QED BY <4>1, <4>2
    <3>3. ASSUME NEW t \in Tasks, OnAbort(t) PROVE gone = {}
      <4>1. HeldIn([call EXCEPT ![t] = "rejected"]) \subseteq Holders'
        BY <3>3, DrainAddsHolders DEF OnAbort
      <4>2. Holders \subseteq HeldIn([call EXCEPT ![t] = "rejected"])
        BY <3>3 DEF OnAbort, Holders, HeldIn, IInv, Accounted
      <4>3. QED BY <4>1, <4>2
    <3>4. ASSUME NEW t \in Tasks, AcquireAborted(t) PROVE gone = {}
      BY <3>4 DEF AcquireAborted, Idle, Holders, IInv, Accounted
    <3>5. ASSUME UNCHANGED vars PROVE gone = {}
      BY <3>5 DEF vars, Holders
    <3>6. gone = {} \/ \E t : gone = {t}
      BY <3>1, <3>2, <3>3, <3>4, <3>5 DEF Next, ReleaseAgain
    <3> HIDE DEF gone
    <3>7. QED BY <3>6, FS_EmptySet, FS_Singleton
  <2>2. Lock!Compatible(Holders')
    <3>1. Holders' = HeldIn(call') /\ Accounted(queue', active', writer', call')
      BY DEF Holders, HeldIn, IInv
    <3>2. Cardinality(Holders') <= limit
      BY <3>1 DEF Accounted
    <3>3. Lock!Cardinality(Holders') <= limit
      BY <3>2, SameCardinality
    <3>4. QED BY <3>1, <3>3 DEF Accounted, Lock!Compatible
  <2>3. Holders' = (Holders \ gone) \cup come /\ gone \cap come = {}
    OBVIOUS
  <2>4. gone \in SUBSET Holders /\ come \in SUBSET (Tasks \ Holders)
    BY DEF Holders
  <2> HIDE DEF gone, come
  <2>5. Lock!Step(gone, come)
    BY <2>1, <2>2, <2>3, SameCardinality DEF Lock!Step
  <2>6. QED BY <2>4, <2>5 DEF Lock!Next
<1>3. QED
  BY <1>1, <1>2, AlwaysAccounted, PTL DEF Spec, IsReadersWriterLock, Lock!Spec
=============================================================================
