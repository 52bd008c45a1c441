-------------------------- MODULE ReadersWriterLock --------------------------
(***************************************************************************)
(* What SubagentScheduler promises its callers: a bounded readers-writer   *)
(* lock.  The only state is who is inside.                                  *)
(***************************************************************************)
EXTENDS Naturals, FiniteSets

CONSTANTS Tasks, Writers, limit

VARIABLE inside

Compatible(S) ==
  /\ Cardinality(S) <= limit
  /\ \A w \in S \cap Writers : S = {w}

Init == inside = {}

(* Somebody leaves or nobody does, and then some of those outside enter.    *)
Step(gone, come) ==
  /\ Cardinality(gone) <= 1
  /\ gone \cap come = {}
  /\ inside' = (inside \ gone) \cup come
  /\ Compatible(inside')

Next ==
  \E gone \in SUBSET inside, come \in SUBSET (Tasks \ inside) : Step(gone, come)

Spec == Init /\ [][Next]_inside
=============================================================================
