------------------------- MODULE MCSubagentScheduler -------------------------
(***************************************************************************)
(* Small instances of SubagentScheduler, and the drain loop written as the *)
(* loop of the source, to compare with Grants.                             *)
(***************************************************************************)
EXTENDS SubagentScheduler, TLC

CONSTANTS r1, r2, r3, w1, w2

FiveTasks == {r1, r2, r3, w1, w2}
TwoWriters == {w1, w2}

RECURSIVE DrainLoop(_, _, _)
DrainLoop(q, a, w) ==
  IF q = <<>> \/ w \/ a >= limit \/ (Head(q) \in Writers /\ a > 0) THEN 0
  ELSE 1 + DrainLoop(Tail(q), a + 1, Head(q) \in Writers)

(* The closed form of drain() serves exactly the entries the loop of        *)
(* subagentScheduler.cjs:43-60 serves, from every queue of up to four       *)
(* entries and every state of the slots.                                    *)
ASSUME GrantsIsTheLoop ==
  \A q \in UNION {[1..n -> Tasks] : n \in 0..4}, a \in 0..limit, w \in BOOLEAN :
    Grants(q, a, w) = DrainLoop(q, a, w)
==============================================================================
