SPECIFICATION FileSpec
CONSTANTS
  p = p
  q = q
  c1 = c1
  c2 = c2
  c3 = c3
  Procs <- TwoProcs
  Transactions <- ThreeCalls
  ProcOf <- ProcOfThree
INVARIANTS MutualExclusion
CHECK_DEADLOCK FALSE
