SPECIFICATION SharedSpec
CONSTANTS
  r1 = r1
  r2 = r2
  r3 = r3
  w1 = w1
  w2 = w2
  Tasks <- FiveTasks
  Writers <- TwoWriters
  limit = 2
  u1 = u1
  u2 = u2
  u3 = u3
  u4 = u4
  Callers <- FourCallers
  Limits <- OneToTwo
  maxWaiting = 2
  p = p
  q = q
  c1 = c1
  c2 = c2
  c3 = c3
  Procs <- TwoProcs
  Transactions <- ThreeCalls
  ProcOf <- ProcOfThree
INVARIANTS Consistent NoLostWakeup QueueConsistent NoIdleSlot LockAccounted GoalsExclude
PROPERTIES NoOvertaking EveryWaiterIsServed IsReadersWriterLock
           NobodyIsPassed EveryCallIsServed NoGoalLost RetryGetsThrough
CHECK_DEADLOCK FALSE
