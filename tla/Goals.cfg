SPECIFICATION FairSpec
CONSTANTS
  Tasks <- TwoTasks
  Order <- BuildThenAccept
  DependsOn <- AcceptNeedsBuild
  Bound <- OnlyAccept
  Cap = 1
  MaxRuns = 2
  MaxStarts = 1
  MaxClaims = 2
  MaxCrashes = 1
  MaxFails = 1
  MaxActs = 3
INVARIANTS RunsAccounted AllowanceKept
PROPERTIES InterruptedIsReviewed StopHolds EveryClaimEnds
CHECK_DEADLOCK FALSE
