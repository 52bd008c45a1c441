SPECIFICATION FairSpec
CONSTANTS
  builder = builder
  isolated = isolated
  reviewer = reviewer
  Tasks = {builder, isolated, reviewer}
  Shared = {builder}
  ReadOnly = {reviewer}
  Limit = 2
  MaxTasksPerRun = 2
  MaxAttemptsPerTask = 2
  MaxAttemptsPerRun = 3
  MaxCrashes = 1
  MaxFails = 1
INVARIANTS TasksAccounted QuotaKept ChangesAreTraced
PROPERTIES UndoneAlone EveryAttemptSettles
CHECK_DEADLOCK FALSE
