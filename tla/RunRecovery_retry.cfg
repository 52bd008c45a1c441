SPECIFICATION Spec
CONSTANTS
  run1 = run1
  run2 = run2
  run3 = run3
  page = page
  write1 = write1
  shell = shell
  Outside = Outside
  Missing = Missing
  Paths <- OneFile
  Effect <- EffectOf
  Target <- TargetOf
  Repeatable <- NoOps
  First = run1
  Runs <- OneRun
  Ops <- OneWrite
  MaxDepth = 0
  MaxEdits = 1
  Branching = FALSE
  SaveMayFail = FALSE
  MayDecline <- OneWrite
  MayAsk <- NoOps
INVARIANT AutoMeansSettled
CHECK_DEADLOCK FALSE
