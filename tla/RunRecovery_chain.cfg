SPECIFICATION Spec
CONSTANTS
  run1 = run1
  run2 = run2
  run3 = run3
  page = page
  write1 = write1
  shell = shell
  Outside = Outside
  Missing = Missing
  Paths <- OneFile
  Effect <- EffectOf
  Target <- TargetOf
  Repeatable <- NoOps
  First = run1
  Runs <- ThreeRuns
  Ops <- OneWrite
  MaxDepth = 2
  MaxEdits = 1
  Branching = FALSE
  SaveMayFail = FALSE
  MayDecline <- NoOps
  MayAsk <- NoOps
PROPERTY NoBlindReplay
CHECK_DEADLOCK FALSE
