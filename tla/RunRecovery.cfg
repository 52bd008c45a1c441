SPECIFICATION Spec
CONSTANTS
  run1 = run1
  run2 = run2
  run3 = run3
  page = page
  write1 = write1
  shell = shell
  Outside = Outside
  Missing = Missing
  Paths <- OneFile
  Effect <- EffectOf
  Target <- TargetOf
  Repeatable <- NoOps
  First = run1
  Runs <- ThreeRuns
  Ops <- WriteAndShell
  MaxDepth = 1
  MaxEdits = 1
  Branching = TRUE
  SaveMayFail = TRUE
  MayDecline <- OneWrite
  MayAsk <- OneWrite
SYMMETRY LaterRuns
INVARIANT PlansAreSound
PROPERTIES NoBlindReplay CommittedWorkIsNotRepeated
CHECK_DEADLOCK FALSE
