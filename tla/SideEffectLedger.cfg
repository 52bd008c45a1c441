SPECIFICATION Spec
CONSTANTS
  a1 = a1
  a2 = a2
  page = page
  write1 = write1
  write2 = write2
  shell = shell
  scan = scan
  Outside = Outside
  Missing = Missing
  Paths <- OneFile
  Effect <- EffectOf
  Target <- TargetOf
  Repeatable <- RepeatableOps
  Ops <- WritesShellAndScan
  Mutating <- WritesShellAndScan
  Actors <- TwoActors
  MaxEdits = 2
CONSTRAINT ShellOrScan
SYMMETRY ActorAndWriteSymmetry
INVARIANTS DoubtIsRecorded SkipOnlyDone ImagesPredateRun
PROPERTIES NoReplayInDoubt DoneIsNotRepeated
