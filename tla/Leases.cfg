SPECIFICATION Spec
CONSTANTS
  r1 = r1
  r2 = r2
  main2 = main2
  task1 = task1
  task2 = task2
  f1 = f1
  f2 = f2
  Runs <- TwoRuns
  Agents <- ThreeAgents
  Supervisors <- OneMain
  RunOf <- RunOfThree
  Files <- TwoFiles
  Tools = {"write_file", "bulk_edit"}
  MaxLate = 1
  Stalls = FALSE
  Linked <- OneFile
SYMMETRY TaskSymmetry
INVARIANT HeldWhileNeeded
PROPERTIES OneWriter OverwritesWhatItSaw
CHECK_DEADLOCK FALSE
