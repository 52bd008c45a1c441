SPECIFICATION Spec
CONSTANTS
  f1 = f1
  f2 = f2
  a1 = a1
  a2 = a2
  b1 = b1
  t1 = t1
  t2 = t2
  Files = {f1, f2}
  Ops = {a1, a2, b1}
  FileOf <- FilesOfOps
  Theirs = {t1, t2}
  MaxEdits = 2
  MaxCrashes = 1
SYMMETRY Same
PROPERTY EditsNeedForce
CHECK_DEADLOCK FALSE
