SPECIFICATION ReviewSpec
CONSTANTS
  N = 3
  Deps <- Chain
  Isolated <- Second
  Reviews = {h}
  MaxAttempts = 2
  MaxRunAttempts = 4
  MaxEdits = 1
  MaxRestarts = 1
CHECK_DEADLOCK FALSE
INVARIANTS SharedIsBacked CodeAccounted
PROPERTY RetractionStands
