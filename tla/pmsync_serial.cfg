SPECIFICATION FairSpec
CONSTANTS
  w1 = w1
  Workers = {w1}
  Iterations = {1}
  Issues = {1, 2}
  PageSizes = {1, 2}
  Undated = {"iterations"}
  Faults = {"http"}
  MaxClock = 3
INVARIANT CursorIsBacked
PROPERTY CatchesUp
