SPECIFICATION Spec
CONSTANTS
  w1 = w1
  Workers = {w1}
  Iterations = {1}
  Issues = {1}
  PageSizes = {2}
  Undated = {"iterations", "assignments"}
  Faults = {}
  MaxClock = 2
INVARIANT LinkFilledIn
