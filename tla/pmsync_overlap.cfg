SPECIFICATION Spec
CONSTANTS
  w1 = w1
  w2 = w2
  Workers = {w1, w2}
  Iterations = {1}
  Issues = {1, 2}
  PageSizes = {2}
  Undated = {}
  Faults = {"kill", "malformed"}
  MaxClock = 2
SYMMETRY Symmetry
INVARIANT TypeOK
INVARIANT LinksResolve
