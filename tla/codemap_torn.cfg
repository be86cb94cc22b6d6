\* Two gateway jobs for the same scope at the same time, no faults.
CONSTANTS
  s1 = s1
  j1 = j1
  j2 = j2
  Scopes = {s1}
  Index = Index
  Jobs = {j1, j2}
  Pulls = {}
  Gateway = Gateway
  NoScope = NoScope
  NoOne = NoOne
  Concurrent = 2
  Faults = {}
SPECIFICATION Spec
SYMMETRY Symmetry
INVARIANTS
  FilesAreWhole
CHECK_DEADLOCK FALSE
