\* Two gateway jobs and a command line process, one at a
\* time, with failing writes, restarts and kills.
CONSTANTS
  s1 = s1
  s2 = s2
  j1 = j1
  j2 = j2
  c1 = c1
  Scopes = {s1, s2}
  Index = Index
  Jobs = {j1, j2}
  Pulls = {c1}
  Gateway = Gateway
  NoScope = NoScope
  NoOne = NoOne
  Concurrent = 1
  Faults = {"disk", "kill", "tree"}
SPECIFICATION Spec
SYMMETRY Symmetry
INVARIANTS
  TypeOK
  FilesAreWhole
  FreshGraphIsOnDisk
  SucceededJobDidItsScopes
CHECK_DEADLOCK FALSE
