\* Two requests and a job slot, two ids for the name, two places, every fault.  Of
\* the ids, the disk is followed for the one that is created first.
CONSTANTS
  r1 = r1
  r2 = r2
  p1 = p1
  p2 = p2
  q1 = q1
  q2 = q2
  w1 = w1
  Repos = {r1, r2}
  NoRepo = NoRepo
  Places = {p1, p2}
  Home = p1
  Requests = {q1, q2}
  Ingests = {w1}
  NoOne = NoOne
  Faults = {"net", "disk", "key", "kill"}
SPECIFICATION Spec
SYMMETRY Symmetry
CONSTRAINT FirstIsCloned
INVARIANTS
  TypeOK
  OneSyncPerRepository
  RunsBelongToTheRepository
PROPERTIES
  CloneIsKept
CHECK_DEADLOCK FALSE
