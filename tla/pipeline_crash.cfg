\* Two runs, two job slots, crashes and a failing queue, no manual requests.
CONSTANTS
  r1 = r1
  r2 = r2
  w1 = w1
  w2 = w2
  Runs = {r1, r2}
  Workers = {w1, w2}
  Requests = {}
  NoRun = NoRun
  MaxDay = 1
  MaxFindings = 1
  MaxTries = 2
  Faults = {"crash", "queue"}
SPECIFICATION Spec
SYMMETRY Symmetry
INVARIANTS
  NoRunIsStuck
  ReportFileIsCurrent
  CompletedHasNoReason
CHECK_DEADLOCK FALSE
