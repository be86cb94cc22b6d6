\* One run, one job slot, one manual stage request, every fault.
CONSTANTS
  r1 = r1
  w1 = w1
  q1 = q1
  Runs = {r1}
  Workers = {w1}
  Requests = {q1}
  NoRun = NoRun
  MaxDay = 2
  MaxFindings = 1
  MaxTries = 2
  Faults = {"crash", "job_timeout", "handler_db", "queue"}
SPECIFICATION Spec
SYMMETRY Symmetry
INVARIANTS
  TypeOK
  CompletedHasResults
  RowsBelongToRuns
  CompletedScoreCoversFindings
PROPERTIES
  ScoreIsWrittenOnce
  CompletedIsFinal
  ImplementsLifecycle
CHECK_DEADLOCK FALSE
