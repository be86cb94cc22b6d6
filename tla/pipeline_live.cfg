\* One run, one job slot that may crash and a queue that may fail; fair schedulers.
CONSTANTS
  r1 = r1
  w1 = w1
  Runs = {r1}
  Workers = {w1}
  Requests = {}
  NoRun = NoRun
  MaxDay = 2
  MaxFindings = 1
  MaxTries = 3
  Faults = {"crash", "queue"}
SPECIFICATION FairSpec
PROPERTIES
  JobSettles
  RunSettles
CHECK_DEADLOCK FALSE
