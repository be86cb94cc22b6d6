\* Two persons, two overlapping recomputations and a sync, for each derived table.
CONSTANTS
  p1 = p1
  p2 = p2
  g1 = g1
  g2 = g2
  it1 = it1
  none = none
  Persons = {p1, p2}
  GitlabUsers = {g1, g2}
  PmUsers = {v1}
  Login <- MCLogin
  Issues = {i1}
  IssueStates <- MCIssueStates
  Iterations = {it1}
  Length <- MCLength
  Edits <- MCEdits
  Runs = {a, b}
  Nobody = Nobody
  Budget <- MCBudget
SPECIFICATION FairSpec
INVARIANTS
  TypeOK
  ReferencesResolve
PROPERTIES
  AttributionCatchesUp
  DerivedCatchesUp
CHECK_DEADLOCK FALSE
