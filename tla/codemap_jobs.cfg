\* Two gateway jobs and a command line process, two at a time, with failing
\* providers, pulls and directory walks.
CONSTANTS
  s1 = s1
  j1 = j1
  j2 = j2
  c1 = c1
  Scopes = {s1}
  Index = Index
  Jobs = {j1, j2}
  Pulls = {c1}
  Gateway = Gateway
  NoScope = NoScope
  NoOne = NoOne
  Concurrent = 2
  Faults = {"auth", "tree", "pull"}
SPECIFICATION FairSpec
PROPERTIES
  DoneJobIsFinal
  JobSettles
CHECK_DEADLOCK FALSE
