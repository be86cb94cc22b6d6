\* Three units under a semaphore of two, two iterations, every driver and fault.
CONSTANTS
  NUnits = 3
  Concurrency = 2
  MaxIter = 2
  Samples = 2
  NoAnswer = NoAnswer
  Answers <- MCAnswers
  ValidCategories <- MCCategories
  Faults = {"provider", "db", "slow", "clash", "cancel"}
SPECIFICATION FairSpec
INVARIANTS
  TypeOK
  AgentsEndWithTheReview
  ScoreWithinBounds
PROPERTIES
  KeepsTheContract
  ReviewEnds
CHECK_DEADLOCK FALSE
