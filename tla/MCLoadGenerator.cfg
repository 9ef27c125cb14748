SPECIFICATION FairSpec
CONSTANTS
  w1 = w1
  w2 = w2
  w3 = w3
  Workers = {w1, w2, w3}
  Concurrency = 2
  SeedProducts = 2
CHECK_DEADLOCK FALSE
INVARIANTS
  TypeOK
  AtMostConcurrency
  NothingLeftBehind
PROPERTY
  Stops
