SPECIFICATION FairSpec
CONSTANTS
  Batch = 2
  MaxStarts = 3
  MaxDrawn = 6
CHECK_DEADLOCK FALSE
INVARIANTS
  TypeOK
  SameOrder
  ServesWhatItSeeded
PROPERTY
  StartsEnd
