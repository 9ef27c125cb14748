SPECIFICATION Spec
CONSTANTS
  WindowSize = 7
  MinFail = 2
  MaxFail = 4
INVARIANTS
  TypeOK
  QuotaMet
  StreakIsBounded
