SPECIFICATION Spec
CONSTANTS
  Files = {f1}
  Attempts = 3
  MaxStalled = 1
  MaxFaults = 4
INVARIANTS
  TypeOK
  OnlySettledStatusesShown
PROPERTIES
  SettledForGood
  ScansEnd
CHECK_DEADLOCK FALSE
