SPECIFICATION Spec
CONSTANTS
  Files = {f1}
  Attempts = 2
  MaxStalled = 1
  MaxFaults = 0
PROPERTIES
  EveryFileScanned
CHECK_DEADLOCK FALSE
