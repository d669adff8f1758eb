SPECIFICATION Spec
CONSTANTS
  w1 = w1
  w2 = w2
  Nobody = Nobody
  Lost = Lost
  Workers <- MCTwoWorkers
  HoldChoices = {TRUE, FALSE}
  MaxLate = 2
  MaxErrors = 2
  MaxCrashes = 2
INVARIANTS
  TypeOK
  MutualExclusion
PROPERTIES
  OnlyOwnLockDeleted
  LostLeaseNotProlonged
  LockFreed
