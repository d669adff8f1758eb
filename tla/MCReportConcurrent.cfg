SPECIFICATION Spec
CONSTANTS
  u1 = u1
  u2 = u2
  r1 = r1
  r2 = r2
  Free = Free
  Users <- MCUsers
  Requests <- MCRequests
  Kinds <- AllKinds
  MaxActive = 2
SYMMETRY MCSymmetry
INVARIANTS
  TypeOK
  StatusDerivedOneAtATime
PROPERTIES
  VerdictsNotLost
CHECK_DEADLOCK FALSE
