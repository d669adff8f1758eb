SPECIFICATION Spec
CONSTANTS
  u1 = u1
  u2 = u2
  r1 = r1
  r2 = r2
  Free = Free
  Users <- MCUsers
  Requests <- MCRequests
  Kinds <- MCReviews
  MaxActive = 2
INVARIANTS
  StatusDerivedWhenQuiet
CHECK_DEADLOCK FALSE
