SPECIFICATION Spec
CONSTANTS
  u1 = u1
  u2 = u2
  r1 = r1
  r2 = r2
  Free = Free
  Users <- MCUsers
  Requests <- MCRequests
  Kinds <- MCEdits
  MaxActive = 2
PROPERTIES
  RequestsEnd
