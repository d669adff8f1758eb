SPECIFICATION Spec
CONSTANTS
  author = author
  manager = manager
  lead = lead
  Users <- MCThree
  Author = author
  Writers = {author}
  Managers <- MCThree
  Admins <- MCLeads
  UnlockAdmins <- MCLeads
  CollaboratorPool = {}
INVARIANTS
  TypeOK
  StatusDerivedFromApprovers
  ApprovalStamped
  ApprovedIsValid
  SubmittedDateKept
PROPERTIES
  SubmissionClearsRequests
  ReviewsOutliveRemoval
  ImplementsContract
CHECK_DEADLOCK FALSE
