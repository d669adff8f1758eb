SPECIFICATION Spec
CONSTANTS
  author = author
  lead = lead
  specialist = specialist
  Users <- MCUsers
  Author = author
  Writers <- MCWriters
  Managers <- MCManagers
  Admins <- MCLeads
  UnlockAdmins <- MCLeads
  SpecialistPool <- MCSpecialists
INVARIANTS
  TypeOK
  VerdictBacked
PROPERTIES
  OutcomeShown
  ResubmissionSettlesRequests
  ReviewsOutliveRemoval
  ImplementsContract
CHECK_DEADLOCK FALSE
