SPECIFICATION Spec
CONSTANTS
  d1 = d1
  d2 = d2
  p1 = p1
  Free = Free
  Orphan = Orphan
  NumFiles = 2
  Downloaders = {d1, d2}
  Processors = {p1}
  Removable = {2}
  MaxAttempts = 1
  MaxFailures = 1
INVARIANTS
  TypeOK
  NoFileOvertaken
PROPERTIES
  GivenUpForGood
  AttemptsNotLost
