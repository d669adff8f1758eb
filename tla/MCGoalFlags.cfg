SPECIFICATION Spec
CONSTANTS
  Reports <- MCReports
  EndDate <- MCEndDate
  Titles = {"a"}
  PageTitles = {"a"}
  MaxCycles = 1
  GivenObjectiveStatuses <- MCNotStarted
  GivenGoalStatuses <- MCSuspended
INVARIANTS
  TypeOK
  
  OnARFlagTrue
  
CHECK_DEADLOCK FALSE
