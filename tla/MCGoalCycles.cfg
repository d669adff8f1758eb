SPECIFICATION Spec
CONSTANTS
  Reports <- MCReports
  EndDate <- MCEndDate
  Titles = {"a"}
  PageTitles = {}
  MaxCycles = 2
  GivenObjectiveStatuses <- MCComplete
  GivenGoalStatuses <- MCClosed
INVARIANTS
  OneCyclePerReport
  UsedRowsKept
PROPERTIES
  NoNewWorkOnClosedGoals
CHECK_DEADLOCK FALSE
