CONSTANTS
  d1 = d1
  d2 = d2
  None = None
  Drivers = {d1, d2}
  Runs <- MCRuns
  MaxFolders = 3
  Earlier = 1
SPECIFICATION FairSpec
INVARIANTS TypeOK CleanFinish HangsOnlyInCheck OwnForwards NoStrayFault CompleteResults
PROPERTIES ResultsKept DriversLeave HangsOnlyOnForward
CHECK_DEADLOCK FALSE
