SPECIFICATION FairSpec
CONSTANTS
  p1 = p1
  p2 = p2
  Projects = {p1}
  Scheduled = {p1}
  MaxRuns = 2
  MaxRestarts = 1
  MaxFaults = 0
PROPERTIES
  DeadlinesServedOnce
  SavedSchedulesHold
  DueScansStart
  EveryScanEnds
CHECK_DEADLOCK FALSE
