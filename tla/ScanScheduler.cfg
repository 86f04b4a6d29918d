SPECIFICATION Spec
CONSTANTS
  p1 = p1
  p2 = p2
  Projects = {p1, p2}
  Scheduled = {p1}
  MaxRuns = 2
  MaxRestarts = 0
  MaxFaults = 0
INVARIANT
  SchedulerSurvives
CHECK_DEADLOCK FALSE
