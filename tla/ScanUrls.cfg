SPECIFICATION Spec
CONSTANTS
  p1 = p1
  p2 = p2
  Projects = {p1}
  Scheduled = {}
  MaxRuns = 1
  MaxRestarts = 0
  MaxFaults = 1
INVARIANT
  UrlsAreReleased
CHECK_DEADLOCK FALSE
