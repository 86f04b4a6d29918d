SPECIFICATION Spec
CONSTANTS
  d1 = d1
  d2 = d2
  r1 = r1
  r2 = r2
  direct = direct
  proxied = proxied
  Domains = {d1}
  Records = {r1, r2}
  Routes = {direct, proxied}
  DirectRoute = direct
  Threshold = 2
  MaxRuns = 5
  MaxDeletions = 1
SYMMETRY Symmetric
INVARIANTS
  HistoryInv
  AbsenceEventIsEarned
  MissingStatusIsEarned
  LastGoodRecordsRemain
  ChangesHaveBaseline
  ResolutionEventsMatchHistory
CHECK_DEADLOCK FALSE
