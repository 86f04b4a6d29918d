SPECIFICATION Spec
CONSTANTS
  d1 = d1
  d2 = d2
  r1 = r1
  r2 = r2
  direct = direct
  proxied = proxied
  Domains = {d1}
  Records = {r1}
  Routes = {direct, proxied}
  DirectRoute = direct
  Threshold = 2
  MaxRuns = 6
  MaxDeletions = 0
INVARIANTS
  OneEventPerAbsence
CHECK_DEADLOCK FALSE
