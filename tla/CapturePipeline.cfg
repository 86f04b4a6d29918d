SPECIFICATION Spec
CONSTANTS
  d1 = d1
  d2 = d2
  w1 = w1
  w2 = w2
  Domains = {d1, d2}
  Workers = {w1}
  Capacity = 1
SYMMETRY Symmetric
INVARIANTS
  PipelineInv
  NothingIsLost
  ResultsFollowListing
  RestoredIsQuiet
CHECK_DEADLOCK FALSE
