SPECIFICATION Spec
CONSTANTS
  p1 = p1
  p2 = p2
  Projects = {p1, p2}
  Scheduled = {}
  MaxRuns = 2
  MaxRestarts = 2
  MaxFaults = 2
SYMMETRY Symmetric
INVARIANTS
  ServiceInv
  DeletionWaitsForWorker
  NoLostArtifacts
  SnapshotsReleased
  StopEndsEverything
PROPERTIES
  LedgerSpec
CHECK_DEADLOCK FALSE
