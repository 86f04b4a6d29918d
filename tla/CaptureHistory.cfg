SPECIFICATION Spec
CONSTANTS
  Visits <- MCVisits
  Setups <- MCSetups
  MaxScans = 2
  MaxDay = 1
  MaxLosses = 1
INVARIANTS
  TypeOK
  NothingGoesUnseen
  QuietPagesStayQuiet
  ChangesAreTold
  TitleChangesLead
  AvailabilityIsTold
CHECK_DEADLOCK FALSE
