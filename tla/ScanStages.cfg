SPECIFICATION FairSpec
CONSTANTS
  r1 = r1
  r2 = r2
  sub = sub
  typo = typo
  amass = amass
  subfinder = subfinder
  Items <- MCItems
  Names <- MCItems
  ScopeOf <- MCScopeOf
  TypoOf <- MCTypoOf
  RecordTypes <- MCTypes
  Questions <- MCQuestions
  Answers <- MCAnswers
  Setups <- MCSetups
  Engines = {amass, subfinder}
  Proxied = {amass}
  Workers = 2
  Ports = {1, 2}
  Ids = {1}
  Keys = {1, 2}
  MaxEntries = 1
  MaxFlight = 2
  MaxCandidates = 3
INVARIANTS
  NoWorkOutlivesCall
  FirstFailureIsReported
  AnswersFitTheirAsker
  ObservationsTellTheTruth
  PublishedScanIsWhole
  DiscoveryIsAttributed
  OutcomeIsShown
PROPERTIES
  ProgressMovesForward
  EveryScanReturns
CHECK_DEADLOCK FALSE
