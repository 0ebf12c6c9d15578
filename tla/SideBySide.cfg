SPECIFICATION Spec
CONSTANTS
  c1 = c1
  c2 = c2
  g1 = g1
  g2 = g2
  i1 = i1
  i2 = i2
  r1 = r1
  r2 = r2
  q1 = q1
  q2 = q2
  p1 = p1
  p2 = p2
  a1 = a1
  a2 = a2
  x1 = x1
  x2 = x2
  Callers <- MCCallers
  MaxTries = 2
  MaxReads = 1
  MaxMishaps = 1
  Generations <- MCGenerations
  Indexers <- MCIndexers
  Readers <- MCReaders
  MaxRevision = 3
  MaxClaims = 2
  MaxTroubles = 1
  Alerts <- MCAlerts
  Requests <- MCRequests
  MaxOutages = 1
  Processes <- MCProcesses
  Ttl = 2
  Retention = 3
  LeaseTime = 2
  MaxClock = 3
  SourceCount = 3
  Records <- MCRecords
  SweepLimit = 1
  CommandLimit = 2
  MaxBatches = 2
  MaxFailures = 1
  Reports <- MCReports
  Inodes = {1, 2, 3, 4, 5}
  PageSize = 1
  HistoryEnd = 1
  MaxJournal = 2
  MaxKills = 1
  Executions <- MCExecutions
  EvidenceSources <- MCEvidenceSources
  Readings <- MCReadings
  MaxActivations = 1
INVARIANTS
  TypeOK
  OneMutation
  CompletedIsConfirmed
  CatalogueIsConsistent
  ActiveIsSearchable
  RetrievalIsAuthoritative
  HistoryIsTrue
  ReadModelIsPrefix
  TurnsComeRound
  PlanHasItsTrail
PROPERTIES
  UncertainIsSettledIfRetried
  EvidenceMovesForward
CHECK_DEADLOCK FALSE
