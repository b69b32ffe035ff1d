SPECIFICATION ServerSpec
CONSTANTS
  r1 = r1
  r2 = r2
  r3 = r3
  r4 = r4
  c1 = c1
  c2 = c2
  c3 = c3
  c4 = c4
  c5 = c5
  q1 = q1
  q2 = q2
  q3 = q3
  k1 = k1
  k2 = k2
  k3 = k3
  p1 = p1
  p2 = p2
  p3 = p3
  p4 = p4
  v1 = v1
  v2 = v2
  v3 = v3
  nil = nil
  Requests <- MCRequests
  Readers <- MCReaders
  MaxWaiting = 2
  PasswordCalls <- MCPasswordCalls
  PasswordSlots = 2
  PasswordQueue = 2
  LogStreams <- MCLogStreams
  LogAdmitted = 2
  RecordsPerRequest = 2
  OtherRecords = 1
  RecordSize = 2
  ReadyBelow = 2
  QueueUpTo = 12
  CapacityRequests <- MCCapacityRequests
  CapacityLimit = 2
  LifeRequests <- MCLifeRequests
  LifeLimit = 2
  RateKeys <- MCRateKeys
  RateMaxKeys = 2
  RateLimit = 1
  RateWindow = 2
  RateMaxTime = 6
  ProbeCalls <- MCProbeCalls
  ProbeQueue = 2
  QuoteQueries <- MCQueries
  QuoteBases <- MCBases
  QuoteValid <- MCValid
  StreamRows = 8
  StreamRoom = 3
  PromotedReleases <- MCReleases
  SoundReleases <- MCSound
  NoRelease = nil
INVARIANTS
  ServerTypeOK CapacityAccounted JournalBounded SlotsCounted ExitsClean
  StreamsWhole PromotionsServe PreparedServes
PROPERTIES
  SlotServes PasswordBounded RatesKept ProbesShareChecks QuotesServed WorkEnds
CHECK_DEADLOCK FALSE
