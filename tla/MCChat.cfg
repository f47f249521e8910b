SPECIFICATION ChatSpec
CONSTANTS
  a = a
  b = b
  k1 = k1
  h1 = h1
  h2 = h2
  u1 = u1
  v1 = v1
  Claims = {a, b}
  LedgerClaim = a
  Contents = {k1}
  Contracts = {h1, h2}
  Nothing = Nothing
  MaxRows = 5
  QueueContent = k1
  QueueContract = h1
  QueueRows = 3
  QueueExtra = 1
  Drainers = {v1}
  DrainBatch = 2
  DrainAttempts = 2
  DrainFaults = FALSE
  LeasesHold = TRUE
  MaxDrainCrashes = 0
  p1 = p1
  q1 = q1
  ChatTurns = {p1}
  Tenants = {u1}
  Questions = {q1}
  Requests <- Asked
  LedgerClaims = {k1}
  DraftFaults <- OneFault
  t1 = t1
  t2 = t2
  c1 = c1
  c2 = c2
  f1 = f1
  Turns = {t1, t2}
  Controls = {c1, c2}
  Fields = {f1}
  NoOne = NoOne
  Distiller = TRUE
  Inline = FALSE
  OneRequest = TRUE
  Faults = TRUE
  MaxRestarts = 1
INVARIANTS
  NewestRowIsCurrent
  VerdictStands
  FinalState
  SyncedIsIndexed
  ShippedIsGuarded
  ShippedIsTheVerified
  FreshUnlessCached
  PolicyIsSafe
  CacheIsPlain
  MappingIsOfTheAnswer
  RecordedIsShipped
  ForgottenStaysForgotten
PROPERTIES
  IndexFollows
SYMMETRY AlikeRequests
CHECK_DEADLOCK FALSE
