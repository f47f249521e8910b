SPECIFICATION SettlingSpec
CONSTANTS
  m1 = m1
  h1 = h1
  h2 = h2
  s1 = s1
  b1 = b1
  b2 = b2
  w1 = w1
  w2 = w2
  MemoryItems = {m1}
  MemoryTypes = {"preference"}
  MemoryScopes = {"case"}
  MemoryHandlers = {h1, h2}
  MemoryBatch = 1
  MemoryMaxAttempts = 2
  MemoryReapBatch = 2
  MemoryFetch = 1
  MemoryMaxRows = 3
  MemoryMaxCrashes = 1
  Sessions = {s1}
  Bindings = {b1, b2}
  Workers = {w1, w2}
  NoWorker = NoWorker
  MaxAttempts = 2
  BatchSize = 2
  Faults = TRUE
  MaxJobs = 2
  a = a
  Claims = {a}
  k1 = k1
  Contents = {k1}
  Contracts = {c1}
  c1 = c1
  Nothing = Nothing
  MaxRows = 2
  Drainers = {w1, w2}
  DrainBatch = 2
  DrainAttempts = 2
  DrainFaults = TRUE
  LeasesHold = TRUE
  MaxDrainCrashes = 1
  MaxCrashes = 1
PROPERTIES
  MemoryRowsSettle
  JobsSettle
  SettlesInOrder
  LeaseRespected
  GuardAccepts
  SettledRowsStay
  RowsSettle
CHECK_DEADLOCK FALSE
