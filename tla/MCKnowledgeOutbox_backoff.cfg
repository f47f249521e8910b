SPECIFICATION DrainSpec
CONSTANTS
  Claims = {a}
  Contents = {k1}
  Contracts = {h1}
  Drainers = {w1}
  a = a
  k1 = k1
  h1 = h1
  w1 = w1
  Nothing = Nothing
  DrainBatch = 2
  DrainAttempts = 2
  DrainFaults = TRUE
  LeasesHold = TRUE
  MaxDrainCrashes = 0
  MaxRows = 3
INVARIANTS
  FinalState
CHECK_DEADLOCK FALSE
