SPECIFICATION LedgerSpec
CONSTANTS
  Claims = {a}
  Contents = {k1}
  Contracts = {h1, h2}
  a = a
  k1 = k1
  h1 = h1
  h2 = h2
  Nothing = Nothing
  MaxRows = 4
INVARIANTS
  ImportIsIdempotent
CHECK_DEADLOCK FALSE
