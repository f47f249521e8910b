SPECIFICATION TurnSpec
CONSTANTS
  t1 = t1
  c1 = c1
  n1 = n1
  q1 = q1
  ChatTurns = {t1}
  Tenants = {n1}
  Questions = {q1}
  Requests <- Asked
  LedgerClaims = {c1}
  DraftFaults = {{}, {"parametric"}}
INVARIANTS
  NoStaleKnowledge
