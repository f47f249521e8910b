SPECIFICATION ConcurrentSpec
CONSTANTS
  Turns = {t1, t2, t3}
  Controls = {c1}
  Fields = {f1}
  t1 = t1
  t2 = t2
  t3 = t3
  c1 = c1
  f1 = f1
  NoOne = NoOne
  Distiller = TRUE
  Inline = FALSE
  OneRequest = FALSE
  Faults = FALSE
  MaxRestarts = 1
INVARIANTS
  TypeOK
  InterviewNotAhead
PROPERTIES
  StaleOutputRejected
  PromotionFollowsMerge
  FlushEnds
CHECK_DEADLOCK FALSE
