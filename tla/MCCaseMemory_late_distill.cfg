SPECIFICATION Spec
CONSTANTS
  Turns = {t1, t2}
  Controls = {c1, c2}
  Fields = {f1}
  t1 = t1
  t2 = t2
  c1 = c1
  c2 = c2
  f1 = f1
  NoOne = NoOne
  Distiller = TRUE
  Inline = FALSE
  OneRequest = FALSE
  Faults = FALSE
  MaxRestarts = 0
INVARIANTS
  ForgottenStaysForgotten
CHECK_DEADLOCK FALSE
