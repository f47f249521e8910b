SPECIFICATION Spec
CONSTANTS
  Turns = {t1}
  Controls = {c1, c2, c3}
  Fields = {f1}
  t1 = t1
  c1 = c1
  c2 = c2
  c3 = c3
  f1 = f1
  NoOne = NoOne
  Distiller = TRUE
  Inline = FALSE
  OneRequest = FALSE
  Faults = FALSE
  MaxRestarts = 0
PROPERTIES
  StaleOutputNeverCommitted
CHECK_DEADLOCK FALSE
