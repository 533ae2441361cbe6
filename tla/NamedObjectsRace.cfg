SPECIFICATION Spec
CONSTANTS
  t1 = t1
  t2 = t2
  a = a
  b = b
  c = c
  p = p
  q = q
  None = None
  Thread = {t1, t2}
  Of <- OneProcess
  Name = {a, b}
  Uses <- Same
  Capacity <- Roomy
  Padding = 1
  Allocates = {}
  Frees = {}
  MaxCalls = 1
INVARIANTS AllGetOne
CHECK_DEADLOCK FALSE
