SPECIFICATION Spec
CONSTANTS
  t1 = t1
  t2 = t2
  a = a
  b = b
  c = c
  p = p
  q = q
  None = None
  Thread = {t1}
  Of <- OneProcess
  Name = {a, b}
  Uses <- MakeAndDestroy
  Capacity <- Roomy
  Padding = 1
  Allocates = {b}
  Frees = {a}
  MaxCalls = 2
PROPERTIES CallsReturn
CHECK_DEADLOCK FALSE
