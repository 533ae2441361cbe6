SPECIFICATION Spec
CONSTANTS
  t1 = t1
  t2 = t2
  a = a
  b = b
  c = c
  p = p
  q = q
  None = None
  Thread = {t1}
  Of <- OneProcess
  Name = {a, b}
  Uses <- Twice
  Capacity <- Growing
  Padding = 1
  Allocates = {}
  Frees = {}
  MaxCalls = 2
INVARIANTS OneObject
CHECK_DEADLOCK FALSE
