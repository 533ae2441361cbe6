SPECIFICATION Spec
CONSTANTS
  t1 = t1
  t2 = t2
  a = a
  b = b
  c = c
  p = p
  q = q
  None = None
  Thread = {t1, t2}
  Of <- TwoProcesses
  Name = {a, b}
  Uses <- MakeAndFind
  Capacity <- Growing
  Padding = 1
  Allocates = {}
  Frees = {}
  MaxCalls = 2
INVARIANTS FindMissesNone
CHECK_DEADLOCK FALSE
