SPECIFICATION Spec
CONSTANTS
  t1 = t1
  t2 = t2
  a = a
  b = b
  c = c
  p = p
  q = q
  None = None
  Thread = {t1, t2}
  Of <- OneProcess
  Name = {a, b, c}
  Uses <- Shared
  Capacity <- Growing
  Padding = 1
  Allocates = {}
  Frees = {}
  MaxCalls = 3
INVARIANTS UniqueNames FindMissesNone
PROPERTIES CallsReturn
CHECK_DEADLOCK FALSE
