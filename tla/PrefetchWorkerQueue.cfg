SPECIFICATION Spec
CONSTANTS
  Managers = {m1, m2}
  None = None
  MaxQueue = 3
INVARIANTS QueuedOnce
