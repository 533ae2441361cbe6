SPECIFICATION Spec
CONSTANTS
  p1 = p1
  p2 = p2
  p3 = p3
  None = None
  Proc = {p1, p2}
  Platform = {"posix"}
  Modes <- CreateAndOpen
  kMinSegmentSize = 1
  InitialSize = 2
  VirtualSize = 3
  MayFail = FALSE
  MayCrash = FALSE
  Cleaners = {}
  MaxStarts = 2
INVARIANTS HeapAlways
CHECK_DEADLOCK FALSE
