SPECIFICATION Spec
CONSTANTS
  p1 = p1
  p2 = p2
  p3 = p3
  None = None
  Proc = {p1, p2, p3}
  Platform = {"posix", "windows"}
  Modes <- TwoCreators
  kMinSegmentSize = 1
  InitialSize = 2
  VirtualSize = 3
  MayFail = TRUE
  MayCrash = TRUE
  Cleaners = {p3}
  MaxStarts = 2
INVARIANTS HeapBeforeUse MappingInFile NothingLeft BuiltOnce
CHECK_DEADLOCK FALSE
