SPECIFICATION Spec
CONSTANTS
  None = None
  p1 = p1
  p2 = p2
  t1 = t1
  t2 = t2
  t3 = t3
  Creator = p1
  AppProc <- Placement
  Proc = {p1, p2}
  App = {t1, t2}
  Kinds = {"linked"}
  Allocators = {t1}
  MayKill = {}
  MayClose = {p1}
  kMinSegmentSize = 2
  InitialSize = 2
  PageSize = 1
  Header = 1
  Sizes = {1, 2}
  Counts = {}
  SizeofT = 2
  Word = 64
  kMaxSubSegments = 3
  Limit = 14
  MapMayFail = FALSE
  MaxCalls <- Calls3
INVARIANTS GetSurvives
