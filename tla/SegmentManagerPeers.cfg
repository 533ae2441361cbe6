SPECIFICATION FairSpec
CONSTANTS
  None = None
  p1 = p1
  p2 = p2
  t1 = t1
  t2 = t2
  t3 = t3
  Creator = p1
  AppProc <- Placement
  Proc = {p1, p2}
  App = {t1, t2, t3}
  Kinds = {"anon", "linked"}
  Allocators = {t1, t2, t3}
  MayKill = {p1}
  MayClose = {}
  kMinSegmentSize = 2
  InitialSize = 2
  PageSize = 1
  Header = 1
  Sizes = {3}
  Counts = {}
  SizeofT = 2
  Word = 64
  kMaxSubSegments = 3
  Limit = 7
  MapMayFail = TRUE
  MaxCalls <- Calls12
PROPERTIES AllReturn
