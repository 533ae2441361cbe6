SPECIFICATION Spec
CONSTANTS
  Threads = {t1, t2}
  Pages = {1, 2, 3}
  Ptr = {s1, s2, s3}
  MaxSize = 2
  kSize = 2
  kFanOut = 2
  OomMayHappen = FALSE
  ReusePtr = TRUE
  Null = Null
SYMMETRY Symmetry
INVARIANTS LookupSound
CHECK_DEADLOCK FALSE
