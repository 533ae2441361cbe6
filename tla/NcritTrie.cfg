SPECIFICATION Spec
CONSTANTS
  Threads = {t1, t2}
  Pages = {0, 1, 4}
  Values = {s1, s2}
  Node = {root, n1, n2, n3, n4, n5}
  Root = root
  kFanOut = 2
  Levels = 3
  OomMayHappen = TRUE
  Null = Null
SYMMETRY Symmetry
INVARIANTS NoUseAfterDelete OwnedOnce DestroyFreesAll
PROPERTIES Implements LeafSlotsStay
CHECK_DEADLOCK FALSE
