SPECIFICATION Spec
CONSTANTS
  p1 = p1
  p2 = p2
  None = None
  Proc = {p1, p2}
  Word = 32
  Size <- MCSize
  Base <- MCBase
  AnonSize = 6
  AnonBase <- MCAnonBase
  StackBase <- MCStackBase
  Cell <- MCCell
  Place <- MCPlace
INVARIANTS RefusalThrows
