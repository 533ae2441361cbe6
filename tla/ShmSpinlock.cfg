SPECIFICATION Spec
CONSTANTS
  Thread = {t1, t2, t3}
  Block = {b1, b2}
  MayDie = {t1, t2}
  Nobody = Nobody
INVARIANTS MutualExclusion HeapWhole
PROPERTIES Implements SomeoneServed
