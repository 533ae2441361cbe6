SPECIFICATION FairSpec
CONSTANTS
  Managers = {m1, m2}
  None = None
  MaxQueue = 3
INVARIANTS NoGrowAfterUnregister NoDanglingHint ThreadLifetime
PROPERTIES HintTaken SpinEnds HintReturns ExitReturns Implements
