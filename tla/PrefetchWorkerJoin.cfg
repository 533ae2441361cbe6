SPECIFICATION FairSpec
CONSTANTS
  Managers = {m1}
  None = None
  MaxQueue = 2
PROPERTY DtorReturns
