CONSTANTS
  Records = {r1}
  Writers = {w1}
  Closers = {k1, k2}
  MaxQueue = 2
  Stop = Stop
  None = None
SPECIFICATION FairSpec
PROPERTY FlushReturns
CHECK_DEADLOCK FALSE
