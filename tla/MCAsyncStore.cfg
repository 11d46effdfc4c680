CONSTANTS
  Records = {r1, r2}
  Writers = {w1, w2}
  Closers = {k1, k2}
  MaxQueue = 2
  Stop = Stop
  None = None
SPECIFICATION HangingSpec
INVARIANTS TypeOK RecordsAccounted ReadYourWrites NoWriteAfterClose
PROPERTIES CloseReturns StopEndsWorker
CHECK_DEADLOCK FALSE
