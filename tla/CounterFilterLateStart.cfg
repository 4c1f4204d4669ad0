CONSTANTS
  w1 = w1
  w2 = w2
  s1 = s1
  s2 = s2
  s3 = s3
  s4 = s4
  Workers = {w1, w2}
  Streams = {s1, s2, s3, s4}
  WorkerOf <- MCWorkerOf
  Threshold = 1
  LateStart = TRUE
  AccessFails = FALSE
  ClientsAbort = FALSE
SPECIFICATION Spec
INVARIANTS CounterTracksQueue
CHECK_DEADLOCK FALSE
