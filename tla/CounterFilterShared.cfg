CONSTANTS
  w1 = w1
  w2 = w2
  s1 = s1
  s2 = s2
  s3 = s3
  s4 = s4
  Workers = {w1, w2}
  Streams = {s1, s2, s3, s4}
  WorkerOf <- MCWorkerOf
  Threshold = 1
  LateStart = TRUE
  AccessFails = TRUE
  ClientsAbort = TRUE
SPECIFICATION Spec
INVARIANTS TypeOK CountWithinTraffic
SYMMETRY Symmetry
CHECK_DEADLOCK FALSE
