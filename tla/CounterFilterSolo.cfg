CONSTANTS
  w1 = w1
  w2 = w2
  s1 = s1
  s2 = s2
  s3 = s3
  s4 = s4
  Workers = {w1}
  Streams = {s1, s2, s3, s4}
  WorkerOf <- SoloWorkerOf
  Threshold = 1
  LateStart = TRUE
  AccessFails = FALSE
  ClientsAbort = TRUE
SPECIFICATION Spec
INVARIANTS SoloExact
PROPERTIES KeepsPromise
CHECK_DEADLOCK FALSE
