CONSTANTS
  w1 = w1
  w2 = w2
  s1 = s1
  s2 = s2
  s3 = s3
  s4 = s4
  Workers = {w1, w2}
  Streams = {s1, s2, s3, s4}
  WorkerOf <- MCWorkerOf
  RequestIds = {a, b, c}
  NoId = NoId
  Threshold = 1
  EchoesId = FALSE
  ClientsAbort = TRUE
  ReusesIds = TRUE
SPECIFICATION Spec
INVARIANTS TypeOK NoOvercount QueueExact UnalarmedBounded GaugeNeverOverReports 
PROPERTIES NoUndercount AlarmJustified LostStaysCounted
SYMMETRY Symmetry
