CONSTANTS
  NumRequests = 6
  MaxThreads = 3
SPECIFICATION FairSpec
INVARIANTS TypeOK LeftOutAfterRaise NoGaps AwaitsTheLiving
PROPERTIES EveryStepCounts BurstEnds KeepsPromise
CHECK_DEADLOCK FALSE
