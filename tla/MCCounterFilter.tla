---------------------------- MODULE MCCounterFilter ----------------------------
(* Instances of CounterFilter for TLC: streams s1 and s2 on one worker, s3  *)
(* and s4 on another, which in the run with one worker is the same.         *)
EXTENDS CounterFilter, TLC

CONSTANTS w1, w2, s1, s2, s3, s4

MCWorkerOf == [s \in Streams |-> IF s \in {s1, s2} THEN w1 ELSE w2]

SoloWorkerOf == [s \in Streams |-> w1]

Symmetry ==
  Permutations({s1, s2}) \cup Permutations({s3, s4})
================================================================================
