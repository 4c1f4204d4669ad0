---------------------------- MODULE MCQueueFilter ----------------------------
(* Instances of QueueFilter for TLC: a proxy with two workers. *)
EXTENDS QueueFilter, TLC

CONSTANTS w1, w2, s1, s2, s3, s4

(* Stream s4 is served by w2, and the others share w1, so that its queue    *)
(* can pass the threshold.                                                  *)
MCWorkerOf == [s \in Streams |-> IF s = s4 THEN w2 ELSE w1]

(* The streams of w1 are alike, and so are the ids. *)
Symmetry == Permutations({s1, s2, s3}) \cup Permutations(RequestIds)
================================================================================
