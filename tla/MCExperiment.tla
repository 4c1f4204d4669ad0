----------------------------- MODULE MCExperiment -----------------------------
(* An instance of Experiment for TLC: an invocation of two runs and one of  *)
(* a single run, in either order.                                           *)
EXTENDS Experiment

CONSTANTS d1, d2

MCRuns == [d \in Drivers |-> IF d = d1 THEN 2 ELSE 1]
===============================================================================
