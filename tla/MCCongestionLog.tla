---------------------------- MODULE MCCongestionLog ----------------------------
(* Instances of CongestionLog for TLC: the services that call reviews, and  *)
(* two versions of it, which the GCP logs are read of.                      *)
EXTENDS CongestionLog

CONSTANTS product, v2, v3

Symmetry == Permutations({v2, v3})
================================================================================
