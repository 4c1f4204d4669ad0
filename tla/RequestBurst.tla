----------------------------- MODULE RequestBurst -----------------------------
(***************************************************************************)
(* What a burst of requests promises: every request is issued, at most     *)
(* once, no more than Width of them are under way at a time, and the burst *)
(* is over only when none is.  Only a burst that broke, because a request  *)
(* failed or no thread could be had, may be over before it issued all.     *)
(***************************************************************************)
EXTENDS Naturals, FiniteSets

CONSTANTS
  Requests,    \* the requests of the burst
  Width        \* how many may be under way at a time

VARIABLES
  issued,      \* the requests that have begun
  active,      \* those of them that are under way
  broken,      \* something went wrong
  over         \* the burst is over

vars == <<issued, active, broken, over>>

Init == issued = {} /\ active = {} /\ broken = FALSE /\ over = FALSE

Issue(r) ==
  /\ ~over
  /\ r \notin issued
  /\ issued' = issued \cup {r}
  /\ active' = active \cup {r}
  /\ Cardinality(active') <= Width
  /\ UNCHANGED <<broken, over>>

Complete(r) ==
  /\ r \in active
  /\ active' = active \ {r}
  /\ broken' \in {broken, TRUE}
  /\ UNCHANGED <<issued, over>>

Break == broken' = TRUE /\ UNCHANGED <<issued, active, over>>

Finish ==
  /\ active = {}
  /\ issued = Requests \/ broken
  /\ over' = TRUE
  /\ UNCHANGED <<issued, active, broken>>

Next == Break \/ Finish \/ \E r \in Requests : Issue(r) \/ Complete(r)

Spec == Init /\ [][Next]_vars
===============================================================================
