----------------------------- MODULE RequestQueue -----------------------------
(***************************************************************************)
(* What the message counter filter promises a reader of its warnings: each *)
(* worker of a proxy keeps the set of requests that its workload has not   *)
(* answered yet, and an arrival raises an alarm exactly when it finds, or  *)
(* makes, that queue longer than the threshold.                            *)
(*                                                                         *)
(* There are no request identifiers, headers or callbacks here: a request  *)
(* is counted because it waits, whatever it carries.                       *)
(***************************************************************************)
EXTENDS Naturals, FiniteSets

CONSTANTS
  Workers,     \* the event loops of the proxy
  Streams,     \* the requests
  WorkerOf,    \* the worker each request is served by
  Threshold    \* the longest queue that is not congested

VARIABLES
  waiting,     \* waiting[w]: the unanswered requests of worker w
  alarmed      \* the requests whose arrival raised an alarm

vars == <<waiting, alarmed>>

Init ==
  /\ waiting = [w \in Workers |-> {}]
  /\ alarmed = {}

(* A request joins its worker's queue; the length it sees includes itself. *)
Arrive(s) ==
  LET w == WorkerOf[s] IN
  /\ s \notin waiting[w]
  /\ waiting' = [waiting EXCEPT ![w] = @ \cup {s}]
  /\ alarmed' = IF Cardinality(waiting'[w]) > Threshold
                THEN alarmed \cup {s} ELSE alarmed

(* A request leaves the queue when, and only when, it is answered. *)
Depart(s) ==
  LET w == WorkerOf[s] IN
  /\ s \in waiting[w]
  /\ waiting' = [waiting EXCEPT ![w] = @ \ {s}]
  /\ UNCHANGED alarmed

(* A proxy that restarts serves nobody. *)
Restart ==
  /\ waiting' = [w \in Workers |-> {}]
  /\ UNCHANGED alarmed

Next == Restart \/ \E s \in Streams : Arrive(s) \/ Depart(s)

Spec == Init /\ [][Next]_vars
================================================================================
