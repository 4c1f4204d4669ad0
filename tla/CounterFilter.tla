----------------------------- MODULE CounterFilter -----------------------------
(***************************************************************************)
(* The message counter filter built with COUNTER (message_counter/filter.cc*)
(* lines 11, 230-232 and 284-286): instead of a set per worker, one counter *)
(* that all the workers of the proxy keep in the host's shared data under   *)
(* the key "count".                                                         *)
(*                                                                         *)
(* A worker runs one callback at a time, but the accesses a callback makes *)
(* to the shared data are separate host calls, and no compare-and-swap     *)
(* token is passed to them: each access is a step, and the steps of        *)
(* different workers interleave.  Streams are the inbound ones: those of   *)
(* other directions do not touch the counter.                              *)
(***************************************************************************)
EXTENDS Integers, FiniteSets

CONSTANTS
  Workers,      \* the worker threads of the proxy
  Streams,      \* the inbound HTTP streams
  WorkerOf,     \* the worker that serves each stream
  Threshold,    \* REQUEST_THRESHOLD
  LateStart,    \* a worker may start after others have begun to serve
  AccessFails,  \* the host may refuse the uninitialized size pointer
  ClientsAbort  \* a stream may be reset before its response

ASSUME CounterFilterAssumption ==
  /\ IsFiniteSet(Workers)
  /\ IsFiniteSet(Streams)
  /\ WorkerOf \in [Streams -> Workers]
  /\ Threshold \in Nat
  /\ LateStart \in BOOLEAN
  /\ AccessFails \in BOOLEAN
  /\ ClientsAbort \in BOOLEAN

VARIABLES
  started,  \* the workers whose BidiRootContext exists
  phase,    \* how far each stream has got through the filter's callbacks
  count,    \* the shared value of the key "count"
  pc,       \* the host call each worker makes next
  cur,      \* the stream whose callback the worker is or was last in
  tmp,      \* *tmp_count: the worker's copy of the counter
  gauge,    \* the value of the metric queue_gauge
  warned    \* the streams whose request called store_warning

vars == <<started, phase, count, pc, cur, tmp, gauge, warned>>

Phases == {"new", "waiting", "answered", "aborted"}

Steps == {"idle", "increment", "check", "decrement", "record"}

Init ==
  /\ started = IF LateStart THEN {} ELSE Workers
  /\ phase = [s \in Streams |-> "new"]
  /\ count = 0
  /\ pc = [w \in Workers |-> "idle"]
  /\ cur \in [Workers -> Streams]
  /\ tmp = [w \in Workers |-> 0]
  /\ gauge = 0
  /\ warned = {}

--------------------------------------------------------------------------------

(* The constructor of a worker's root context writes a zero. *)
Start(w) ==
  /\ w \notin started
  /\ started' = started \cup {w}
  /\ count' = 0
  /\ UNCHANGED <<phase, pc, cur, tmp, gauge, warned>>

(* proxy_get_shared_data copies the value for the worker, and the callback  *)
(* goes on to step "ok"; when it fails the counter is left alone, and the   *)
(* callback goes on to step "failed".                                       *)
Fetch(w, ok, failed) ==
  \/ /\ pc' = [pc EXCEPT ![w] = ok]
     /\ tmp' = [tmp EXCEPT ![w] = count]
  \/ /\ AccessFails
     /\ pc' = [pc EXCEPT ![w] = failed]
     /\ UNCHANGED tmp

(* getCount: the value, or -1 when it cannot be had. *)
Counts == {count} \cup (IF AccessFails THEN {-1} ELSE {})

OtherContext(s) ==                       \* mutant: the context is not switched
  LET w == WorkerOf[s] IN
  /\ w \in started /\ pc[w] = "idle"
  /\ phase[s] = "new"
  /\ phase' = [phase EXCEPT ![s] = "waiting"]
  /\ Fetch(w, "increment", "check")
  /\ UNCHANGED <<started, count, cur, gauge, warned>>

(* onRequestHeadersInbound begins incrementCount. *)
OnRequest(s) ==
  LET w == WorkerOf[s] IN
  /\ w \in started /\ pc[w] = "idle"
  /\ phase[s] = "new"
  /\ phase' = [phase EXCEPT ![s] = "waiting"]
  /\ cur' = [cur EXCEPT ![w] = s]
  /\ Fetch(w, "increment", "check")
  /\ UNCHANGED <<started, count, gauge, warned>>

IncrementTwice(w) ==                     \* mutant: by both callbacks
  /\ pc[w] = "increment"
  /\ count' = tmp[w] + 2
  /\ pc' = [pc EXCEPT ![w] = "check"]
  /\ UNCHANGED <<started, phase, cur, tmp, gauge, warned>>

(* The worker writes its copy plus one, whatever the counter is by now. *)
Increment(w) ==
  /\ pc[w] = "increment"
  /\ count' = tmp[w] + 1
  /\ pc' = [pc EXCEPT ![w] = "check"]
  /\ UNCHANGED <<started, phase, cur, tmp, gauge, warned>>

(* onRequestHeadersInbound ends: the counter is read again and compared.    *)
AtThreshold(n) == n >= Threshold         \* mutant: off by one
AboveThreshold(n) == n > Threshold

Check(w) ==
  /\ pc[w] = "check"
  /\ \E n \in Counts :
       warned' = IF AboveThreshold(n) THEN warned \cup {cur[w]} ELSE warned
  /\ pc' = [pc EXCEPT ![w] = "idle"]
  /\ UNCHANGED <<started, phase, count, cur, tmp, gauge>>

(* onResponseHeadersInbound begins decrementCount. *)
OnResponse(s) ==
  LET w == WorkerOf[s] IN
  /\ pc[w] = "idle"
  /\ phase[s] = "waiting"
  /\ phase' = [phase EXCEPT ![s] = "answered"]
  /\ cur' = [cur EXCEPT ![w] = s]
  /\ Fetch(w, "decrement", "record")
  /\ UNCHANGED <<started, count, gauge, warned>>

NoDecrement(w) ==                        \* mutant: the copy is written back
  /\ pc[w] = "decrement"
  /\ count' = tmp[w]
  /\ pc' = [pc EXCEPT ![w] = "record"]
  /\ UNCHANGED <<started, phase, cur, tmp, gauge, warned>>

Decrement(w) ==
  /\ pc[w] = "decrement"
  /\ count' = tmp[w] - 1
  /\ pc' = [pc EXCEPT ![w] = "record"]
  /\ UNCHANGED <<started, phase, cur, tmp, gauge, warned>>

(* onResponseHeadersInbound ends: the counter is read again and recorded.   *)
Record(w) ==
  /\ pc[w] = "record"
  /\ gauge' \in Counts
  /\ pc' = [pc EXCEPT ![w] = "idle"]
  /\ UNCHANGED <<started, phase, count, cur, tmp, warned>>

(* A reset stream is never subtracted: onDone, onLog and onDelete do not    *)
(* touch the counter.                                                       *)
Abort(s) ==
  /\ ClientsAbort
  /\ pc[WorkerOf[s]] = "idle"
  /\ phase[s] = "waiting"
  /\ phase' = [phase EXCEPT ![s] = "aborted"]
  /\ UNCHANGED <<started, count, pc, cur, tmp, gauge, warned>>

Next ==
  \/ \E w \in Workers :
       Start(w) \/ Increment(w) \/ Check(w) \/ Decrement(w) \/ Record(w)
  \/ \E s \in Streams : OnRequest(s) \/ OnResponse(s) \/ Abort(s)

Spec == Init /\ [][Next]_vars

--------------------------------------------------------------------------------

In(p) == {s \in Streams : phase[s] = p}

Requests == Streams \ In("new")

TypeOK ==
  /\ started \in SUBSET Workers
  /\ phase \in [Streams -> Phases]
  /\ count \in Int
  /\ pc \in [Workers -> Steps]
  /\ cur \in [Workers -> Streams]
  /\ tmp \in [Workers -> Int]
  /\ gauge \in Int
  /\ warned \in SUBSET Requests

(* However many updates are lost or fail, and whenever workers start, the   *)
(* counter never exceeds the requests that came in nor falls below minus    *)
(* the responses that went out (filter.cc:63-101).                          *)
CountWithinTraffic ==
  /\ count <= Cardinality(Requests)
  /\ count >= -Cardinality(In("answered"))

(* A proxy with one worker, whose accesses succeed, has in its counter the  *)
(* requests that wait or were reset (filter.cc:75-78, 94-97).               *)
SoloExact ==
  Cardinality(Workers) = 1 /\ ~AccessFails =>
    \A w \in Workers : pc[w] = "idle" =>
      count = Cardinality(In("waiting")) + Cardinality(In("aborted"))

(* The counter does what the queue it replaces does ("toggle to enable      *)
(* counter over queue tracking", filter.cc:11): between callbacks it is the *)
(* number of requests that wait.                                            *)
CounterTracksQueue ==
  (\A w \in Workers : pc[w] = "idle") => count = Cardinality(In("waiting"))

--------------------------------------------------------------------------------

(* What the filter promises, for one worker and ~AccessFails.  A request    *)
(* arrives when its callback ends and departs when the callback of its      *)
(* response begins; one that is reset is never answered, and never departs. *)
Arriving(w) ==
  IF pc[w] \in {"increment", "check"} THEN {cur[w]} ELSE {}

Promise ==
  INSTANCE RequestQueue
    WITH waiting <- [w \in Workers |->
                       {s \in In("waiting") \cup In("aborted") : WorkerOf[s] = w}
                         \ Arriving(w)],
         alarmed <- warned

(* One worker with a counter keeps the promise the queues keep, but for     *)
(* requests that are reset (filter.cc:230-232, 284-286).                    *)
KeepsPromise == Promise!Spec
================================================================================
