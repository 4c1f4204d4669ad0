------------------------------ MODULE QueueFilter ------------------------------
(***************************************************************************)
(* The message counter filter (message_counter/filter.cc) as it is built   *)
(* by default, with queue tracking: one sidecar proxy of one workload.     *)
(*                                                                         *)
(* The proxy runs one copy of the filter, with one BidiRootContext and so  *)
(* one pending_requests set, in each of its workers.  A stream context     *)
(* lives in the worker that serves its connection, and a worker runs one   *)
(* callback at a time, so each callback is one step; the steps of          *)
(* different workers interleave.  The gauge is the only state of the       *)
(* filter that workers share.                                              *)
(*                                                                         *)
(* What the surroundings may do is chosen by three constants, so that the  *)
(* properties can say which of them depend on it.                          *)
(***************************************************************************)
EXTENDS Naturals, FiniteSets

CONSTANTS
  Workers,       \* the worker threads of the proxy
  Streams,       \* the HTTP streams it serves, each with its own BidiContext
  WorkerOf,      \* the worker that serves each stream, for all its life
  RequestIds,    \* values of the x-request-id header
  NoId,          \* the header is absent
  Threshold,     \* REQUEST_THRESHOLD
  EchoesId,      \* every response carries the id of its request
  ClientsAbort,  \* a stream may be reset before its response
  ReusesIds      \* two inbound requests of a worker may carry the same id

ASSUME QueueFilterAssumption ==
  /\ Workers # {}
  /\ IsFiniteSet(Streams)
  /\ WorkerOf \in [Streams -> Workers]
  /\ NoId \notin RequestIds
  /\ Threshold \in Nat
  /\ EchoesId \in BOOLEAN
  /\ ClientsAbort \in BOOLEAN
  /\ ReusesIds \in BOOLEAN

VARIABLES
  phase,      \* how far each stream has got through the filter's callbacks
  direction,  \* BidiContext::direction_
  reqId,      \* the x-request-id each stream's request came with
  pending,    \* BidiRootContext::pending_requests of each worker
  gauge,      \* the value of the metric queue_gauge
  call,       \* the fate of the call store_warning made for each stream
  stopped,    \* workers whose copy of the filter was ended by a trap
  lost        \* history: inbound requests that ended without being erased

vars == <<phase, direction, reqId, pending, gauge, call, stopped, lost>>

Phases == {"new", "waiting", "answered", "deleted"}

Directions == {"unspecified", "inbound", "outbound"}

(* "none": no warning; "refused": httpCall did not return Ok; "out": sent,  *)
(* and the callback has not run; "over": it has, or was cancelled.          *)
CallStates == {"none", "refused", "out", "over"}

--------------------------------------------------------------------------------

Init ==
  /\ phase = [s \in Streams |-> "new"]
  /\ direction = [s \in Streams |-> "unspecified"]
  /\ reqId = [s \in Streams |-> NoId]
  /\ pending = [w \in Workers |-> {}]
  /\ gauge = 0
  /\ call = [s \in Streams |-> "none"]
  /\ stopped = {}
  /\ lost = {}

(* Ids an inbound request of s may carry: unless they are reused, none that *)
(* an inbound request of the same worker came with before.                  *)
IdsFor(s, dir) ==
  IF ReusesIds \/ dir # "inbound"
  THEN RequestIds \cup {NoId}
  ELSE {id \in RequestIds \cup {NoId} :
          \A t \in Streams : direction[t] = "inbound" /\ WorkerOf[t] = WorkerOf[s]
                               => reqId[t] # id \/ id = NoId}

(* The x-request-id a response of s may carry: the route configuration that *)
(* copies it from the request may be missing, and no service sets it.       *)
ResponseIds(s) == IF EchoesId THEN {reqId[s]} ELSE {reqId[s], NoId}

(* The request or response came with the header (filter.cc:235, 289). *)
AnyId(id) == TRUE                        \* mutant: the test is missing
HasId(id) == id # NoId

(* The worker has too many requests pending. *)
AtThreshold(queue) == Cardinality(queue) >= Threshold         \* mutant: off by one
CrossesThreshold(queue) == Cardinality(queue) = Threshold + 1 \* mutant: only once
AboveThreshold(queue) == Cardinality(queue) > Threshold

(* What a response with this id leaves in its worker's set, and the size   *)
(* the gauge is given.                                                     *)
NotErased(w, id) == pending[w]           \* mutant: the erase is missing
Erased(w, id) == pending[w] \ {id}

SizeBefore(w, id) == Cardinality(pending[w])  \* mutant: recorded before erasing
Recorded(w, id) == Cardinality(Erased(w, id))

(* Only inbound streams touch the root context's set on their response. *)
AnyDirection(s) == TRUE                  \* mutant: outbound ones do too
IsInbound(s) == direction[s] = "inbound"

--------------------------------------------------------------------------------

(* store_warning: the caller ignores whether the call could be made. *)
StoreWarning(s) ==
  \E outcome \in {"out", "refused"} : call' = [call EXCEPT ![s] = outcome]

(* onRequestHeadersInbound: the request is counted under its id, and stored *)
(* as a warning when it finds the queue above the threshold.                *)
OnRequestHeadersInbound(s, id) ==
  LET w == WorkerOf[s]
      queue == pending[w] \cup {id}
  IN \/ ~HasId(id) /\ UNCHANGED <<pending, call>>
     \/ /\ HasId(id)
        /\ pending' = [pending EXCEPT ![w] = queue]
        /\ \/ AboveThreshold(queue) /\ StoreWarning(s)
           \/ ~AboveThreshold(queue) /\ UNCHANGED call

(* The filter sees the streams of this worker: after a trap the proxy       *)
(* refuses them, or lets them pass it by.                                   *)
Runs(s) == WorkerOf[s] \notin stopped

(* The context of a stream is created with the direction of its listener,   *)
(* and sees its request headers.                                            *)
OnRequestHeaders(s, dir, id) ==
  /\ Runs(s)
  /\ phase[s] = "new"
  /\ id \in IdsFor(s, dir)
  /\ phase' = [phase EXCEPT ![s] = "waiting"]
  /\ direction' = [direction EXCEPT ![s] = dir]
  /\ reqId' = [reqId EXCEPT ![s] = id]
  /\ \/ dir = "inbound" /\ OnRequestHeadersInbound(s, id)
     \/ dir # "inbound" /\ UNCHANGED <<pending, call>>
  /\ UNCHANGED <<gauge, stopped, lost>>

(* onResponseHeadersInbound: the id the response carries is erased, and the *)
(* size that leaves is recorded; a response without one changes nothing.    *)
OnResponseHeadersInbound(s, id) ==
  LET w == WorkerOf[s] IN
  \/ /\ HasId(id)
     /\ pending' = [pending EXCEPT ![w] = Erased(w, id)]
     /\ gauge' = Recorded(w, id)
     /\ UNCHANGED lost
  \/ /\ ~HasId(id)
     /\ lost' = IF reqId[s] = NoId THEN lost ELSE lost \cup {s}
     /\ UNCHANGED <<pending, gauge>>

OnResponseHeaders(s) ==
  /\ Runs(s)
  /\ phase[s] = "waiting"
  /\ phase' = [phase EXCEPT ![s] = "answered"]
  /\ \/ /\ IsInbound(s)
        /\ \E id \in ResponseIds(s) : OnResponseHeadersInbound(s, id)
     \/ /\ ~IsInbound(s)
        /\ UNCHANGED <<pending, gauge, lost>>
  /\ UNCHANGED <<direction, reqId, call, stopped>>

(* onDone, onLog and onDelete leave the root context alone: the request of  *)
(* a stream that is reset before its response stays counted.                *)
Ends(s) ==
  /\ Runs(s)
  /\ \/ phase[s] = "answered" /\ UNCHANGED lost
     \/ /\ phase[s] = "waiting"
        /\ ClientsAbort
        /\ lost' = IF direction[s] = "inbound" /\ reqId[s] # NoId
                   THEN lost \cup {s} ELSE lost
  /\ phase' = [phase EXCEPT ![s] = "deleted"]
  /\ UNCHANGED <<direction, reqId, gauge, call, stopped>>

EraseOnDelete(s) ==                      \* mutant: a reset erases the id, too
  /\ Ends(s)
  /\ pending' = [pending EXCEPT ![WorkerOf[s]] =
                   IF IsInbound(s) THEN @ \ {reqId[s]} ELSE @]

OnDelete(s) == Ends(s) /\ UNCHANGED pending

(* The callback of a call logs what was answered, if anything.  It runs in  *)
(* the root context, which it leaves by looking up the context of the       *)
(* stream it captured by id, unchecked.                                     *)
EndCall(s) ==
  /\ call' = [call EXCEPT ![s] = "over"]
  /\ UNCHANGED stopped

(* That of a deleted stream is a null pointer.  Using it is undefined: it   *)
(* may pass unnoticed, or trap, which ends the virtual machine the worker's *)
(* filter runs in, with the calls that are out.                             *)
UseNullContext(s) ==
  \/ EndCall(s)
  \/ /\ stopped' = stopped \cup {WorkerOf[s]}
     /\ call' = [t \in Streams |-> IF WorkerOf[t] = WorkerOf[s] /\ call[t] = "out"
                                  THEN "over" ELSE call[t]]

Callback(s) ==
  /\ call[s] = "out"
  /\ \/ phase[s] # "deleted" /\ EndCall(s)
     \/ phase[s] = "deleted" /\ UseNullContext(s)
  /\ UNCHANGED <<phase, direction, reqId, pending, gauge, lost>>

(* The deployment is restarted: streams are cut off, calls are cancelled,   *)
(* and the new proxy starts with empty sets and a zero gauge.               *)
CutOff ==
  /\ phase' = [s \in Streams |-> IF phase[s] = "new" THEN "new" ELSE "deleted"]
  /\ call' = [s \in Streams |-> IF call[s] = "out" THEN "over" ELSE call[s]]
  /\ gauge' = 0
  /\ stopped' = {}
  /\ lost' = {}
  /\ UNCHANGED <<direction, reqId>>

RestartKeepsSets == CutOff /\ UNCHANGED pending  \* mutant: the sets survive

Restart == CutOff /\ pending' = [w \in Workers |-> {}]

Next ==
  \/ Restart
  \/ \E s \in Streams :
       \/ \E dir \in Directions, id \in RequestIds \cup {NoId} :
            OnRequestHeaders(s, dir, id)
       \/ OnResponseHeaders(s)
       \/ OnDelete(s)
       \/ Callback(s)

Spec == Init /\ [][Next]_vars

(* The workload answers every request that its filter lets through.  When a *)
(* call is answered, streams reset or a proxy restarted is left open.       *)
Fairness == \A s \in Streams : WF_vars(OnResponseHeaders(s))

FairSpec == Spec /\ Fairness

--------------------------------------------------------------------------------

TypeOK ==
  /\ phase \in [Streams -> Phases]
  /\ direction \in [Streams -> Directions]
  /\ reqId \in [Streams -> RequestIds \cup {NoId}]
  /\ pending \in [Workers -> SUBSET RequestIds]
  /\ gauge \in Nat
  /\ call \in [Streams -> CallStates]
  /\ stopped \in SUBSET Workers
  /\ lost \in SUBSET Streams

(* The requests a perfect queue of worker w would hold: inbound, with an    *)
(* id, and not answered.                                                    *)
Waiting(w) ==
  {s \in Streams : /\ WorkerOf[s] = w
                   /\ direction[s] = "inbound"
                   /\ reqId[s] # NoId
                   /\ phase[s] = "waiting"}

(* The requests the filter has reason to count. *)
Counted(w) == Waiting(w) \cup {s \in lost : WorkerOf[s] = w}

(* A request that waits is counted, from its arrival until another request  *)
(* that waits in the same worker under the same id is answered with that    *)
(* id: outbound streams, other workers, resets and lost requests never make *)
(* the queue look shorter than it is (filter.cc:242, 295, 346-360).         *)
NoUndercount ==
  [][\A w \in Workers : \A s \in Waiting(w)' :
       \/ reqId'[s] \in pending'[w]
       \/ s \in Waiting(w) /\ reqId[s] \notin pending[w]
       \/ \E t \in Waiting(w) \ {s} : /\ reqId[t] = reqId'[s]
                                      /\ phase'[t] = "answered"
                                      /\ t \notin lost']_vars

(* Every id in the set is that of a request of this worker that waits, or   *)
(* that ended without a response carrying its id; nothing else inflates the *)
(* queue (filter.cc:234-242, 288-295).                                      *)
NoOvercount ==
  \A w \in Workers : pending[w] \subseteq {reqId[s] : s \in Counted(w)}

(* No two inbound requests of worker w have come with one id so far. *)
NoRepeats(w) ==
  \A s, t \in Streams :
    /\ s # t
    /\ WorkerOf[s] = w /\ direction[s] = "inbound" /\ reqId[s] # NoId
    /\ WorkerOf[t] = w /\ direction[t] = "inbound"
    => reqId[s] # reqId[t]

(* As long as a worker sees no id twice, the size the filter compares to    *)
(* its threshold is the number of requests that wait or were lost           *)
(* (filter.cc:243, 296).                                                    *)
QueueExact ==
  \A w \in Workers :
    NoRepeats(w) => Cardinality(pending[w]) = Cardinality(Counted(w))

(* As long as a worker sees no id twice, it has no more than Threshold      *)
(* requests waiting that did not raise a warning: its congestion is noticed *)
(* whatever was lost or reset before (filter.cc:247-251).                   *)
UnalarmedBounded ==
  \A w \in Workers :
    NoRepeats(w) =>
      Cardinality({s \in Waiting(w) : call[s] = "none"}) <= Threshold

(* The gauge, which every worker overwrites and only responses update,      *)
(* never shows more than the longest queue of the proxy (filter.cc:245,     *)
(* 299).                                                                    *)
GaugeNeverOverReports ==
  \E w \in Workers : gauge <= Cardinality(pending[w])

(* A warning is stored only by a worker that has more than Threshold        *)
(* requests to account for (filter.cc:247-250).                             *)
AlarmJustified ==
  [][\A s \in Streams :
       call[s] = "none" /\ call'[s] # "none"
         => Cardinality(Counted(WorkerOf[s])') > Threshold]_vars

(* A request that was lost stays counted until a restart, or until an       *)
(* inbound request of the same worker with the same id is answered          *)
(* (filter.cc:295, 346-360).                                                *)
LostStaysCounted ==
  [][\A s \in lost \cap lost' :
       LET w == WorkerOf[s] IN
       reqId[s] \in pending[w] /\ reqId[s] \notin pending'[w]
         => \E t \in Streams \ {s} : /\ t \in Waiting(w)
                                     /\ reqId[t] = reqId[s]
                                     /\ phase'[t] = "answered"]_vars

(* However late callbacks come and whatever was reset, the filter of a      *)
(* worker is only ended by a trap after more than Threshold inbound         *)
(* requests: the unchecked context never harms a worker that was not        *)
(* overloaded (filter.cc:167-172, 247-251).                                 *)
StopsOnlyOverloaded ==
  \A w \in stopped : Cardinality({s \in Streams : /\ WorkerOf[s] = w
                                                 /\ direction[s] = "inbound"
                                                 /\ reqId[s] # NoId}) > Threshold

(* Once the traffic stops, the queues of the workers whose filter still     *)
(* runs hold nothing but lost requests (filter.cc:295).                     *)
QueuesDrain ==
  <>[](\A w \in Workers \ stopped : pending[w] \subseteq {reqId[s] : s \in lost})

--------------------------------------------------------------------------------

(* What the filter promises, for EchoesId, ~ClientsAbort and ~ReusesIds: its *)
(* sets of ids are as good as the queues of waiting requests themselves.    *)
Promise ==
  INSTANCE RequestQueue
    WITH waiting <- [w \in Workers |-> Waiting(w)],
         alarmed <- {s \in Streams : call[s] # "none"}

(* Every step of the filter arrives, answers or restarts a queue, and warns *)
(* exactly when an arrival makes its worker's queue longer than the         *)
(* threshold (filter.cc:227-253, 281-302).                                  *)
KeepsPromise == Promise!Spec
================================================================================
