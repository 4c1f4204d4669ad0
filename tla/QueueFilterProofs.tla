--------------------------- MODULE QueueFilterProofs ---------------------------
(* Theorems of QueueFilter, for every number of workers, streams and ids,   *)
(* every threshold, and every choice of what the surroundings may do.       *)
EXTENDS QueueFilter, FiniteSetTheorems, TLAPS

(* A set of pending requests never becomes infinite: it grows by one id at  *)
(* a time.                                                                  *)
FiniteQueues == \A w \in Workers : IsFiniteSet(pending[w])

(* Only an inbound request that came with an id, and whose stream is past   *)
(* its response or deleted, can be lost.                                    *)
LostIsOver ==
  \A s \in lost : /\ phase[s] \in {"answered", "deleted"}
                  /\ direction[s] = "inbound"
                  /\ reqId[s] # NoId

(* A stream has no direction before its request. *)
NewIsUndirected ==
  \A s \in Streams : phase[s] = "new" => direction[s] = "unspecified"

(* The invariant the proofs below are built on. *)
Shape == TypeOK /\ FiniteQueues /\ LostIsOver /\ NewIsUndirected

LEMMA InitShape == Init => Shape
<1> SUFFICES ASSUME Init PROVE Shape
  OBVIOUS
<1>1. TypeOK
  BY QueueFilterAssumption DEF Init, TypeOK, Phases, Directions, CallStates
<1>2. FiniteQueues
  BY FS_EmptySet DEF Init, FiniteQueues
<1>3. LostIsOver
  BY DEF Init, LostIsOver
<1>4. NewIsUndirected
  BY DEF Init, NewIsUndirected
<1> QED
  BY <1>1, <1>2, <1>3, <1>4 DEF Shape

(* What a request leaves in its worker's set, and in the others. *)
LEMMA RequestEffect ==
  ASSUME Shape, NEW s \in Streams, NEW dir \in Directions,
         NEW id \in RequestIds \cup {NoId}, OnRequestHeaders(s, dir, id)
  PROVE  LET w == WorkerOf[s] IN
         /\ w \in Workers
         /\ pending' \in [Workers -> SUBSET RequestIds]
         /\ \A v \in Workers \ {w} : pending'[v] = pending[v]
         /\ IF dir = "inbound" /\ id # NoId
            THEN pending'[w] = pending[w] \cup {id}
            ELSE pending'[w] = pending[w]
<1>1. WorkerOf[s] \in Workers
  BY QueueFilterAssumption
<1>2. pending \in [Workers -> SUBSET RequestIds]
  BY DEF Shape, TypeOK
<1>3. CASE dir = "inbound" /\ id # NoId
  <2>1. pending' = [pending EXCEPT ![WorkerOf[s]] = pending[WorkerOf[s]] \cup {id}]
    BY <1>3 DEF OnRequestHeaders, OnRequestHeadersInbound, HasId
  <2> QED
    BY <1>1, <1>2, <1>3, <2>1
<1>4. CASE ~(dir = "inbound" /\ id # NoId)
  <2>1. pending' = pending
    BY <1>4 DEF OnRequestHeaders, OnRequestHeadersInbound, HasId
  <2> QED
    BY <1>1, <1>2, <1>4, <2>1
<1> QED
  BY <1>3, <1>4

(* What a response leaves in its worker's set, and in the others. *)
LEMMA ResponseEffect ==
  ASSUME Shape, NEW s \in Streams, OnResponseHeaders(s)
  PROVE  LET w == WorkerOf[s] IN
         /\ w \in Workers
         /\ \A v \in Workers \ {w} : pending'[v] = pending[v]
         /\ \/ /\ direction[s] = "inbound" /\ reqId[s] # NoId
               /\ pending' = [pending EXCEPT ![w] = pending[w] \ {reqId[s]}]
               /\ pending'[w] = pending[w] \ {reqId[s]}
               /\ gauge' = Cardinality(pending'[w])
               /\ lost' = lost
            \/ /\ direction[s] = "inbound" /\ reqId[s] # NoId
               /\ UNCHANGED <<pending, gauge>>
               /\ lost' = lost \cup {s}
            \/ /\ direction[s] # "inbound" \/ reqId[s] = NoId
               /\ UNCHANGED <<pending, gauge, lost>>
<1> USE QueueFilterAssumption
<1>1. CASE IsInbound(s)
  <2>1. PICK id \in ResponseIds(s) : OnResponseHeadersInbound(s, id)
    BY <1>1 DEF OnResponseHeaders
  <2>2. id = reqId[s] \/ id = NoId
    BY DEF ResponseIds
  <2> QED
    BY <1>1, <2>1, <2>2 DEF Shape, TypeOK, OnResponseHeadersInbound, IsInbound,
                            HasId, Erased, Recorded
<1>2. CASE ~IsInbound(s)
  BY <1>2 DEF Shape, TypeOK, OnResponseHeaders, IsInbound
<1> QED
  BY <1>1, <1>2

LEMMA NextShape == Shape /\ [Next]_vars => Shape'
<1> SUFFICES ASSUME Shape, [Next]_vars PROVE Shape'
  OBVIOUS
<1> USE QueueFilterAssumption DEF Shape
<1>1. ASSUME NEW s \in Streams, NEW dir \in Directions, NEW id \in RequestIds \cup {NoId},
             OnRequestHeaders(s, dir, id)
      PROVE  Shape'
  <2>a. pending' \in [Workers -> SUBSET RequestIds]
    BY <1>1, RequestEffect
  <2>b. call' \in [Streams -> CallStates]
    BY <1>1 DEF TypeOK, OnRequestHeaders, OnRequestHeadersInbound, StoreWarning,
                CallStates
  <2>1. TypeOK'
    BY <1>1, <2>a, <2>b DEF TypeOK, OnRequestHeaders, Phases
  <2>2. FiniteQueues'
    <3> SUFFICES ASSUME NEW v \in Workers PROVE IsFiniteSet(pending'[v])
      BY DEF FiniteQueues
    <3>1. pending'[v] = pending[v] \/ pending'[v] = pending[v] \cup {id}
      BY <1>1, RequestEffect
    <3>2. IsFiniteSet(pending[v])
      BY DEF FiniteQueues
    <3>3. IsFiniteSet(pending[v] \cup {id})
      BY <3>2, FS_AddElement
    <3> QED
      BY <3>1, <3>2, <3>3
  <2>3. LostIsOver' /\ NewIsUndirected'
    BY <1>1 DEF TypeOK, LostIsOver, NewIsUndirected, OnRequestHeaders
  <2> QED
    BY <2>1, <2>2, <2>3
<1>2. ASSUME NEW s \in Streams, OnResponseHeaders(s)
      PROVE  Shape'
  <2>1. FiniteQueues'
    <3> SUFFICES ASSUME NEW v \in Workers PROVE IsFiniteSet(pending'[v])
      BY DEF FiniteQueues
    <3>1. pending'[v] = pending[v] \/ pending'[v] = pending[v] \ {reqId[s]}
      BY <1>2, ResponseEffect
    <3>2. IsFiniteSet(pending[v])
      BY DEF FiniteQueues
    <3>3. pending'[v] \in SUBSET pending[v]
      BY <3>1
    <3> QED
      BY <3>2, <3>3, FS_Subset
  <2>2. gauge' \in Nat
    <3>1. Cardinality(pending'[WorkerOf[s]]) \in Nat
      BY <2>1, FS_CardinalityType DEF FiniteQueues
    <3>2. gauge' = gauge \/ gauge' = Cardinality(pending'[WorkerOf[s]])
      BY <1>2, ResponseEffect
    <3> QED
      BY <3>1, <3>2 DEF TypeOK
  <2>a. pending' \in [Workers -> SUBSET RequestIds]
    BY <1>2, ResponseEffect DEF TypeOK
  <2>b. /\ lost' \subseteq lost \cup {s}
        /\ s \in lost' \ lost => direction[s] = "inbound" /\ reqId[s] # NoId
    BY <1>2, ResponseEffect
  <2>3. TypeOK'
    BY <1>2, <2>2, <2>a, <2>b DEF TypeOK, OnResponseHeaders, Phases
  <2>4. LostIsOver'
    BY <1>2, <2>b DEF TypeOK, LostIsOver, OnResponseHeaders
  <2>5. NewIsUndirected'
    BY <1>2 DEF TypeOK, NewIsUndirected, OnResponseHeaders
  <2> QED
    BY <2>1, <2>3, <2>4, <2>5
<1>3. ASSUME NEW s \in Streams, OnDelete(s)
      PROVE  Shape'
  <2>1. TypeOK' /\ FiniteQueues'
    BY <1>3 DEF TypeOK, FiniteQueues, OnDelete, Ends, Phases
  <2>2. LostIsOver' /\ NewIsUndirected'
    BY <1>3 DEF TypeOK, LostIsOver, NewIsUndirected, OnDelete, Ends
  <2> QED
    BY <2>1, <2>2
<1>4. ASSUME NEW s \in Streams, Callback(s)
      PROVE  Shape'
  BY <1>4 DEF TypeOK, FiniteQueues, LostIsOver, NewIsUndirected, Callback, EndCall, UseNullContext,
              CallStates
<1>5. CASE Restart
  <2>1. TypeOK' /\ LostIsOver' /\ NewIsUndirected'
    BY <1>5 DEF TypeOK, LostIsOver, NewIsUndirected, Restart, CutOff, Phases, CallStates
  <2>2. FiniteQueues'
    BY <1>5, FS_EmptySet DEF FiniteQueues, Restart, CutOff
  <2> QED
    BY <2>1, <2>2
<1>6. CASE UNCHANGED vars
  BY <1>6 DEF TypeOK, FiniteQueues, LostIsOver, NewIsUndirected, vars
<1> QED
  BY <1>1, <1>2, <1>3, <1>4, <1>5, <1>6 DEF Next

THEOREM AlwaysShape == Spec => []Shape
  BY InitShape, NextShape, PTL DEF Spec

(* The state is always what the declarations of the contexts allow.         *)
(* (filter.cc:115-116, 124-158)                                             *)
THEOREM Typing == Spec => []TypeOK
<1>1. Shape => TypeOK
  BY DEF Shape
<1> QED
  BY <1>1, AlwaysShape, PTL

--------------------------------------------------------------------------------

(* A stream whose request the filter has reason to count. *)
IsCounted(s) ==
  \/ direction[s] = "inbound" /\ reqId[s] # NoId /\ phase[s] = "waiting"
  \/ s \in lost

LEMMA CountedStreams ==
  ASSUME Shape, NEW w \in Workers
  PROVE  /\ Counted(w) = {s \in Streams : WorkerOf[s] = w /\ IsCounted(s)}
         /\ IsFiniteSet(Counted(w))
<1>1. Counted(w) = {s \in Streams : WorkerOf[s] = w /\ IsCounted(s)}
  BY DEF Shape, TypeOK, Counted, Waiting, IsCounted
<1>2. Counted(w) \in SUBSET Streams
  BY <1>1
<1> QED
  BY <1>1, <1>2, FS_Subset, QueueFilterAssumption

(* An inbound request that was counted and is not any more was answered     *)
(* with its id, or there was a restart.                                     *)
LEMMA CountedStays ==
  ASSUME Shape, Shape', [Next]_vars, ~Restart,
         NEW s \in Streams, IsCounted(s),
         ~(OnResponseHeaders(s) /\ reqId[s] \notin pending'[WorkerOf[s]])
  PROVE  IsCounted(s)' /\ reqId'[s] = reqId[s]
<1> USE DEF Shape, TypeOK, IsCounted
<1>1. ASSUME NEW t \in Streams, NEW dir \in Directions, NEW id \in RequestIds \cup {NoId},
             OnRequestHeaders(t, dir, id)
      PROVE  IsCounted(s)' /\ reqId'[s] = reqId[s]
  BY <1>1 DEF OnRequestHeaders, LostIsOver
<1>2. ASSUME NEW t \in Streams, OnResponseHeaders(t)
      PROVE  IsCounted(s)' /\ reqId'[s] = reqId[s]
  <2>1. reqId' = reqId /\ direction' = direction
    BY <1>2 DEF OnResponseHeaders
  <2>2. lost \subseteq lost'
    BY <1>2, ResponseEffect
  <2>3. CASE t # s
    BY <1>2, <2>1, <2>2, <2>3 DEF OnResponseHeaders
  <2>4. CASE t = s
    <3>1. phase[s] = "waiting" /\ s \notin lost
      BY <1>2, <2>4 DEF OnResponseHeaders, LostIsOver
    <3>2. direction[s] = "inbound" /\ reqId[s] # NoId
      BY <3>1
    <3>3. s \in lost'
      BY <1>2, <2>4, <3>2, ResponseEffect
    <3> QED
      BY <2>1, <3>3
  <2> QED
    BY <2>3, <2>4
<1>3. ASSUME NEW t \in Streams, OnDelete(t)
      PROVE  IsCounted(s)' /\ reqId'[s] = reqId[s]
  BY <1>3 DEF OnDelete, Ends, LostIsOver
<1>4. ASSUME NEW t \in Streams, Callback(t)
      PROVE  IsCounted(s)' /\ reqId'[s] = reqId[s]
  BY <1>4 DEF Callback
<1>5. CASE UNCHANGED vars
  BY <1>5 DEF vars
<1> QED
  BY <1>1, <1>2, <1>3, <1>4, <1>5 DEF Next

(* Every id in a set is that of a request of its worker that waits or was   *)
(* lost, whatever clients and services do. (filter.cc:234-242, 288-295)     *)
THEOREM Overcount == Spec => []NoOvercount
<1>1. Init => NoOvercount
  BY DEF Init, NoOvercount
<1>2. Shape /\ Shape' /\ NoOvercount /\ [Next]_vars => NoOvercount'
  <2> SUFFICES ASSUME Shape, Shape', NoOvercount, [Next]_vars,
                      NEW w \in Workers, NEW id \in pending'[w]
               PROVE  \E s \in Streams : /\ WorkerOf[s] = w
                                         /\ IsCounted(s)'
                                         /\ reqId'[s] = id
    BY DEF NoOvercount, Counted, Waiting, IsCounted, Shape, TypeOK
  <2>1. CASE Restart
    BY <2>1 DEF Restart, CutOff
  <2>2. ASSUME NEW s \in Streams, NEW dir \in Directions, NEW x \in RequestIds \cup {NoId},
               OnRequestHeaders(s, dir, x), id \notin pending[w]
        PROVE  \E t \in Streams : WorkerOf[t] = w /\ IsCounted(t)' /\ reqId'[t] = id
    <3>1. WorkerOf[s] = w /\ dir = "inbound" /\ x # NoId /\ id = x
      BY <2>2, RequestEffect
    <3>2. IsCounted(s)' /\ reqId'[s] = id
      BY <2>2, <3>1 DEF OnRequestHeaders, IsCounted, Shape, TypeOK
    <3> QED
      BY <3>1, <3>2
  <2>3. CASE ~Restart /\ id \in pending[w]
    <3>1. PICK s \in Streams : WorkerOf[s] = w /\ IsCounted(s) /\ reqId[s] = id
      BY <2>3, CountedStreams DEF NoOvercount
    <3>2. IsCounted(s)' /\ reqId'[s] = reqId[s]
      BY <2>3, <3>1, CountedStays
    <3> QED
      BY <3>1, <3>2
  <2>4. ASSUME ~Restart, id \notin pending[w]
        PROVE  \E s \in Streams, dir \in Directions, x \in RequestIds \cup {NoId} :
                 OnRequestHeaders(s, dir, x)
    <3>1. ASSUME NEW s \in Streams, OnResponseHeaders(s) PROVE FALSE
      BY <2>4, <3>1, ResponseEffect
    <3>2. pending' # pending
      BY <2>4
    <3> QED
      BY <2>4, <3>1, <3>2 DEF Next, vars, OnDelete, Ends, Callback
  <2> QED
    BY <2>1, <2>2, <2>3, <2>4
<1> QED
  BY <1>1, <1>2, AlwaysShape, PTL DEF Spec

(* A request that waits is counted, from its arrival until another request  *)
(* that waits in its worker under the same id is answered with that id.     *)
(* (filter.cc:242, 295, 346-360)                                            *)
THEOREM Undercount == Spec => NoUndercount
<1> DEFINE Counts ==
      \A w \in Workers : \A s \in Waiting(w)' :
        \/ reqId'[s] \in pending'[w]
        \/ s \in Waiting(w) /\ reqId[s] \notin pending[w]
        \/ \E t \in Waiting(w) \ {s} : /\ reqId[t] = reqId'[s]
                                       /\ phase'[t] = "answered"
                                       /\ t \notin lost'
<1>1. Shape /\ Shape' /\ [Next]_vars => [Counts]_vars
  <2> SUFFICES ASSUME Shape, Shape', Next,
                      NEW w \in Workers, NEW s \in Waiting(w)',
                      reqId'[s] \notin pending'[w],
                      s \in Waiting(w) => reqId[s] \in pending[w]
               PROVE  \E t \in Waiting(w) \ {s} : /\ reqId[t] = reqId'[s]
                                                 /\ phase'[t] = "answered"
                                                 /\ t \notin lost'
    BY DEF vars
  <2>1. s \in Streams /\ WorkerOf[s] = w
    BY DEF Waiting
  <2>2. direction'[s] = "inbound" /\ reqId'[s] # NoId /\ phase'[s] = "waiting"
    BY DEF Waiting
  <2> USE DEF Shape, TypeOK
  <2>3. ASSUME NEW u \in Streams, NEW dir \in Directions, NEW id \in RequestIds \cup {NoId},
               OnRequestHeaders(u, dir, id)
        PROVE  FALSE
    <3>1. u # s
      <4> SUFFICES ASSUME u = s PROVE FALSE
        OBVIOUS
      <4>1. dir = "inbound" /\ id = reqId'[s]
        BY <2>1, <2>2, <2>3 DEF OnRequestHeaders
      <4> QED
        BY <2>1, <2>2, <2>3, <4>1, RequestEffect
    <3>2. s \in Waiting(w) /\ reqId'[s] = reqId[s]
      BY <2>1, <2>2, <2>3, <3>1 DEF OnRequestHeaders, Waiting
    <3>3. reqId[s] \notin pending[w]
      BY <2>1, <2>3, <3>2, RequestEffect
    <3> QED
      BY <3>2, <3>3
  <2>4. ASSUME NEW u \in Streams, OnResponseHeaders(u)
        PROVE  \E t \in Waiting(w) \ {s} : /\ reqId[t] = reqId'[s]
                                          /\ phase'[t] = "answered"
                                          /\ t \notin lost'
    <3>1. u # s
      BY <2>1, <2>2, <2>4 DEF OnResponseHeaders
    <3>2. s \in Waiting(w) /\ reqId' = reqId /\ direction' = direction
      BY <2>1, <2>2, <2>4, <3>1 DEF OnResponseHeaders, Waiting
    <3>3. /\ WorkerOf[u] = w
          /\ direction[u] = "inbound"
          /\ reqId[u] = reqId[s]
          /\ lost' = lost
      BY <2>4, <3>2, ResponseEffect
    <3>4. phase[u] = "waiting" /\ phase'[u] = "answered"
      BY <2>4 DEF OnResponseHeaders
    <3>5. u \in Waiting(w) \ {s} /\ u \notin lost'
      BY <2>2, <3>1, <3>2, <3>3, <3>4 DEF Waiting, LostIsOver
    <3> QED
      BY <3>2, <3>3, <3>4, <3>5
  <2>5. ASSUME NEW u \in Streams, OnDelete(u) \/ Callback(u)
        PROVE  FALSE
    <3>1. UNCHANGED <<direction, reqId, pending>>
      BY <2>5 DEF OnDelete, Ends, Callback
    <3>2. phase[s] = "waiting"
      BY <2>1, <2>2, <2>5 DEF OnDelete, Ends, Callback
    <3>3. s \in Waiting(w)
      BY <2>1, <2>2, <3>1, <3>2 DEF Waiting
    <3> QED
      BY <3>1, <3>3
  <2>6. ~Restart
    BY <2>1, <2>2 DEF Restart, CutOff
  <2> QED
    BY <2>3, <2>4, <2>5, <2>6 DEF Next
<1> QED
  BY <1>1, AlwaysShape, PTL DEF Spec, NoUndercount

--------------------------------------------------------------------------------

(* Whichever worker answers last, the gauge is no more than some worker's   *)
(* queue: it was the size of one, and sizes only shrink when it is set      *)
(* again. (filter.cc:245, 299)                                              *)
THEOREM GaugeBound == Spec => []GaugeNeverOverReports
<1>1. Init => GaugeNeverOverReports
  <2> SUFFICES ASSUME Init PROVE GaugeNeverOverReports
    OBVIOUS
  <2>1. PICK w \in Workers : TRUE
    BY QueueFilterAssumption
  <2>2. Cardinality(pending[w]) = 0 /\ gauge = 0
    BY FS_EmptySet DEF Init
  <2> QED
    BY <2>1, <2>2 DEF GaugeNeverOverReports
<1>2. Shape /\ Shape' /\ GaugeNeverOverReports /\ [Next]_vars => GaugeNeverOverReports'
  <2> SUFFICES ASSUME Shape, Shape', GaugeNeverOverReports, [Next]_vars
               PROVE  GaugeNeverOverReports'
    OBVIOUS
  <2>1. PICK w \in Workers : gauge <= Cardinality(pending[w])
    BY DEF GaugeNeverOverReports
  <2>2. ASSUME gauge' = gauge, pending[w] \subseteq pending'[w]
        PROVE  GaugeNeverOverReports'
    <3>1. IsFiniteSet(pending[w]) /\ IsFiniteSet(pending'[w])
      BY DEF Shape, FiniteQueues
    <3>2. Cardinality(pending[w]) <= Cardinality(pending'[w])
      BY <2>2, <3>1, FS_Subset
    <3>3. Cardinality(pending[w]) \in Nat /\ Cardinality(pending'[w]) \in Nat
      BY <3>1, FS_CardinalityType
    <3> QED
      BY <2>1, <2>2, <3>2, <3>3 DEF Shape, TypeOK, GaugeNeverOverReports
  <2>3. ASSUME NEW s \in Streams, NEW dir \in Directions, NEW id \in RequestIds \cup {NoId},
               OnRequestHeaders(s, dir, id)
        PROVE  GaugeNeverOverReports'
    <3>1. pending[w] \subseteq pending'[w]
      BY <2>3, RequestEffect
    <3> QED
      BY <2>2, <2>3, <3>1 DEF OnRequestHeaders
  <2>4. ASSUME NEW s \in Streams, OnResponseHeaders(s)
        PROVE  GaugeNeverOverReports'
    <3>1. CASE UNCHANGED <<pending, gauge>>
      BY <2>2, <3>1
    <3>2. CASE ~UNCHANGED <<pending, gauge>>
      <4>1. WorkerOf[s] \in Workers /\ gauge' = Cardinality(pending'[WorkerOf[s]])
        BY <2>4, <3>2, ResponseEffect
      <4>2. gauge' \in Nat
        BY DEF Shape, TypeOK
      <4> QED
        BY <4>1, <4>2 DEF GaugeNeverOverReports
    <3> QED
      BY <3>1, <3>2
  <2>5. CASE Restart
    <3>1. gauge' = 0 /\ pending'[w] = {}
      BY <2>5 DEF Restart, CutOff
    <3> QED
      BY <3>1, FS_EmptySet DEF GaugeNeverOverReports
  <2>6. CASE UNCHANGED <<pending, gauge>>
    BY <2>2, <2>6
  <2> QED
    BY <2>3, <2>4, <2>5, <2>6 DEF Next, OnDelete, Ends, Callback, vars
<1> QED
  BY <1>1, <1>2, AlwaysShape, PTL DEF Spec

(* A worker has no fewer requests to account for than ids in its set. *)
QueueBounded ==
  \A w \in Workers :
    /\ Cardinality(pending[w]) \in Nat
    /\ Cardinality(Counted(w)) \in Nat
    /\ Cardinality(pending[w]) <= Cardinality(Counted(w))

LEMMA QueueBound == Shape /\ NoOvercount => QueueBounded
<1> SUFFICES ASSUME Shape, NoOvercount, NEW w \in Workers
             PROVE  /\ Cardinality(pending[w]) \in Nat
                    /\ Cardinality(Counted(w)) \in Nat
                    /\ Cardinality(pending[w]) <= Cardinality(Counted(w))
  BY DEF QueueBounded
<1> DEFINE S == Counted(w)
           T == {reqId[s] : s \in S}
           idOf == [s \in S |-> reqId[s]]
<1>1. IsFiniteSet(S)
  BY CountedStreams
<1>2. idOf \in Surjection(S, T)
  BY DEF Surjection
<1> HIDE DEF S, T, idOf
<1>3. IsFiniteSet(T) /\ Cardinality(T) <= Cardinality(S)
  BY <1>1, <1>2, FS_Surjection
<1>4. pending[w] \in SUBSET T
  BY DEF NoOvercount, S, T
<1>5. IsFiniteSet(pending[w]) /\ Cardinality(pending[w]) <= Cardinality(T)
  BY <1>3, <1>4, FS_Subset
<1>6. /\ Cardinality(pending[w]) \in Nat
      /\ Cardinality(T) \in Nat
      /\ Cardinality(S) \in Nat
  BY <1>1, <1>3, <1>5, FS_CardinalityType
<1> QED
  BY <1>3, <1>5, <1>6 DEF S

LEMMA WarningStep ==
  ASSUME Shape, QueueBounded', Next,
         NEW s \in Streams, call[s] = "none", call'[s] # "none"
  PROVE  Cardinality(Counted(WorkerOf[s])') > Threshold
<1>1. WorkerOf[s] \in Workers
  BY QueueFilterAssumption
<1>2. Cardinality(pending'[WorkerOf[s]]) > Threshold
  <2> USE <1>1 DEF Shape, TypeOK
  <2>1. PICK dir \in Directions, id \in RequestIds \cup {NoId} :
          OnRequestHeaders(s, dir, id)
    <3>1. ASSUME NEW t \in Streams, Callback(t) PROVE FALSE
      BY <3>1 DEF Callback, EndCall, UseNullContext
    <3>2. ASSUME Restart PROVE FALSE
      BY <3>2 DEF Restart, CutOff
    <3>3. ASSUME NEW t \in Streams, OnResponseHeaders(t) \/ OnDelete(t) PROVE FALSE
      BY <3>3 DEF OnResponseHeaders, OnDelete, Ends
    <3>4. ASSUME NEW t \in Streams, NEW dir \in Directions, NEW id \in RequestIds \cup {NoId},
                 OnRequestHeaders(t, dir, id)
          PROVE  t = s
      BY <3>4 DEF OnRequestHeaders, OnRequestHeadersInbound, StoreWarning
    <3> QED
      BY <3>1, <3>2, <3>3, <3>4 DEF Next
  <2>2. dir = "inbound" /\ id # NoId
    BY <2>1 DEF OnRequestHeaders, OnRequestHeadersInbound, HasId
  <2>3. AboveThreshold(pending[WorkerOf[s]] \cup {id})
    BY <2>1, <2>2 DEF OnRequestHeaders, OnRequestHeadersInbound, HasId
  <2>4. pending'[WorkerOf[s]] = pending[WorkerOf[s]] \cup {id}
    BY <2>1, <2>2, RequestEffect
  <2> QED
    BY <2>3, <2>4 DEF AboveThreshold
<1> QED
  BY <1>1, <1>2, QueueFilterAssumption DEF QueueBounded

(* A warning is stored only by a worker that has more than Threshold        *)
(* requests to account for. (filter.cc:247-250)                             *)
THEOREM Justification == Spec => AlarmJustified
<1> DEFINE Justified ==
      \A s \in Streams :
        call[s] = "none" /\ call'[s] # "none"
          => Cardinality(Counted(WorkerOf[s])') > Threshold
<1>1. Shape /\ QueueBounded' /\ [Next]_vars => [Justified]_vars
  BY WarningStep DEF vars
<1> QED
  BY <1>1, AlwaysShape, Overcount, QueueBound, PTL DEF Spec, AlarmJustified

(* The requests worker w has seen, and that they are too many. *)
Seen(w) == {s \in Streams : WorkerOf[s] = w /\ direction[s] = "inbound" /\ reqId[s] # NoId}
Overloaded(w) == Cardinality(Seen(w)) > Threshold

(* Only an overloaded worker has warned or lost its filter. *)
OnlyOverloaded ==
  /\ \A s \in Streams : call[s] # "none" => Overloaded(WorkerOf[s])
  /\ \A w \in stopped : Overloaded(w)

LEMMA OverloadStays ==
  ASSUME Shape, [Next]_vars, NEW w \in Workers, Overloaded(w)
  PROVE  Overloaded(w)'
<1>1. Seen(w) \subseteq Seen(w)'
  <2> USE DEF Shape, TypeOK, Seen
  <2>1. ASSUME NEW s \in Streams, NEW dir \in Directions, NEW id \in RequestIds \cup {NoId},
               OnRequestHeaders(s, dir, id)
        PROVE  Seen(w) \subseteq Seen(w)'
    <3>1. direction[s] = "unspecified"
      BY <2>1 DEF OnRequestHeaders, NewIsUndirected
    <3> QED
      BY <2>1, <3>1 DEF OnRequestHeaders
  <2>2. CASE UNCHANGED <<direction, reqId>>
    BY <2>2
  <2> QED
    BY <2>1, <2>2 DEF Next, OnResponseHeaders, OnDelete, Ends, Callback, Restart, CutOff, vars
<1>2. Seen(w)' \subseteq Streams
  BY DEF Seen
<1>3. /\ IsFiniteSet(Seen(w)')
      /\ Cardinality(Seen(w)) <= Cardinality(Seen(w)')
      /\ Cardinality(Seen(w)) \in Nat /\ Cardinality(Seen(w)') \in Nat
  <2>1. IsFiniteSet(Seen(w)')
    BY <1>2, FS_Subset, QueueFilterAssumption
  <2>2. IsFiniteSet(Seen(w)) /\ Cardinality(Seen(w)) <= Cardinality(Seen(w)')
    BY <1>1, <2>1, FS_Subset
  <2> QED
    BY <2>1, <2>2, FS_CardinalityType
<1> QED
  BY <1>3, QueueFilterAssumption DEF Overloaded

LEMMA OverloadWarns ==
  ASSUME Shape, Shape', QueueBounded', Next,
         NEW s \in Streams, call[s] = "none", call'[s] # "none"
  PROVE  Overloaded(WorkerOf[s])'
<1> DEFINE w == WorkerOf[s]
<1>0. w \in Workers
  BY QueueFilterAssumption
<1>1. Cardinality(Counted(w)') > Threshold
  BY WarningStep
<1>2. Counted(w)' \subseteq Seen(w)' /\ Seen(w)' \subseteq Streams
  BY DEF Counted, Waiting, Seen, Shape, TypeOK, LostIsOver
<1>3. /\ Cardinality(Counted(w)') <= Cardinality(Seen(w)')
      /\ Cardinality(Counted(w)') \in Nat /\ Cardinality(Seen(w)') \in Nat
  <2>1. IsFiniteSet(Seen(w)')
    BY <1>2, FS_Subset, QueueFilterAssumption
  <2>2. IsFiniteSet(Counted(w)') /\ Cardinality(Counted(w)') <= Cardinality(Seen(w)')
    BY <1>2, <2>1, FS_Subset
  <2> QED
    BY <2>1, <2>2, FS_CardinalityType
<1> QED
  BY <1>1, <1>3, QueueFilterAssumption DEF Overloaded

(* The filter of a worker is only ended by a trap after more than Threshold *)
(* inbound requests. (filter.cc:167-172, 247-251)                           *)
THEOREM Stopping == Spec => []StopsOnlyOverloaded
<1>1. Init => OnlyOverloaded
  BY DEF Init, OnlyOverloaded
<1>2. Shape /\ Shape' /\ QueueBounded' /\ OnlyOverloaded /\ [Next]_vars => OnlyOverloaded'
  <2> SUFFICES ASSUME Shape, Shape', QueueBounded', OnlyOverloaded, [Next]_vars
               PROVE  OnlyOverloaded'
    OBVIOUS
  <2>1. ASSUME NEW s \in Streams, call'[s] # "none"
        PROVE  Overloaded(WorkerOf[s])'
    <3>1. WorkerOf[s] \in Workers
      BY QueueFilterAssumption
    <3>2. CASE call[s] # "none"
      BY <3>1, <3>2, OverloadStays DEF OnlyOverloaded
    <3>3. CASE call[s] = "none"
      <4>1. Next
        BY <2>1, <3>3 DEF vars
      <4> QED
        BY <2>1, <3>3, <4>1, OverloadWarns
    <3> QED
      BY <3>2, <3>3
  <2>2. ASSUME NEW w \in stopped'
        PROVE  Overloaded(w)'
    <3>1. w \in Workers
      BY DEF Shape, TypeOK
    <3>2. CASE w \in stopped
      BY <3>1, <3>2, OverloadStays DEF OnlyOverloaded
    <3>3. CASE w \notin stopped
      <4>1. PICK s \in Streams : call[s] = "out" /\ WorkerOf[s] = w
        BY <2>2, <3>3
           DEF Next, vars, OnRequestHeaders, OnResponseHeaders, OnDelete, Ends, Restart, CutOff,
               Callback, EndCall, UseNullContext
      <4> QED
        BY <3>1, <4>1, OverloadStays DEF OnlyOverloaded
    <3> QED
      BY <3>2, <3>3
  <2> QED
    BY <2>1, <2>2 DEF OnlyOverloaded
<1>3. OnlyOverloaded => StopsOnlyOverloaded
  BY DEF OnlyOverloaded, Overloaded, Seen, StopsOnlyOverloaded
<1> QED
  BY <1>1, <1>2, <1>3, AlwaysShape, Overcount, QueueBound, PTL DEF Spec

--------------------------------------------------------------------------------

(* The request of every stream the filter has reason to count is in its     *)
(* worker's set, as long as that worker sees no id twice.                   *)
AllPending ==
  \A s \in Streams :
    IsCounted(s) /\ NoRepeats(WorkerOf[s]) => reqId[s] \in pending[WorkerOf[s]]

(* A repetition is never undone. *)
LEMMA RepeatsStay ==
  ASSUME Shape, [Next]_vars, NEW w \in Workers, NoRepeats(w)'
  PROVE  NoRepeats(w)
<1> USE DEF Shape, TypeOK
<1>1. \A s \in Streams :
        direction[s] = "inbound"
          => direction'[s] = "inbound" /\ reqId'[s] = reqId[s]
  <2>1. ASSUME NEW s \in Streams, NEW dir \in Directions, NEW id \in RequestIds \cup {NoId},
               OnRequestHeaders(s, dir, id), NEW t \in Streams, direction[t] = "inbound"
        PROVE  direction'[t] = "inbound" /\ reqId'[t] = reqId[t]
    <3>1. t # s
      BY <2>1 DEF OnRequestHeaders, NewIsUndirected
    <3> QED
      BY <2>1, <3>1 DEF OnRequestHeaders
  <2>2. CASE UNCHANGED <<direction, reqId>>
    BY <2>2
  <2> QED
    BY <2>1, <2>2 DEF Next, OnResponseHeaders, OnDelete, Ends, Callback, Restart, CutOff, vars
<1> QED
  BY <1>1 DEF NoRepeats

LEMMA AlwaysPending == Spec => []AllPending
<1>1. Init => AllPending
  BY DEF Init, AllPending, IsCounted
<1>2. Shape /\ AllPending /\ [Next]_vars => AllPending'
  <2> SUFFICES ASSUME Shape, AllPending, [Next]_vars,
                      NEW s \in Streams, IsCounted(s)', NoRepeats(WorkerOf[s])'
               PROVE  reqId'[s] \in pending'[WorkerOf[s]]
    BY DEF AllPending
  <2> USE DEF Shape, TypeOK
  <2>0. WorkerOf[s] \in Workers /\ NoRepeats(WorkerOf[s])
    BY RepeatsStay, QueueFilterAssumption
  <2>1. ASSUME NEW u \in Streams, NEW dir \in Directions, NEW id \in RequestIds \cup {NoId},
               OnRequestHeaders(u, dir, id)
        PROVE  reqId'[s] \in pending'[WorkerOf[s]]
    <3>1. CASE u = s
      <4>1. s \notin lost'
        BY <2>1, <3>1 DEF OnRequestHeaders, LostIsOver
      <4>2. dir = "inbound" /\ id # NoId /\ reqId'[s] = id
        BY <2>1, <3>1, <4>1 DEF OnRequestHeaders, IsCounted
      <4> QED
        BY <2>0, <2>1, <3>1, <4>2, RequestEffect
    <3>2. CASE u # s
      <4>1. IsCounted(s) /\ reqId'[s] = reqId[s]
        BY <2>1, <3>2 DEF OnRequestHeaders, IsCounted
      <4>2. pending[WorkerOf[s]] \subseteq pending'[WorkerOf[s]]
        BY <2>0, <2>1, RequestEffect
      <4> QED
        BY <2>0, <4>1, <4>2 DEF AllPending
    <3> QED
      BY <3>1, <3>2
  <2>2. ASSUME NEW u \in Streams, OnResponseHeaders(u)
        PROVE  reqId'[s] \in pending'[WorkerOf[s]]
    <3>1. UNCHANGED <<direction, reqId>>
      BY <2>2 DEF OnResponseHeaders
    <3>2. /\ phase[u] = "waiting" /\ phase'[u] = "answered"
          /\ \A t \in Streams \ {u} : phase'[t] = phase[t]
      BY <2>2 DEF OnResponseHeaders
    <3>3. u \notin lost
      BY <3>2 DEF LostIsOver
    <3>4. IsCounted(s)
      <4>1. CASE u = s
        <5>1. s \in lost' /\ s \notin lost
          BY <3>2, <3>3, <4>1 DEF IsCounted
        <5>2. direction[s] = "inbound" /\ reqId[s] # NoId
          BY <2>2, <4>1, <5>1, ResponseEffect
        <5> QED
          BY <3>2, <4>1, <5>2 DEF IsCounted
      <4>2. CASE u # s
        <5>1. s \in lost' => s \in lost
          BY <2>2, <4>2, ResponseEffect
        <5> QED
          BY <3>1, <3>2, <4>2, <5>1 DEF IsCounted
      <4> QED
        BY <4>1, <4>2
    <3>5. direction[s] = "inbound" /\ reqId[s] # NoId
      BY <3>4 DEF IsCounted, LostIsOver
    <3>6. reqId[s] \in pending[WorkerOf[s]]
      BY <2>0, <3>4 DEF AllPending
    <3>7. CASE pending'[WorkerOf[s]] = pending[WorkerOf[s]]
      BY <3>1, <3>6, <3>7
    <3>8. CASE pending'[WorkerOf[s]] # pending[WorkerOf[s]]
      <4>1. /\ WorkerOf[u] = WorkerOf[s]
            /\ direction[u] = "inbound" /\ reqId[u] # NoId
            /\ pending'[WorkerOf[s]] = pending[WorkerOf[s]] \ {reqId[u]}
            /\ lost' = lost
        BY <2>0, <2>2, <3>8, ResponseEffect
      <4>2. u # s
        BY <3>2, <3>3, <4>1 DEF IsCounted
      <4>3. reqId[s] # reqId[u]
        BY <2>0, <3>5, <4>1, <4>2 DEF NoRepeats
      <4> QED
        BY <3>1, <3>6, <4>1, <4>3
    <3> QED
      BY <3>7, <3>8
  <2>3. ASSUME NEW u \in Streams, OnDelete(u)
        PROVE  reqId'[s] \in pending'[WorkerOf[s]]
    <3>1. IsCounted(s)
      BY <2>3 DEF OnDelete, Ends, IsCounted
    <3> QED
      BY <2>0, <2>3, <3>1 DEF OnDelete, Ends, AllPending
  <2>4. CASE Restart
    BY <2>4 DEF Restart, CutOff, IsCounted
  <2>5. CASE UNCHANGED <<phase, direction, reqId, pending, lost>>
    BY <2>0, <2>5 DEF AllPending, IsCounted
  <2> QED
    BY <2>1, <2>2, <2>3, <2>4, <2>5 DEF Next, Callback, vars
<1> QED
  BY <1>1, <1>2, AlwaysShape, PTL DEF Spec

(* As long as a worker sees no id twice, the size the filter compares to    *)
(* its threshold is exactly the number of requests that wait or were lost.  *)
(* (filter.cc:243, 296)                                                     *)
THEOREM Exactness == Spec => []QueueExact
<1>1. Shape /\ AllPending /\ NoOvercount => QueueExact
  <2> SUFFICES ASSUME Shape, AllPending, NoOvercount,
                      NEW w \in Workers, NoRepeats(w)
               PROVE  Cardinality(pending[w]) = Cardinality(Counted(w))
    BY DEF QueueExact
  <2> DEFINE S == Counted(w)
             T == pending[w]
             idOf == [s \in S |-> reqId[s]]
  <2>1. IsFiniteSet(S) /\ \A s \in S : s \in Streams /\ WorkerOf[s] = w /\ IsCounted(s)
    BY CountedStreams
  <2>2. \A s \in S : direction[s] = "inbound" /\ reqId[s] # NoId
    BY <2>1 DEF IsCounted, Shape, LostIsOver
  <2>3. \A s \in S : reqId[s] \in T
    BY <2>1 DEF AllPending
  <2>4. \A id \in T : \E s \in S : reqId[s] = id
    BY DEF NoOvercount
  <2>5. \A s, t \in S : s # t => reqId[s] # reqId[t]
    BY <2>1, <2>2 DEF NoRepeats
  <2> HIDE DEF S, T
  <2>6. idOf \in Bijection(S, T)
    BY <2>3, <2>4, <2>5 DEF Bijection, Injection, Surjection, IsInjective
  <2>7. Cardinality(T) = Cardinality(S)
    BY <2>1, <2>6, FS_Bijection DEF ExistsBijection
  <2> QED
    BY <2>7 DEF S, T
<1> QED
  BY <1>1, AlwaysShape, AlwaysPending, Overcount, PTL

(* The requests of worker w that wait and did not raise a warning. *)
Unalarmed(w) == {s \in Waiting(w) : call[s] = "none"}

(* An arrival that raises no warning found its queue short; every other     *)
(* step leaves no more unalarmed requests than there were.                  *)
LEMMA UnalarmedStep ==
  ASSUME Shape, [Next]_vars, NEW w \in Workers
  PROVE  \/ Unalarmed(w)' \subseteq Unalarmed(w)
         \/ ~(Cardinality(pending'[w]) > Threshold)
<1> USE DEF Shape, TypeOK, Unalarmed, Waiting
<1>1. ASSUME NEW s \in Streams, NEW dir \in Directions, NEW id \in RequestIds \cup {NoId},
             OnRequestHeaders(s, dir, id),
             ~(Unalarmed(w)' \subseteq Unalarmed(w))
      PROVE  ~(Cardinality(pending'[w]) > Threshold)
  <2>1. PICK t \in Unalarmed(w)' : t \notin Unalarmed(w)
    BY <1>1
  <2>2. t = s
    <3>1. ASSUME t # s PROVE call'[t] = call[t]
      BY <1>1, <3>1 DEF OnRequestHeaders, OnRequestHeadersInbound, StoreWarning
    <3> QED
      BY <1>1, <2>1, <3>1 DEF OnRequestHeaders
  <2>3. WorkerOf[s] = w /\ dir = "inbound" /\ id # NoId
    BY <1>1, <2>1, <2>2 DEF OnRequestHeaders
  <2>4. pending'[w] = pending[w] \cup {id}
    BY <1>1, <2>3, RequestEffect
  <2>5. call'[s] = "none"
    BY <2>1, <2>2
  <2>6. ~AboveThreshold(pending[w] \cup {id})
    BY <1>1, <2>3, <2>5 DEF OnRequestHeaders, OnRequestHeadersInbound, StoreWarning, HasId
  <2> QED
    BY <2>4, <2>6 DEF AboveThreshold
<1>2. ASSUME NEW s \in Streams, OnResponseHeaders(s) \/ OnDelete(s)
      PROVE  Unalarmed(w)' \subseteq Unalarmed(w)
  BY <1>2 DEF OnResponseHeaders, OnDelete, Ends
<1>3. ASSUME NEW s \in Streams, Callback(s)
      PROVE  Unalarmed(w)' \subseteq Unalarmed(w)
  BY <1>3 DEF Callback, EndCall, UseNullContext
<1>4. CASE Restart
  BY <1>4 DEF Restart, CutOff
<1>5. CASE UNCHANGED vars
  BY <1>5 DEF vars
<1> QED
  BY <1>1, <1>2, <1>3, <1>4, <1>5 DEF Next

(* As long as a worker sees no id twice, it has no more than Threshold      *)
(* requests waiting that did not raise a warning. (filter.cc:247-251)       *)
THEOREM Vigilance == Spec => []UnalarmedBounded
<1> USE QueueFilterAssumption
<1>1. Init => UnalarmedBounded
  <2> SUFFICES ASSUME Init, NEW w \in Workers
               PROVE  Cardinality(Unalarmed(w)) <= Threshold
    BY DEF UnalarmedBounded, Unalarmed
  <2>1. Unalarmed(w) = {}
    BY DEF Init, Unalarmed, Waiting
  <2> QED
    BY <2>1, FS_EmptySet
<1>2. Shape /\ UnalarmedBounded /\ [Next]_vars /\ Shape' /\ QueueBounded' /\ QueueExact'
        => UnalarmedBounded'
  <2> SUFFICES ASSUME Shape, UnalarmedBounded, [Next]_vars,
                      Shape', QueueBounded', QueueExact',
                      NEW w \in Workers, NoRepeats(w)'
               PROVE  Cardinality(Unalarmed(w)') <= Threshold
    BY DEF UnalarmedBounded, Unalarmed
  <2>0. NoRepeats(w)
    BY RepeatsStay
  <2>1. /\ Unalarmed(w) \subseteq Streams
        /\ Unalarmed(w)' \subseteq Counted(w)'
        /\ Counted(w)' \subseteq Streams
    BY DEF Unalarmed, Counted, Waiting, Shape, TypeOK
  <2>2. /\ IsFiniteSet(Unalarmed(w))
        /\ IsFiniteSet(Counted(w)')
        /\ IsFiniteSet(Unalarmed(w)')
    BY <2>1, FS_Subset
  <2>3. /\ Cardinality(Unalarmed(w)) \in Nat
        /\ Cardinality(Counted(w)') \in Nat
        /\ Cardinality(Unalarmed(w)') \in Nat
    BY <2>2, FS_CardinalityType
  <2>4. CASE Unalarmed(w)' \subseteq Unalarmed(w)
    <3>1. Cardinality(Unalarmed(w)') <= Cardinality(Unalarmed(w))
      BY <2>2, <2>4, FS_Subset
    <3>2. Cardinality(Unalarmed(w)) <= Threshold
      BY <2>0 DEF UnalarmedBounded, Unalarmed
    <3> QED
      BY <2>3, <3>1, <3>2
  <2>5. CASE ~(Cardinality(pending'[w]) > Threshold)
    <3>1. Cardinality(Unalarmed(w)') <= Cardinality(Counted(w)')
      BY <2>1, <2>2, FS_Subset
    <3>2. Cardinality(Counted(w)') = Cardinality(pending'[w])
      BY DEF QueueExact
    <3> QED
      BY <2>3, <2>5, <3>1, <3>2
  <2> QED
    BY <2>4, <2>5, UnalarmedStep
<1> QED
  BY <1>1, <1>2, AlwaysShape, Overcount, QueueBound, Exactness, PTL DEF Spec

(* A request that was lost stays counted until a restart, or until another  *)
(* inbound request of its worker with the same id is answered.              *)
(* (filter.cc:295, 346-360)                                                 *)
THEOREM Persistence == Spec => LostStaysCounted
<1> DEFINE Stays ==
      \A s \in lost \cap lost' :
        LET w == WorkerOf[s] IN
        reqId[s] \in pending[w] /\ reqId[s] \notin pending'[w]
          => \E t \in Streams \ {s} : /\ t \in Waiting(w)
                                      /\ reqId[t] = reqId[s]
                                      /\ phase'[t] = "answered"
<1>1. Shape /\ [Next]_vars => [Stays]_vars
  <2> SUFFICES ASSUME Shape, Next, NEW s \in lost, s \in lost',
                      reqId[s] \in pending[WorkerOf[s]],
                      reqId[s] \notin pending'[WorkerOf[s]]
               PROVE  \E t \in Streams \ {s} : /\ t \in Waiting(WorkerOf[s])
                                               /\ reqId[t] = reqId[s]
                                               /\ phase'[t] = "answered"
    OBVIOUS
  <2> USE DEF Shape, TypeOK
  <2>1. WorkerOf[s] \in Workers /\ s \in Streams
    BY QueueFilterAssumption
  <2>2. PICK t \in Streams : OnResponseHeaders(t)
    <3>1. ASSUME NEW u \in Streams, NEW dir \in Directions, NEW id \in RequestIds \cup {NoId},
                 OnRequestHeaders(u, dir, id)
          PROVE  FALSE
      BY <2>1, <3>1, RequestEffect
    <3>2. ~Restart
      BY DEF Restart, CutOff
    <3> QED
      BY <3>1, <3>2 DEF Next, OnDelete, Ends, Callback
  <2>3. /\ WorkerOf[t] = WorkerOf[s]
        /\ direction[t] = "inbound" /\ reqId[t] # NoId
        /\ reqId[t] = reqId[s]
    BY <2>1, <2>2, ResponseEffect
  <2>4. phase[t] = "waiting" /\ phase'[t] = "answered"
    BY <2>2 DEF OnResponseHeaders
  <2>5. t # s
    BY <2>4 DEF LostIsOver
  <2> QED
    BY <2>1, <2>3, <2>4, <2>5 DEF Waiting
<1> QED
  BY <1>1, AlwaysShape, PTL DEF Spec, LostStaysCounted
================================================================================
