------------------------- MODULE QueueFilterRefinement -------------------------
(* QueueFilter implements RequestQueue, for every number of workers, streams *)
(* and ids and every threshold, when responses carry their ids, ids are     *)
(* fresh and no stream is reset.                                            *)
EXTENDS QueueFilterProofs

(* Then nothing is lost and no worker sees an id twice. *)
Calm == lost = {} /\ \A w \in Workers : NoRepeats(w)

LEMMA AlwaysCalm ==
  ASSUME EchoesId, ~ClientsAbort, ~ReusesIds
  PROVE  Spec => []Calm
<1>1. Init => Calm
  BY DEF Init, Calm, NoRepeats
<1>2. Shape /\ Calm /\ [Next]_vars => Calm'
  <2> SUFFICES ASSUME Shape, Calm, [Next]_vars PROVE Calm'
    OBVIOUS
  <2> USE DEF Shape, TypeOK
  <2>1. ASSUME NEW s \in Streams, NEW dir \in Directions, NEW id \in RequestIds \cup {NoId},
               OnRequestHeaders(s, dir, id)
        PROVE  Calm'
    <3>1. lost' = {}
      BY <2>1 DEF OnRequestHeaders, Calm
    <3>2. ASSUME NEW w \in Workers PROVE NoRepeats(w)'
      <4> SUFFICES ASSUME NEW p \in Streams, NEW q \in Streams, p # q,
                          WorkerOf[p] = w, WorkerOf[q] = w,
                          direction'[p] = "inbound", direction'[q] = "inbound",
                          reqId'[p] # NoId
                   PROVE  reqId'[p] # reqId'[q]
        BY DEF NoRepeats
      <4>1. /\ \A t \in Streams \ {s} : direction'[t] = direction[t] /\ reqId'[t] = reqId[t]
            /\ direction'[s] = dir /\ reqId'[s] = id
            /\ id \in IdsFor(s, dir)
        BY <2>1 DEF OnRequestHeaders
      <4>2. CASE p # s /\ q # s
        BY <4>1, <4>2 DEF Calm, NoRepeats
      <4>3. ASSUME dir = "inbound", id # NoId,
                   NEW t \in Streams \ {s}, WorkerOf[t] = WorkerOf[s],
                   direction[t] = "inbound"
            PROVE  reqId[t] # id
        BY <4>1, <4>3 DEF IdsFor
      <4>4. CASE p = s
        BY <4>1, <4>3, <4>4
      <4>5. CASE q = s
        BY <4>1, <4>3, <4>5
      <4> QED
        BY <4>2, <4>4, <4>5
    <3> QED
      BY <3>1, <3>2 DEF Calm
  <2>2. ASSUME NEW s \in Streams, OnResponseHeaders(s)
        PROVE  Calm'
    <3>1. lost' = {}
      <4>1. CASE IsInbound(s)
        BY <2>2, <4>1 DEF OnResponseHeaders, OnResponseHeadersInbound, IsInbound,
                          ResponseIds, HasId, Calm
      <4>2. CASE ~IsInbound(s)
        BY <2>2, <4>2 DEF OnResponseHeaders, Calm
      <4> QED
        BY <4>1, <4>2
    <3> QED
      BY <2>2, <3>1 DEF OnResponseHeaders, Calm, NoRepeats
  <2>3. ASSUME NEW s \in Streams, OnDelete(s)
        PROVE  Calm'
    BY <2>3 DEF OnDelete, Ends, Calm, NoRepeats
  <2>4. CASE Restart
    BY <2>4 DEF Restart, CutOff, Calm, NoRepeats
  <2>5. CASE UNCHANGED <<direction, reqId, lost>>
    BY <2>5 DEF Calm, NoRepeats
  <2> QED
    BY <2>1, <2>2, <2>3, <2>4, <2>5 DEF Next, Callback, vars
<1> QED
  BY <1>1, <1>2, AlwaysShape, PTL DEF Spec

(* The sizes the filter compares are those of the abstract queues. *)
SizesAgree ==
  \A w \in Workers : Cardinality(pending[w]) = Cardinality(Waiting(w))

LEMMA CalmSizes == Calm /\ QueueExact => SizesAgree
<1>1. ASSUME Calm, NEW w \in Workers PROVE Counted(w) = Waiting(w)
  BY <1>1 DEF Calm, Counted
<1> QED
  BY <1>1 DEF Calm, QueueExact, SizesAgree

--------------------------------------------------------------------------------

(* What the steps of the filter do to the queues and alarms of RequestQueue. *)

queues == [w \in Workers |-> Waiting(w)]
alarms == {s \in Streams : call[s] # "none"}

LEMMA RequestStep ==
  ASSUME Shape, SizesAgree', NEW s \in Streams, NEW dir \in Directions,
         NEW id \in RequestIds \cup {NoId}, OnRequestHeaders(s, dir, id)
  PROVE  Promise!Next \/ UNCHANGED <<queues, alarms>>
<1> USE DEF Shape, TypeOK
<1> DEFINE w == WorkerOf[s]
<1>0. w \in Workers
  BY QueueFilterAssumption
<1>1. CASE dir = "inbound" /\ id # NoId
  <2>1. s \notin Waiting(w)
    BY DEF Waiting, OnRequestHeaders
  <2>2. \A v \in Workers : Waiting(v)' = IF v = w THEN Waiting(v) \cup {s} ELSE Waiting(v)
    BY <1>1 DEF Waiting, OnRequestHeaders
  <2>3. queues' = [queues EXCEPT ![w] = queues[w] \cup {s}]
    BY <1>0, <2>2 DEF queues
  <2>4. pending'[w] = pending[w] \cup {id}
    BY <1>1, RequestEffect
  <2>5. AboveThreshold(pending[w] \cup {id}) <=> Cardinality(queues'[w]) > Threshold
    BY <1>0, <2>4 DEF AboveThreshold, SizesAgree, queues
  <2>6. \/ AboveThreshold(pending[w] \cup {id}) /\ StoreWarning(s)
        \/ ~AboveThreshold(pending[w] \cup {id}) /\ UNCHANGED call
    BY <1>1 DEF OnRequestHeaders, OnRequestHeadersInbound, HasId
  <2>7. alarms' = IF Cardinality(queues'[w]) > Threshold THEN alarms \cup {s} ELSE alarms
    <3>1. CASE AboveThreshold(pending[w] \cup {id})
      <4>1. StoreWarning(s)
        BY <2>6, <3>1
      <4>2. alarms' = alarms \cup {s}
        BY <4>1 DEF StoreWarning, alarms
      <4> QED
        BY <2>5, <3>1, <4>2
    <3>2. CASE ~AboveThreshold(pending[w] \cup {id})
      <4>1. UNCHANGED call
        BY <2>6, <3>2
      <4> QED
        BY <2>5, <3>2, <4>1 DEF alarms
    <3> QED
      BY <3>1, <3>2
  <2>8. s \notin queues[w]
    BY <1>0, <2>1 DEF queues
  <2>9. Promise!Arrive(s)
    BY <2>3, <2>7, <2>8 DEF Promise!Arrive, Promise!Cardinality, Cardinality, queues, alarms
  <2> QED
    BY <2>9 DEF Promise!Next
<1>2. CASE ~(dir = "inbound" /\ id # NoId)
  <2>1. \A v \in Workers : Waiting(v)' = Waiting(v)
    BY <1>2 DEF Waiting, OnRequestHeaders
  <2>2. call' = call
    BY <1>2 DEF OnRequestHeaders, OnRequestHeadersInbound, HasId
  <2> QED
    BY <2>1, <2>2 DEF queues, alarms
<1> QED
  BY <1>1, <1>2

LEMMA ResponseStep ==
  ASSUME Shape, NEW s \in Streams, OnResponseHeaders(s)
  PROVE  Promise!Next \/ UNCHANGED <<queues, alarms>>
<1> USE DEF Shape, TypeOK
<1> DEFINE w == WorkerOf[s]
<1>0. w \in Workers
  BY QueueFilterAssumption
<1>1. \A v \in Workers : Waiting(v)' = Waiting(v) \ {s}
  BY DEF Waiting, OnResponseHeaders
<1>2. alarms' = alarms
  BY DEF OnResponseHeaders, alarms
<1>3. CASE s \in Waiting(w)
  <2>1. \A v \in Workers : Waiting(v)' = IF v = w THEN Waiting(v) \ {s} ELSE Waiting(v)
    BY <1>1 DEF Waiting
  <2>2. queues' = [queues EXCEPT ![w] = queues[w] \ {s}]
    BY <1>0, <2>1 DEF queues
  <2>3. Promise!Depart(s)
    BY <1>0, <1>2, <1>3, <2>2 DEF Promise!Depart, queues, alarms
  <2> QED
    BY <2>3 DEF Promise!Next
<1>4. CASE s \notin Waiting(w)
  <2>1. \A v \in Workers : s \notin Waiting(v)
    BY <1>4 DEF Waiting
  <2>2. \A v \in Workers : Waiting(v)' = Waiting(v)
    BY <1>1, <2>1
  <2>3. queues' = queues
    BY <2>2 DEF queues
  <2> QED
    BY <1>2, <2>3
<1> QED
  BY <1>3, <1>4

(* Every step of the filter is one of the abstract queue or leaves it as it *)
(* is: arrivals and departures are requests and responses that are inbound  *)
(* and carry an id. (filter.cc:227-253, 281-302)                            *)
THEOREM Implementation ==
  ASSUME EchoesId, ~ClientsAbort, ~ReusesIds
  PROVE  Spec => KeepsPromise
<1>1. Init => Promise!Init
  BY QueueFilterAssumption DEF Init, Promise!Init, Waiting
<1>2. Shape /\ SizesAgree' /\ [Next]_vars => [Promise!Next]_(Promise!vars)
  <2> SUFFICES ASSUME Shape, SizesAgree', [Next]_vars
               PROVE  Promise!Next \/ UNCHANGED <<queues, alarms>>
    BY DEF Promise!vars, queues, alarms
  <2>1. ASSUME NEW s \in Streams, NEW dir \in Directions, NEW id \in RequestIds \cup {NoId},
               OnRequestHeaders(s, dir, id)
        PROVE  Promise!Next \/ UNCHANGED <<queues, alarms>>
    BY <2>1, RequestStep
  <2>2. ASSUME NEW s \in Streams, OnResponseHeaders(s)
        PROVE  Promise!Next \/ UNCHANGED <<queues, alarms>>
    BY <2>2, ResponseStep
  <2>3. ASSUME NEW s \in Streams, OnDelete(s)
        PROVE  UNCHANGED <<queues, alarms>>
    <3>1. \A v \in Workers : Waiting(v)' = Waiting(v)
      BY <2>3 DEF OnDelete, Ends, Waiting, Shape, TypeOK
    <3> QED
      BY <2>3, <3>1 DEF OnDelete, Ends, queues, alarms
  <2>4. ASSUME NEW s \in Streams, Callback(s)
        PROVE  UNCHANGED <<queues, alarms>>
    <3>1. alarms' = alarms
      BY <2>4 DEF Callback, EndCall, UseNullContext, alarms, Shape, TypeOK
    <3>2. \A v \in Workers : Waiting(v)' = Waiting(v)
      BY <2>4 DEF Callback, Waiting
    <3> QED
      BY <3>1, <3>2 DEF queues
  <2>5. CASE Restart
    <3>1. queues' = [w \in Workers |-> {}]
      BY <2>5 DEF Restart, CutOff, Waiting, queues
    <3>2. alarms' = alarms
      BY <2>5 DEF Restart, CutOff, alarms, Shape, TypeOK
    <3>3. Promise!Restart
      BY <3>1, <3>2 DEF Promise!Restart, queues, alarms
    <3> QED
      BY <3>3 DEF Promise!Next
  <2>6. CASE UNCHANGED vars
    BY <2>6 DEF vars, queues, alarms, Waiting
  <2> QED
    BY <2>1, <2>2, <2>3, <2>4, <2>5, <2>6 DEF Next
<1> QED
  BY <1>1, <1>2, AlwaysShape, AlwaysCalm, Exactness, CalmSizes, PTL
     DEF Spec, KeepsPromise, Promise!Spec
================================================================================
