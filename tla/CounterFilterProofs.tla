-------------------------- MODULE CounterFilterProofs --------------------------
(* Theorems of CounterFilter, for every number of workers and streams and   *)
(* every threshold.                                                         *)
EXTENDS CounterFilter, FiniteSetTheorems, TLAPS

(* The stream whose request a worker is counting waits: it can be neither   *)
(* answered nor reset before its callback ends.                             *)
InRequest ==
  \A w \in Workers :
    pc[w] \in {"increment", "check"} => /\ phase[cur[w]] = "waiting"
                                        /\ WorkerOf[cur[w]] = w

(* Only a worker that has been started serves streams. *)
ServedByStarted ==
  /\ \A s \in Streams : phase[s] # "new" => WorkerOf[s] \in started
  /\ \A w \in Workers : pc[w] # "idle" => w \in started

Shape == TypeOK /\ InRequest /\ ServedByStarted

LEMMA InitShape == Init => Shape
<1> SUFFICES ASSUME Init PROVE Shape
  OBVIOUS
<1> USE CounterFilterAssumption DEF Init
<1>1. TypeOK
  BY DEF TypeOK, Phases, Steps
<1>2. InRequest /\ ServedByStarted
  BY DEF InRequest, ServedByStarted
<1> QED
  BY <1>1, <1>2 DEF Shape

LEMMA NextShape == Shape /\ [Next]_vars => Shape'
<1> SUFFICES ASSUME Shape, [Next]_vars PROVE Shape'
  OBVIOUS
<1> USE CounterFilterAssumption DEF Shape, TypeOK, Phases, Steps, Requests, In
<1>1. ASSUME NEW w \in Workers, Start(w) PROVE Shape'
  BY <1>1 DEF Start, InRequest, ServedByStarted
<1>2. ASSUME NEW w \in Workers, Increment(w) PROVE Shape'
  BY <1>2 DEF Increment, InRequest, ServedByStarted
<1>3. ASSUME NEW w \in Workers, Check(w) PROVE Shape'
  <2>1. TypeOK'
    <3>1. cur[w] \in Requests
      BY <1>3 DEF Check, InRequest
    <3> QED
      BY <1>3, <3>1 DEF Check
  <2>2. InRequest' /\ ServedByStarted'
    BY <1>3 DEF Check, InRequest, ServedByStarted
  <2> QED
    BY <2>1, <2>2
<1>4. ASSUME NEW w \in Workers, Decrement(w) PROVE Shape'
  BY <1>4 DEF Decrement, InRequest, ServedByStarted
<1>5. ASSUME NEW w \in Workers, Record(w) PROVE Shape'
  BY <1>5 DEF Record, Counts, InRequest, ServedByStarted
<1>6. ASSUME NEW s \in Streams, OnRequest(s) PROVE Shape'
  <2>1. TypeOK'
    BY <1>6 DEF OnRequest, Fetch
  <2>2. InRequest'
    BY <1>6 DEF OnRequest, Fetch, InRequest
  <2>3. ServedByStarted'
    BY <1>6 DEF OnRequest, Fetch, ServedByStarted
  <2> QED
    BY <2>1, <2>2, <2>3
<1>7. ASSUME NEW s \in Streams, OnResponse(s) PROVE Shape'
  <2>1. TypeOK'
    BY <1>7 DEF OnResponse, Fetch
  <2>2. InRequest'
    BY <1>7 DEF OnResponse, Fetch, InRequest
  <2>3. ServedByStarted'
    BY <1>7 DEF OnResponse, Fetch, ServedByStarted
  <2> QED
    BY <2>1, <2>2, <2>3
<1>8. ASSUME NEW s \in Streams, Abort(s) PROVE Shape'
  BY <1>8 DEF Abort, InRequest, ServedByStarted
<1>9. CASE UNCHANGED vars
  BY <1>9 DEF vars, InRequest, ServedByStarted
<1> QED
  BY <1>1, <1>2, <1>3, <1>4, <1>5, <1>6, <1>7, <1>8, <1>9 DEF Next

LEMMA AlwaysShape == Spec => []Shape
<1> QED
  BY InitShape, NextShape, PTL DEF Spec

(* Every reachable state is well typed: a warning is only stored for a      *)
(* request that came in, because the worker's current stream stays the one  *)
(* it counts. (filter.cc:227-253)                                           *)
THEOREM Typing == Spec => []TypeOK
<1>1. Shape => TypeOK
  BY DEF Shape
<1> QED
  BY <1>1, AlwaysShape, PTL

--------------------------------------------------------------------------------

(* What a request, a response or a reset does to the numbers of streams. *)

Came == Cardinality(Requests)
Answered == Cardinality(In("answered"))

LEMMA Sizes ==
  /\ Came \in Nat
  /\ Answered \in Nat
  /\ \A p \in Phases : IsFiniteSet(In(p))
  /\ IsFiniteSet(Requests)
<1>1. IsFiniteSet(Requests) /\ \A p \in Phases : IsFiniteSet(In(p))
  BY CounterFilterAssumption, FS_Subset DEF Requests, In
<1> QED
  BY <1>1, FS_CardinalityType DEF Came, Answered, Phases

LEMMA SizesAfterRequest ==
  ASSUME Shape, NEW s \in Streams, OnRequest(s)
  PROVE  Came' = Came + 1 /\ Answered' = Answered
<1> USE DEF Shape, TypeOK
<1>1. Requests' = Requests \cup {s} /\ s \notin Requests
  BY DEF OnRequest, Requests, In
<1>2. In("answered")' = In("answered")
  BY DEF OnRequest, In
<1>3. Cardinality(Requests \cup {s}) = Cardinality(Requests) + 1
  BY <1>1, Sizes, FS_AddElement
<1> QED
  BY <1>1, <1>2, <1>3 DEF Came, Answered

LEMMA SizesAfterResponse ==
  ASSUME Shape, NEW s \in Streams, OnResponse(s)
  PROVE  Came' = Came /\ Answered' = Answered + 1
<1> USE DEF Shape, TypeOK
<1>1. Requests' = Requests
  BY DEF OnResponse, Requests, In
<1>2. In("answered")' = In("answered") \cup {s} /\ s \notin In("answered")
  BY DEF OnResponse, In
<1>3. Cardinality(In("answered") \cup {s}) = Cardinality(In("answered")) + 1
  BY <1>2, Sizes, FS_AddElement DEF Phases
<1> QED
  BY <1>1, <1>2, <1>3 DEF Came, Answered

LEMMA SizesAfterAbort ==
  ASSUME Shape, NEW s \in Streams, Abort(s)
  PROVE  Came' = Came /\ Answered' = Answered
<1> USE DEF Shape, TypeOK
<1>1. Requests' = Requests /\ In("answered")' = In("answered")
  BY DEF Abort, Requests, In
<1> QED
  BY <1>1 DEF Came, Answered

(* The copies the workers hold are such that writing them back, with one    *)
(* added or subtracted, keeps the counter in its bounds, however late.      *)
CopiesWithinTraffic ==
  \A w \in Workers :
    /\ pc[w] = "increment" => tmp[w] \in (-Answered)..(Came - 1)
    /\ pc[w] = "decrement" => tmp[w] \in (1 - Answered)..Came

Within == CountWithinTraffic /\ CopiesWithinTraffic

LEMMA NextWithin == Shape /\ Shape' /\ Within /\ [Next]_vars => Within'
<1> SUFFICES ASSUME Shape, Shape', Within, [Next]_vars PROVE Within'
  OBVIOUS
<1> USE CounterFilterAssumption DEF Steps
<1>0. /\ count \in (-Answered)..Came
      /\ count' \in (-Answered')..Came' => CountWithinTraffic'
      /\ Came \in Nat /\ Answered \in Nat
      /\ pc \in [Workers -> Steps] /\ tmp \in [Workers -> Int]
  BY Sizes DEF Within, CountWithinTraffic, Came, Answered, Shape, TypeOK
<1>w. CopiesWithinTraffic
  BY DEF Within
<1>s. Shape
  OBVIOUS
<1>1. ASSUME UNCHANGED phase
      PROVE  Came' = Came /\ Answered' = Answered
  BY <1>1 DEF Came, Answered, Requests, In
<1>2. ASSUME NEW w \in Workers, Start(w) PROVE Within'
  BY <1>0, <1>1, <1>2 DEF Start, Within, CopiesWithinTraffic
<1>3. ASSUME NEW w \in Workers, Increment(w) PROVE Within'
  BY <1>0, <1>1, <1>3 DEF Increment, Within, CopiesWithinTraffic
<1>4. ASSUME NEW w \in Workers, Check(w) \/ Record(w) PROVE Within'
  BY <1>0, <1>1, <1>4 DEF Check, Record, Within, CopiesWithinTraffic
<1>5. ASSUME NEW w \in Workers, Decrement(w) PROVE Within'
  BY <1>0, <1>1, <1>5 DEF Decrement, Within, CopiesWithinTraffic
<1>6. ASSUME NEW s \in Streams, OnRequest(s) PROVE Within'
  <2>1. count' = count /\ Came' = Came + 1 /\ Answered' = Answered
    BY <1>6, <1>s, SizesAfterRequest DEF OnRequest
  <2>2. /\ \A w \in Workers \ {WorkerOf[s]} : pc'[w] = pc[w] /\ tmp'[w] = tmp[w]
        /\ pc'[WorkerOf[s]] = "increment" => tmp'[WorkerOf[s]] = count
        /\ pc'[WorkerOf[s]] # "decrement"
    BY <1>0, <1>6 DEF OnRequest, Fetch
  <2>3. CopiesWithinTraffic'
    BY <1>0, <1>w, <2>1, <2>2 DEF CopiesWithinTraffic
  <2> QED
    BY <1>0, <2>1, <2>3 DEF Within
<1>7. ASSUME NEW s \in Streams, OnResponse(s) PROVE Within'
  <2>1. count' = count /\ Came' = Came /\ Answered' = Answered + 1
    BY <1>7, <1>s, SizesAfterResponse DEF OnResponse
  <2>2. /\ \A w \in Workers \ {WorkerOf[s]} : pc'[w] = pc[w] /\ tmp'[w] = tmp[w]
        /\ pc'[WorkerOf[s]] = "decrement" => tmp'[WorkerOf[s]] = count
        /\ pc'[WorkerOf[s]] # "increment"
    BY <1>0, <1>7 DEF OnResponse, Fetch
  <2>3. CopiesWithinTraffic'
    BY <1>0, <1>w, <2>1, <2>2 DEF CopiesWithinTraffic
  <2> QED
    BY <1>0, <2>1, <2>3 DEF Within
<1>8. ASSUME NEW s \in Streams, Abort(s) PROVE Within'
  BY <1>0, <1>8, SizesAfterAbort DEF Abort, Within, CopiesWithinTraffic
<1>9. CASE UNCHANGED vars
  BY <1>0, <1>1, <1>9 DEF vars, Within, CopiesWithinTraffic
<1> QED
  BY <1>2, <1>3, <1>4, <1>5, <1>6, <1>7, <1>8, <1>9 DEF Next

(* However many workers race on the counter, start late or are refused      *)
(* accesses, it stays between minus the responses and the requests.         *)
(* (filter.cc:41-101)                                                       *)
THEOREM Bounds == Spec => []CountWithinTraffic
<1>1. Init => Within
  <2> SUFFICES ASSUME Init PROVE Within
    OBVIOUS
  <2>1. count = 0 /\ Came \in Nat /\ Answered \in Nat
    BY Sizes DEF Init
  <2> QED
    BY <2>1 DEF Init, Within, CountWithinTraffic, CopiesWithinTraffic, Came, Answered
<1>2. Within => CountWithinTraffic
  BY DEF Within
<1> QED
  BY <1>1, <1>2, NextWithin, AlwaysShape, PTL DEF Spec
--------------------------------------------------------------------------------

(* A proxy with one worker, whose accesses succeed: its copy is never stale. *)

Solo == Cardinality(Workers) = 1 /\ ~AccessFails

Counted == In("waiting") \cup In("aborted")

InStep ==
  Solo => \A w \in Workers :
    /\ pc[w] \in {"idle", "check", "record"} => count = Cardinality(Counted)
    /\ pc[w] = "increment" => tmp[w] = count /\ count + 1 = Cardinality(Counted)
    /\ pc[w] = "decrement" => tmp[w] = count /\ count - 1 = Cardinality(Counted)

LEMMA SoloWorker == Solo => \A v, w \in Workers : v = w
<1> SUFFICES ASSUME Solo PROVE \A v, w \in Workers : v = w
  OBVIOUS
<1>1. IsFiniteSet(Workers)
  BY CounterFilterAssumption
<1>2. PICK x : Workers = {x}
  BY <1>1, FS_Singleton DEF Solo
<1> QED
  BY <1>2

LEMMA CountedSize == IsFiniteSet(Counted) /\ Cardinality(Counted) \in Nat
  BY Sizes, FS_Union, FS_CardinalityType DEF Counted, Phases

LEMMA NextInStep == Shape /\ InStep /\ [Next]_vars => InStep'
<1> SUFFICES ASSUME Shape, InStep, [Next]_vars, Solo PROVE InStep'
  BY DEF InStep, Solo
<1> USE CounterFilterAssumption DEF Steps
<1>0. /\ pc \in [Workers -> Steps] /\ tmp \in [Workers -> Int] /\ count \in Int
      /\ phase \in [Streams -> Phases]
      /\ Cardinality(Counted) \in Nat
      /\ \A v, w \in Workers : v = w
      /\ ~AccessFails
  BY CountedSize, SoloWorker DEF Shape, TypeOK, Solo
<1>1. ASSUME NEW w \in Workers, Start(w) PROVE InStep'
  <2>1. Counted = {}
    BY <1>0, <1>1 DEF Start, Shape, ServedByStarted, Counted, In
  <2>2. Counted' = {}
    BY <1>1, <2>1 DEF Start, Counted, In
  <2>3. pc[w] = "idle"
    BY <1>1 DEF Start, Shape, ServedByStarted
  <2> QED
    BY <1>0, <1>1, <2>2, <2>3, FS_EmptySet DEF Start, InStep
<1>2. ASSUME NEW w \in Workers, Increment(w) \/ Check(w) \/ Decrement(w) \/ Record(w)
      PROVE  InStep'
  <2>1. Counted' = Counted
    BY <1>2 DEF Increment, Check, Decrement, Record, Counted, In
  <2> QED
    BY <1>0, <1>2, <2>1 DEF Increment, Check, Decrement, Record, InStep
<1>3. ASSUME NEW s \in Streams, OnRequest(s) PROVE InStep'
  <2>1. Counted' = Counted \cup {s} /\ s \notin Counted
    BY <1>0, <1>3 DEF OnRequest, Counted, In
  <2>2. Cardinality(Counted') = Cardinality(Counted) + 1
    BY <2>1, CountedSize, FS_AddElement
  <2>3. /\ count' = count
        /\ pc' = [pc EXCEPT ![WorkerOf[s]] = "increment"]
        /\ tmp' = [tmp EXCEPT ![WorkerOf[s]] = count]
        /\ pc[WorkerOf[s]] = "idle"
    BY <1>0, <1>3 DEF OnRequest, Fetch
  <2> QED
    BY <1>0, <2>2, <2>3 DEF InStep
<1>4. ASSUME NEW s \in Streams, OnResponse(s) PROVE InStep'
  <2>1. Counted' = Counted \ {s} /\ s \in Counted
    BY <1>0, <1>4 DEF OnResponse, Counted, In, Phases
  <2>2. Cardinality(Counted') = Cardinality(Counted) - 1
    BY <2>1, CountedSize, FS_RemoveElement
  <2>3. /\ count' = count
        /\ pc' = [pc EXCEPT ![WorkerOf[s]] = "decrement"]
        /\ tmp' = [tmp EXCEPT ![WorkerOf[s]] = count]
        /\ pc[WorkerOf[s]] = "idle"
    BY <1>0, <1>4 DEF OnResponse, Fetch
  <2> QED
    BY <1>0, <2>2, <2>3 DEF InStep
<1>5. ASSUME NEW s \in Streams, Abort(s) PROVE InStep'
  <2>1. Counted' = Counted
    BY <1>0, <1>5 DEF Abort, Counted, In
  <2> QED
    BY <1>5, <2>1 DEF Abort, InStep
<1>6. CASE UNCHANGED vars
  BY <1>6 DEF vars, InStep, Counted, In
<1> QED
  BY <1>1, <1>2, <1>3, <1>4, <1>5, <1>6 DEF Next

LEMMA AlwaysInStep == Spec => []InStep
<1>1. Init => InStep
  <2>1. Init => Counted = {}
    BY DEF Init, Counted, In
  <2> QED
    BY <2>1, FS_EmptySet DEF Init, InStep
<1> QED
  BY <1>1, NextInStep, AlwaysShape, PTL DEF Spec

(* With one worker and no failing access the counter is the number of       *)
(* requests that wait or were reset. (filter.cc:63-101)                     *)
THEOREM SoloCount == Spec => []SoloExact
<1>1. Cardinality(Counted) = Cardinality(In("waiting")) + Cardinality(In("aborted"))
  <2>1. In("waiting") \cap In("aborted") = {}
    BY DEF In
  <2>2. IsFiniteSet(In("waiting")) /\ IsFiniteSet(In("aborted"))
    BY Sizes DEF Phases
  <2>3. Cardinality(In("waiting") \cup In("aborted"))
          = Cardinality(In("waiting")) + Cardinality(In("aborted"))
              - Cardinality(In("waiting") \cap In("aborted"))
    BY <2>2, FS_Union
  <2>4. Cardinality(In("waiting")) \in Nat /\ Cardinality(In("aborted")) \in Nat
    BY <2>2, FS_CardinalityType
  <2> QED
    BY <2>1, <2>3, <2>4, FS_EmptySet DEF Counted
<1>2. InStep => SoloExact
  BY <1>1 DEF InStep, SoloExact, Solo
<1> QED
  BY <1>2, AlwaysInStep, PTL

--------------------------------------------------------------------------------

(* What the queues of RequestQueue are in the states of CounterFilter. *)
queues == [w \in Workers |-> {s \in Counted : WorkerOf[s] = w} \ Arriving(w)]

LEMMA CheckStep ==
  ASSUME Shape, InStep, Solo, NEW w \in Workers, Check(w),
         NEW s \in Streams, cur[w] = s
  PROVE  Promise!Arrive(s)
<1> USE CounterFilterAssumption DEF Shape, TypeOK
<1>1. /\ WorkerOf[s] = w /\ pc[w] = "check" /\ s \in Counted
      /\ \A v \in Workers : v = w
  BY SoloWorker DEF Check, InRequest, Counted, In
<1>2. \A t \in Counted : WorkerOf[t] = w
  BY <1>1 DEF Counted, In
<1>3. queues[w] = Counted \ {s}
  BY <1>1, <1>2 DEF queues, Arriving
<1>4. pc'[w] = "idle" /\ Counted' = Counted
  BY DEF Check, Counted, In
<1>5. queues'[w] = Counted
  BY <1>1, <1>2, <1>4 DEF queues, Arriving
<1>6. queues' = [queues EXCEPT ![w] = queues[w] \cup {s}]
  <2>1. queues[w] \cup {s} = Counted
    BY <1>1, <1>3
  <2>2. \A v \in Workers : queues'[v] = queues'[w]
    BY <1>1
  <2> QED
    BY <1>1, <1>5, <2>1, <2>2 DEF queues
<1>7. Cardinality(queues'[w]) = count
  BY <1>1, <1>5 DEF InStep
<1>8. warned' = IF Cardinality(queues'[w]) > Threshold THEN warned \cup {s} ELSE warned
  BY <1>7 DEF Check, Counts, AboveThreshold, Solo
<1> QED
  BY <1>1, <1>3, <1>6, <1>8
     DEF Promise!Arrive, Promise!Cardinality, Cardinality, queues, Counted

LEMMA AnswerStep ==
  ASSUME Shape, NEW s \in Streams, OnResponse(s)
  PROVE  Promise!Depart(s)
<1> USE CounterFilterAssumption DEF Shape, TypeOK, Phases, Steps
<1> DEFINE w == WorkerOf[s]
<1>1. w \in Workers /\ pc[w] = "idle" /\ s \in Counted /\ Counted' = Counted \ {s}
  BY DEF OnResponse, Counted, In
<1>2. \A v \in Workers : Arriving(v)' = Arriving(v)
  BY DEF OnResponse, Fetch, Arriving
<1>3. s \in queues[w]
  BY <1>1 DEF queues, Arriving
<1>4. queues' = [queues EXCEPT ![w] = queues[w] \ {s}]
  <2>1. queues'[w] = queues[w] \ {s}
    BY <1>1, <1>2 DEF queues
  <2>2. \A v \in Workers \ {w} : queues'[v] = queues[v]
    BY <1>1, <1>2 DEF queues
  <2> QED
    BY <1>1, <2>1, <2>2 DEF queues
<1> QED
  BY <1>3, <1>4 DEF Promise!Depart, OnResponse, queues, Counted

LEMMA RequestStutters ==
  ASSUME Shape, Solo, NEW s \in Streams, OnRequest(s)
  PROVE  UNCHANGED <<queues, warned>>
<1> USE CounterFilterAssumption DEF Shape, TypeOK, Phases, Steps
<1> DEFINE w == WorkerOf[s]
<1>1. w \in Workers /\ pc[w] = "idle" /\ s \notin Counted /\ Counted' = Counted \cup {s}
  BY DEF OnRequest, Counted, In
<1>2. Arriving(w) = {} /\ Arriving(w)' = {s}
  BY <1>1 DEF OnRequest, Fetch, Arriving, Solo
<1>3. \A v \in Workers \ {w} : Arriving(v)' = Arriving(v)
  BY DEF OnRequest, Fetch, Arriving
<1>4. queues' = queues
  BY <1>1, <1>2, <1>3 DEF queues
<1> QED
  BY <1>4 DEF OnRequest

(* With one worker and no failing access the counter build keeps the same   *)
(* promise as the queues it can replace: an alarm on exactly the arrivals   *)
(* that make the queue too long. (filter.cc:230-232, 284-286)               *)
THEOREM Implementation ==
  ASSUME Cardinality(Workers) = 1, ~AccessFails
  PROVE  Spec => KeepsPromise
<1>0. Solo
  BY DEF Solo
<1>1. Init => Promise!Init
  BY CounterFilterAssumption DEF Init, Promise!Init, In, Arriving
<1>2. Shape /\ InStep /\ [Next]_vars => [Promise!Next]_(Promise!vars)
  <2> SUFFICES ASSUME Shape, InStep, [Next]_vars
               PROVE  Promise!Next \/ UNCHANGED <<queues, warned>>
    BY DEF Promise!vars, queues, Counted
  <2>1. ASSUME NEW w \in Workers, Check(w) PROVE Promise!Next
    <3>1. PICK s \in Streams : cur[w] = s
      BY DEF Shape, TypeOK
    <3>2. Promise!Arrive(s)
      BY <1>0, <2>1, <3>1, CheckStep
    <3> QED
      BY <3>2 DEF Promise!Next
  <2>2. ASSUME NEW s \in Streams, OnResponse(s) PROVE Promise!Next
    BY <2>2, AnswerStep DEF Promise!Next
  <2>3. ASSUME NEW s \in Streams, OnRequest(s) PROVE UNCHANGED <<queues, warned>>
    BY <1>0, <2>3, RequestStutters
  <2>4. ASSUME NEW w \in Workers, Increment(w) \/ Decrement(w) \/ Record(w) \/ Start(w)
        PROVE  UNCHANGED <<queues, warned>>
    <3>1. Counted' = Counted /\ \A v \in Workers : Arriving(v)' = Arriving(v)
      BY <2>4 DEF Increment, Decrement, Record, Start, Counted, In, Arriving, Shape, TypeOK
    <3> QED
      BY <2>4, <3>1 DEF Increment, Decrement, Record, Start, queues
  <2>5. ASSUME NEW s \in Streams, Abort(s) PROVE UNCHANGED <<queues, warned>>
    <3>1. Counted' = Counted /\ \A v \in Workers : Arriving(v)' = Arriving(v)
      BY <2>5 DEF Abort, Counted, In, Arriving, Shape, TypeOK
    <3> QED
      BY <2>5, <3>1 DEF Abort, queues
  <2>6. CASE UNCHANGED vars
    BY <2>6 DEF vars, queues, Counted, In, Arriving
  <2> QED
    BY <2>1, <2>2, <2>3, <2>4, <2>5, <2>6 DEF Next
<1> QED
  BY <1>1, <1>2, AlwaysShape, AlwaysInStep, PTL DEF Spec, KeepsPromise, Promise!Spec
================================================================================
