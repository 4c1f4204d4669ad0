----------------------------- MODULE BurstProofs -----------------------------
(* Theorems of Burst, for every number of requests and of threads. *)
EXTENDS Burst, FiniteSetTheorems, TLAPS

(* What the main thread is at, and what it knows of the requests. *)
Progress ==
  /\ main = "submit" => last < NumRequests /\ awaited = 1
  /\ main = "iterate" => last = NumRequests /\ awaited <= last
  /\ main = "cancel" => awaited <= last
  /\ main \in {"iterate", "leave", "over"} /\ awaited > NumRequests
       => \A r \in Requests : phase[r] = "ok"
  /\ main = "iterate" => \A r \in 1..(awaited - 1) : phase[r] = "ok"
  /\ refused => main \in {"leave", "over"}
  /\ main \in {"cancel", "leave", "over"} /\ ~refused
       => awaited > NumRequests \/ phase[awaited] = "raised"

(* Requests are submitted in order, and only those past the last future the *)
(* iterator holds have been cancelled; none of them is still queued.        *)
Ends ==
  \A r \in Requests :
    /\ phase[r] = "new" <=> (main = "submit" \/ refused) /\ r > last
    /\ phase[r] = "cancelled" => /\ main \in {"cancel", "leave", "over"} /\ ~refused
                                 /\ r > last /\ r > awaited
                                 /\ phase[awaited] = "raised"
    /\ r > last /\ main # "submit" /\ ~refused => phase[r] # "queued"

(* Nothing is issued without a thread, and none is missing but at the       *)
(* beginning or where it could not be started.                              *)
Threaded ==
  /\ threads = 0 => Issued = {}
  /\ threads = 0 => refused \/ (main = "submit" /\ last = 0)
  /\ main = "over" => threads = 0 \/ Queued \cup Active = {}

Shape == TypeOK /\ Progress /\ Ends /\ Threaded /\ NoGaps

LEMMA InitShape == Init => Shape
<1> SUFFICES ASSUME Init PROVE Shape
  OBVIOUS
<1> USE BurstAssumption DEF Init, Requests
<1>1. TypeOK
  <2>1. /\ main \in Stages /\ refused \in BOOLEAN
        /\ phase \in [Requests -> Phases]
    BY DEF Stages, Phases
  <2>2. /\ last \in 0..NumRequests /\ threads \in 0..MaxThreads
        /\ awaited \in 1..(NumRequests + 1)
    OBVIOUS
  <2> QED
    BY <2>1, <2>2 DEF TypeOK
<1>2. Issued = {}
  BY DEF Issued, In
<1>3. Progress /\ Ends
  BY DEF Progress, Ends
<1> QED
  BY <1>1, <1>2, <1>3 DEF Shape, Threaded, NoGaps

LEMMA ActiveSize == IsFiniteSet(Active) /\ Cardinality(Active) \in Nat
<1>1. IsFiniteSet(Requests)
  BY BurstAssumption, FS_Interval DEF Requests
<1>2. IsFiniteSet(Active)
  BY <1>1, FS_Subset DEF Active, In
<1> QED
  BY <1>2, FS_CardinalityType

LEMMA SubmitShape == ASSUME Shape, Submit PROVE Shape'
<1> USE BurstAssumption DEF Requests, Stages, Phases
<1> DEFINE s == last + 1
<1>t. TypeOK /\ Progress /\ Ends /\ Threaded /\ NoGaps
  BY DEF Shape
<1>0. /\ s \in Requests /\ phase[s] = "new" /\ main = "submit" /\ ~refused
      /\ last' = s /\ phase' = [phase EXCEPT ![s] = "queued"]
      /\ awaited = 1 /\ awaited' = 1
  BY <1>t DEF Submit, Becomes, Progress, TypeOK
<1>1. /\ threads' \in 0..MaxThreads /\ threads <= threads'
      /\ \/ main' \in {"submit", "iterate"} /\ ~refused' /\ threads' # 0
         \/ main' = "leave" /\ refused' = TRUE /\ threads' = threads
      /\ main' = "iterate" => s = NumRequests
      /\ main' = "submit" => s # NumRequests
  BY <1>t, <1>0, ActiveSize DEF Submit, TypeOK
<1>2. TypeOK'
  <2>1. refused' \in BOOLEAN
    BY <1>t DEF Submit, TypeOK
  <2> QED
    BY <1>t, <1>0, <1>1, <2>1 DEF TypeOK
<1>3. Issued' = Issued
  BY <1>t, <1>0 DEF Issued, In, TypeOK
<1>4. Progress'
  BY <1>t, <1>0, <1>1 DEF Progress, TypeOK
<1>5. Ends'
  BY <1>t, <1>0, <1>1 DEF Ends, TypeOK
<1>6. Threaded'
  BY <1>t, <1>0, <1>1, <1>3 DEF Threaded, TypeOK
<1>7. NoGaps'
  BY <1>t, <1>3 DEF NoGaps
<1> QED
  BY <1>2, <1>4, <1>5, <1>6, <1>7 DEF Shape

LEMMA NextResultShape == ASSUME Shape, NextResult PROVE Shape'
<1> USE BurstAssumption DEF Requests, Stages, Phases
<1>t. TypeOK /\ Progress /\ Ends /\ Threaded /\ NoGaps
  BY DEF Shape
<1>1. TypeOK'
  BY <1>t DEF NextResult, TypeOK, Progress
<1>2. Issued' = Issued /\ Queued' = Queued /\ Active' = Active
  BY DEF NextResult, Issued, Queued, Active, In
<1>3. Progress'
  BY <1>t DEF NextResult, Progress, TypeOK
<1>4. Ends'
  BY <1>t DEF NextResult, Ends, TypeOK
<1>5. Threaded' /\ NoGaps'
  BY <1>t, <1>2 DEF NextResult, Threaded, NoGaps
<1> QED
  BY <1>1, <1>3, <1>4, <1>5 DEF Shape

LEMMA CancelShape == ASSUME Shape, Cancel PROVE Shape'
<1> USE BurstAssumption DEF Requests, Stages, Phases
<1>t. TypeOK /\ Progress /\ Ends /\ Threaded /\ NoGaps
  BY DEF Shape
<1>0. /\ main = "cancel" /\ ~refused /\ UNCHANGED <<awaited, threads, refused>>
      /\ awaited \in Requests /\ phase[awaited] = "raised" /\ awaited <= last
  BY <1>t DEF Cancel, Progress, TypeOK
<1>1. CASE last > awaited
  <2>1. /\ last' = last - 1 /\ main' = main
        /\ phase' = IF phase[last] = "queued"
                    THEN [phase EXCEPT ![last] = "cancelled"] ELSE phase
    BY <1>1 DEF Cancel
  <2>2. TypeOK'
    BY <1>t, <1>0, <1>1, <2>1 DEF TypeOK
  <2>3. Issued' = Issued
    BY <1>t, <2>1 DEF Issued, In, TypeOK
  <2>4. Progress'
    BY <1>t, <1>0, <1>1, <2>1 DEF Progress, TypeOK
  <2>5. Ends'
    BY <1>t, <1>0, <1>1, <2>1 DEF Ends, TypeOK
  <2>6. Threaded' /\ NoGaps'
    BY <1>t, <1>0, <2>1, <2>3 DEF Threaded, NoGaps
  <2> QED
    BY <2>2, <2>4, <2>5, <2>6 DEF Shape
<1>2. CASE ~(last > awaited)
  <2>1. main' = "leave" /\ UNCHANGED <<last, phase>>
    BY <1>2 DEF Cancel
  <2>2. Issued' = Issued
    BY <2>1 DEF Issued, In
  <2>3. TypeOK' /\ Progress' /\ Ends'
    BY <1>t, <1>0, <2>1 DEF TypeOK, Progress, Ends
  <2>4. Threaded' /\ NoGaps'
    BY <1>t, <1>0, <2>1, <2>2 DEF Threaded, NoGaps
  <2> QED
    BY <2>3, <2>4 DEF Shape
<1> QED
  BY <1>1, <1>2

LEMMA LeavePoolShape == ASSUME Shape, LeavePool PROVE Shape'
<1> USE BurstAssumption DEF Requests, Stages, Phases
<1>1. Issued' = Issued /\ Queued' = Queued /\ Active' = Active
  BY DEF LeavePool, Issued, Queued, Active, In
<1>2. TypeOK' /\ Progress' /\ Ends'
  BY DEF LeavePool, Shape, TypeOK, Progress, Ends
<1>3. Threaded' /\ NoGaps'
  BY <1>1 DEF LeavePool, Shape, Threaded, NoGaps
<1> QED
  BY <1>2, <1>3 DEF Shape

(* A thread issues the request that comes after all those issued before. *)
LEMMA BeginShape == ASSUME Shape, NEW r \in Requests, Begin(r) PROVE Shape'
<1> USE BurstAssumption DEF Requests, Stages, Phases
<1>t. TypeOK /\ Progress /\ Ends /\ Threaded /\ NoGaps
  BY DEF Shape
<1>0. /\ phase[r] = "queued" /\ phase' = [phase EXCEPT ![r] = "connecting"]
      /\ UNCHANGED <<main, last, awaited, threads, refused>>
      /\ threads # 0
  BY <1>t, ActiveSize DEF Begin, Becomes, TypeOK
<1>1. TypeOK'
  BY <1>t, <1>0 DEF TypeOK
<1>2. Issued' = Issued \cup {r}
  BY <1>t, <1>0 DEF Issued, In, TypeOK
<1>3. main # "over" /\ (main = "iterate" => r >= awaited)
  BY <1>t, <1>0 DEF Threaded, Progress, Queued, In, TypeOK
<1>4. Progress'
  BY <1>t, <1>0, <1>3 DEF Progress, TypeOK
<1>5. Ends'
  BY <1>t, <1>0 DEF Ends, TypeOK
<1>6. Threaded'
  BY <1>t, <1>0, <1>3 DEF Threaded
<1>7. ASSUME NEW q \in Requests, q < r PROVE q \in Issued
  <2>1. phase[q] # "queued"
    BY <1>7 DEF Begin, Queued, In
  <2>2. phase[q] # "new" /\ phase[q] # "cancelled"
    BY <1>t, <1>0, <1>7 DEF Ends, TypeOK
  <2> QED
    BY <1>t, <2>1, <2>2 DEF Issued, In, TypeOK
<1>8. NoGaps'
  BY <1>t, <1>2, <1>7 DEF NoGaps
<1> QED
  BY <1>1, <1>4, <1>5, <1>6, <1>8 DEF Shape

LEMMA EndShape ==
  ASSUME Shape, NEW r \in Requests, Connect(r) \/ Return(r) PROVE Shape'
<1> USE BurstAssumption DEF Requests, Stages, Phases
<1>t. TypeOK /\ Progress /\ Ends /\ Threaded /\ NoGaps
  BY DEF Shape
<1>0. PICK p \in {"sent", "ok", "raised"} :
        /\ phase[r] \in {"connecting", "sent"} /\ phase' = [phase EXCEPT ![r] = p]
        /\ UNCHANGED <<main, last, awaited, threads, refused>>
  BY DEF Connect, Return, Becomes
<1>1. TypeOK'
  BY <1>t, <1>0 DEF TypeOK
<1>2. Issued' = Issued /\ Queued' = Queued /\ Active' \in SUBSET Active
  BY <1>t, <1>0 DEF Issued, Queued, Active, In, TypeOK
<1>3. Progress'
  BY <1>t, <1>0 DEF Progress, TypeOK
<1>4. Ends'
  BY <1>t, <1>0 DEF Ends, TypeOK
<1>5. Threaded' /\ NoGaps'
  BY <1>t, <1>0, <1>2 DEF Threaded, NoGaps
<1> QED
  BY <1>1, <1>3, <1>4, <1>5 DEF Shape

LEMMA AlwaysShape == Spec => []Shape
<1>1. Shape /\ [Next]_vars => Shape'
  <2> SUFFICES ASSUME Shape, [Next]_vars PROVE Shape'
    OBVIOUS
  <2>1. CASE Main
    BY <2>1, SubmitShape, NextResultShape, CancelShape, LeavePoolShape DEF Main
  <2>2. CASE \E r \in Requests : Thread(r)
    BY <2>2, BeginShape, EndShape DEF Thread
  <2>3. CASE UNCHANGED vars
    BY <2>3 DEF vars, Shape, TypeOK, Progress, Ends, Threaded, NoGaps,
                Issued, Queued, Active, In
  <2> QED
    BY <2>1, <2>2, <2>3 DEF Next
<1> QED
  BY <1>1, InitShape, PTL DEF Spec

--------------------------------------------------------------------------------

(* Every reachable state is well typed: the future the main thread looks at *)
(* and those it cancels are always ones it has. (kube_env.py:205-207)       *)
THEOREM Typing == Spec => []TypeOK
<1>1. Shape => TypeOK
  BY DEF Shape
<1> QED
  BY <1>1, AlwaysShape, PTL

(* The requests that are issued are the first ones, however the cancelling  *)
(* thread and those of the pool interleave. (kube_env.py:205-206)           *)
THEOREM InOrder == Spec => []NoGaps
<1>1. Shape => NoGaps
  BY DEF Shape
<1> QED
  BY <1>1, AlwaysShape, PTL

LEMMA LeftOut == Shape => LeftOutAfterRaise
<1> SUFFICES ASSUME Shape, main = "over", NEW r \in Requests \ Issued
             PROVE  \/ \E q \in 1..(r - 1) : phase[q] = "raised"
                    \/ refused /\ (phase[r] = "new" \/ threads = 0)
  BY DEF LeftOutAfterRaise
<1> USE DEF Shape, TypeOK, Requests
<1>1. phase[r] \in {"new", "queued", "cancelled"}
  BY DEF Issued, In, Phases
<1>2. CASE phase[r] = "new"
  BY <1>2 DEF Ends
<1>3. CASE phase[r] = "queued"
  BY <1>3 DEF Threaded, Queued, In
<1>4. CASE phase[r] = "cancelled"
  <2>1. phase[awaited] = "raised" /\ awaited \in 1..(r - 1)
    BY <1>4 DEF Ends
  <2> QED
    BY <2>1
<1> QED
  BY <1>1, <1>2, <1>3, <1>4

(* What a burst leaves out follows a request that raised, or was not        *)
(* submitted when a thread could not be started. (kube_env.py:196-207)      *)
THEOREM Omissions == Spec => []LeftOutAfterRaise
<1> QED
  BY LeftOut, AlwaysShape, PTL

--------------------------------------------------------------------------------

(* The main thread looks at the result of a request that was submitted and  *)
(* not cancelled, and a thread is there to take it. (kube_env.py:205-206)   *)
THEOREM NotInVain == Spec => []AwaitsTheLiving
<1>1. Shape => AwaitsTheLiving
  BY DEF Shape, TypeOK, Progress, Ends, Threaded, AwaitsTheLiving, Requests
<1> QED
  BY <1>1, AlwaysShape, PTL

--------------------------------------------------------------------------------

LEMMA InSize ==
  ASSUME NEW S PROVE IsFiniteSet(In(S)) /\ Cardinality(In(S)) \in Nat
<1>1. IsFiniteSet(Requests)
  BY BurstAssumption, FS_Interval DEF Requests
<1>2. IsFiniteSet(In(S))
  BY <1>1, FS_Subset DEF In
<1> QED
  BY <1>2, FS_CardinalityType

(* A request that goes from one phase to another is counted accordingly. *)
LEMMA InMoves ==
  ASSUME TypeOK, NEW r \in Requests, NEW p \in Phases,
         phase' = [phase EXCEPT ![r] = p], NEW S
  PROVE  Cardinality(In(S))' + (IF phase[r] \in S THEN 1 ELSE 0)
           = Cardinality(In(S)) + (IF p \in S THEN 1 ELSE 0)
<1> DEFINE A == In(S)
           B == In(S)'
<1>1. B = IF p \in S THEN A \cup {r} ELSE A \ {r}
  BY DEF In, TypeOK
<1>2. r \in A <=> phase[r] \in S
  BY DEF In
<1>3. IsFiniteSet(A) /\ Cardinality(A) \in Nat
  BY InSize
<1> HIDE DEF A, B
<1>4. Cardinality(A \cup {r}) = IF r \in A THEN Cardinality(A) ELSE Cardinality(A) + 1
  BY <1>3, FS_AddElement
<1>5. Cardinality(A \ {r}) = IF r \in A THEN Cardinality(A) - 1 ELSE Cardinality(A)
  BY <1>3, FS_RemoveElement
<1>6. Cardinality(B) + (IF phase[r] \in S THEN 1 ELSE 0)
        = Cardinality(A) + (IF p \in S THEN 1 ELSE 0)
  BY <1>1, <1>2, <1>3, <1>4, <1>5
<1> QED
  BY <1>6 DEF A, B

(* What the phases are worth, in steps. *)
Worth == [q \in Phases |-> IF q = "new" THEN 4 ELSE IF q = "queued" THEN 3
                           ELSE IF q = "connecting" THEN 2 ELSE IF q = "sent" THEN 1 ELSE 0]

LEMMA Worths ==
  /\ Worth["new"] = 4 /\ Worth["queued"] = 3
  /\ Worth["connecting"] = 2 /\ Worth["sent"] = 1
  /\ Worth["ok"] = 0 /\ Worth["raised"] = 0 /\ Worth["cancelled"] = 0
BY DEF Worth, Phases

LEMMA StepsType == StepsLeft \in Nat
<1>1. /\ Cardinality(In({"new"})) \in Nat
      /\ Cardinality(In({"new", "queued"})) \in Nat
      /\ Cardinality(In({"new", "queued", "connecting"})) \in Nat
      /\ Cardinality(In({"new", "queued", "connecting", "sent"})) \in Nat
  BY InSize
<1> QED
  BY <1>1 DEF StepsLeft

LEMMA StepsMove ==
  ASSUME TypeOK, NEW r \in Requests, NEW p \in Phases,
         phase' = [phase EXCEPT ![r] = p]
  PROVE  /\ StepsLeft \in Nat /\ StepsLeft' \in Nat
         /\ StepsLeft' + Worth[phase[r]] = StepsLeft + Worth[p]
<1> DEFINE Size(S) == Cardinality(In(S))
           Is(q, S) == IF q \in S THEN 1 ELSE 0
<1>1. phase[r] \in Phases
  BY DEF TypeOK
<1>2. ASSUME NEW S
      PROVE  Size(S) \in Nat /\ Size(S)' \in Nat /\ Size(S)' + Is(phase[r], S) = Size(S) + Is(p, S)
  <2>1. Size(S) \in Nat
    BY InSize
  <2>2. Size(S)' + Is(phase[r], S) = Size(S) + Is(p, S)
    BY InMoves
  <2>3. Size(S)' \in Nat
    <3>1. IsFiniteSet(In(S)') /\ Cardinality(In(S)') \in Nat
      <4>1. IsFiniteSet(Requests)
        BY BurstAssumption, FS_Interval DEF Requests
      <4>2. IsFiniteSet(In(S)')
        BY <4>1, FS_Subset DEF In
      <4> QED
        BY <4>2, FS_CardinalityType
    <3> QED
      BY <3>1
  <2> QED
    BY <2>1, <2>2, <2>3
<1> DEFINE S1 == {"new"}
           S2 == {"new", "queued"}
           S3 == {"new", "queued", "connecting"}
           S4 == {"new", "queued", "connecting", "sent"}
<1>3. ASSUME NEW q \in Phases
      PROVE  Is(q, S1) + Is(q, S2) + Is(q, S3) + Is(q, S4) = Worth[q]
  BY DEF Worth, Phases
<1>4. /\ StepsLeft = Size(S1) + Size(S2) + Size(S3) + Size(S4)
      /\ StepsLeft' = Size(S1)' + Size(S2)' + Size(S3)' + Size(S4)'
  BY DEF StepsLeft
<1>5. ASSUME NEW q, NEW S PROVE Is(q, S) \in {0, 1}
  OBVIOUS
<1>6. /\ Size(S1) \in Nat /\ Size(S2) \in Nat /\ Size(S3) \in Nat /\ Size(S4) \in Nat
      /\ Size(S1)' \in Nat /\ Size(S2)' \in Nat /\ Size(S3)' \in Nat /\ Size(S4)' \in Nat
      /\ Size(S1)' + Is(phase[r], S1) = Size(S1) + Is(p, S1)
      /\ Size(S2)' + Is(phase[r], S2) = Size(S2) + Is(p, S2)
      /\ Size(S3)' + Is(phase[r], S3) = Size(S3) + Is(p, S3)
      /\ Size(S4)' + Is(phase[r], S4) = Size(S4) + Is(p, S4)
  BY <1>2
<1>7. /\ Is(p, S1) + Is(p, S2) + Is(p, S3) + Is(p, S4) = Worth[p]
      /\ Is(phase[r], S1) + Is(phase[r], S2) + Is(phase[r], S3) + Is(phase[r], S4)
           = Worth[phase[r]]
  BY <1>1, <1>3
<1> HIDE DEF Size, Is, S1, S2, S3, S4
<1>8. /\ Is(p, S1) \in {0, 1} /\ Is(p, S2) \in {0, 1}
      /\ Is(p, S3) \in {0, 1} /\ Is(p, S4) \in {0, 1}
      /\ Is(phase[r], S1) \in {0, 1} /\ Is(phase[r], S2) \in {0, 1}
      /\ Is(phase[r], S3) \in {0, 1} /\ Is(phase[r], S4) \in {0, 1}
  BY <1>5
<1> QED
  BY <1>4, <1>6, <1>7, <1>8

LEMMA Smaller ==
  ASSUME Shape, Next PROVE ToDo' < ToDo
<1> USE BurstAssumption DEF Requests, Phases
<1>t. TypeOK /\ Progress
  BY DEF Shape
<1>n. StepsLeft \in Nat /\ last \in Nat /\ awaited \in 1..(NumRequests + 1)
  BY <1>t, StepsType DEF TypeOK
<1> DEFINE Rank(m) == [submit |-> 4, iterate |-> 3, cancel |-> 2, leave |-> 1, over |-> 0][m]
<1>r. /\ Rank("submit") = 4 /\ Rank("iterate") = 3 /\ Rank("cancel") = 2
      /\ Rank("leave") = 1 /\ Rank("over") = 0
  OBVIOUS
<1>d. ToDo = 2 * StepsLeft + last + (NumRequests + 1 - awaited) + Rank(main)
  BY DEF ToDo
<1>e. ToDo' = 2 * StepsLeft' + last' + (NumRequests + 1 - awaited') + Rank(main')
  BY DEF ToDo
<1> HIDE DEF Rank
<1>1. CASE Submit
  <2>1. /\ last' = last + 1 /\ last' \in Requests /\ awaited' = awaited
        /\ main = "submit" /\ main' \in {"submit", "iterate", "leave"}
        /\ phase[last'] = "new" /\ phase' = [phase EXCEPT ![last'] = "queued"]
    BY <1>1, <1>t DEF Submit, Becomes, Progress, TypeOK
  <2>2. /\ StepsLeft' \in Nat
        /\ StepsLeft' + Worth["new"] = StepsLeft + Worth["queued"]
    BY <1>t, <2>1, StepsMove
  <2>3. PICK s \in Nat : s = StepsLeft' /\ s + Worth["new"] = StepsLeft + Worth["queued"]
    BY <2>2
  <2>4. ToDo' = 2 * s + (last + 1) + (NumRequests + 1 - awaited) + Rank(main')
    BY <1>e, <2>1, <2>3
  <2>5. Rank(main) = 4 /\ Rank(main') \in 0..4
    BY <1>r, <2>1
  <2>6. s + 4 = StepsLeft + 3
    BY <2>3, Worths
  <2> QED
    BY <1>d, <1>n, <2>4, <2>5, <2>6
<1>2. CASE NextResult
  <2>1. StepsLeft' = StepsLeft
    BY <1>2 DEF NextResult, StepsLeft, In
  <2>2. /\ last' = last /\ main = "iterate"
        /\ \/ awaited' = awaited + 1 /\ main' \in {"iterate", "leave"}
           \/ awaited' = awaited /\ main' = "cancel"
    BY <1>2 DEF NextResult
  <2> QED
    BY <1>d, <1>e, <1>n, <1>r, <2>1, <2>2
<1>3. CASE Cancel
  <2>1. PICK s \in Nat : s = StepsLeft' /\ s <= StepsLeft
    <3>1. CASE last > awaited /\ phase[last] = "queued"
      <4>1. last \in Requests /\ phase' = [phase EXCEPT ![last] = "cancelled"]
        BY <1>3, <1>n, <1>t, <3>1 DEF Cancel, TypeOK
      <4>2. /\ StepsLeft' \in Nat
            /\ StepsLeft' + Worth["queued"] = StepsLeft + Worth["cancelled"]
        BY <1>t, <3>1, <4>1, StepsMove
      <4>3. PICK s \in Nat : s = StepsLeft' /\ s + Worth["queued"] = StepsLeft + Worth["cancelled"]
        BY <4>2
      <4>4. s + 3 = StepsLeft + 0
        BY <4>3, Worths
      <4>5. s <= StepsLeft
        BY <1>n, <4>4
      <4> QED
        BY <4>3, <4>5
    <3>2. CASE ~(last > awaited /\ phase[last] = "queued")
      <4>1. StepsLeft' = StepsLeft
        BY <1>3, <3>2 DEF Cancel, StepsLeft, In
      <4> QED
        BY <1>n, <4>1
    <3> QED
      BY <3>1, <3>2
  <2>2. /\ awaited' = awaited /\ main = "cancel"
        /\ \/ last' = last - 1 /\ main' = main
           \/ last' = last /\ main' = "leave"
    BY <1>3 DEF Cancel
  <2> QED
    BY <1>d, <1>e, <1>n, <1>r, <2>1, <2>2
<1>4. CASE LeavePool
  <2>1. StepsLeft' = StepsLeft
    BY <1>4 DEF LeavePool, StepsLeft, In
  <2>2. UNCHANGED <<last, awaited>> /\ main = "leave" /\ main' = "over"
    BY <1>4 DEF LeavePool
  <2> QED
    BY <1>d, <1>e, <1>n, <1>r, <2>1, <2>2
<1>5. ASSUME NEW r \in Requests, Thread(r) PROVE ToDo' < ToDo
  <2>1. PICK p \in {"connecting", "sent", "ok", "raised"} :
          /\ phase' = [phase EXCEPT ![r] = p]
          /\ \/ phase[r] = "queued" /\ p = "connecting"
             \/ phase[r] = "connecting" /\ p \in {"sent", "raised"}
             \/ phase[r] = "sent" /\ p \in {"ok", "raised"}
          /\ UNCHANGED <<main, last, awaited>>
    BY <1>5 DEF Thread, Begin, Connect, Return, Becomes
  <2>2. p \in Phases
    OBVIOUS
  <2>3. /\ StepsLeft' \in Nat
        /\ StepsLeft' + Worth[phase[r]] = StepsLeft + Worth[p]
    BY <1>t, <2>1, <2>2, StepsMove
  <2>4. PICK s \in Nat : s = StepsLeft' /\ s + Worth[phase[r]] = StepsLeft + Worth[p]
    BY <2>3
  <2>5. s < StepsLeft
    BY <1>n, <2>1, <2>4, Worths
  <2>6. ToDo' = 2 * s + last + (NumRequests + 1 - awaited) + Rank(main)
    BY <1>e, <2>1, <2>4
  <2>7. Rank(main) \in 0..4
    BY <1>r, <1>t DEF TypeOK, Stages
  <2> QED
    BY <1>d, <1>n, <2>4, <2>5, <2>6, <2>7
<1> QED
  BY <1>1, <1>2, <1>3, <1>4, <1>5 DEF Next, Main

LEMMA ToDoType == Shape => ToDo \in Nat
<1> SUFFICES ASSUME Shape PROVE ToDo \in Nat
  OBVIOUS
<1>1. /\ last \in Nat /\ main \in Stages
      /\ NumRequests + 1 - awaited \in Nat
  BY BurstAssumption DEF Shape, TypeOK
<1>2. [submit |-> 4, iterate |-> 3, cancel |-> 2, leave |-> 1, over |-> 0][main] \in Nat
  BY <1>1 DEF Stages
<1> QED
  BY <1>1, <1>2, StepsType DEF ToDo

LEMMA InitToDo == Init => ToDo = 9 * NumRequests + 4
<1> SUFFICES ASSUME Init PROVE ToDo = 9 * NumRequests + 4
  OBVIOUS
<1>1. Cardinality(Requests) = NumRequests
  BY BurstAssumption, FS_Interval DEF Requests
<1>2. /\ In({"new"}) = Requests
      /\ In({"new", "queued"}) = Requests
      /\ In({"new", "queued", "connecting"}) = Requests
      /\ In({"new", "queued", "connecting", "sent"}) = Requests
  BY DEF Init, In
<1>3. StepsLeft = 4 * NumRequests
  BY <1>1, <1>2, BurstAssumption DEF StepsLeft
<1>4. /\ last = 0 /\ awaited = 1
      /\ [submit |-> 4, iterate |-> 3, cancel |-> 2, leave |-> 1, over |-> 0][main] = 4
  BY DEF Init
<1> QED
  BY <1>3, <1>4, BurstAssumption DEF ToDo

(* Every step of a burst, of the main thread or of the pool, leaves less to *)
(* do, and what is left is a natural number, at most 9 * NumRequests + 4:   *)
(* no burst of any size goes on for ever. (kube_env.py:200-207)             *)
THEOREM Termination == Spec => [](ToDo \in 0..(9 * NumRequests + 4)) /\ EveryStepCounts
<1> DEFINE Bound == ToDo <= 9 * NumRequests + 4
           Natural == ToDo \in Nat
<1>1. Shape /\ [Next]_vars => [ToDo' < ToDo]_vars
  BY Smaller
<1>2. Init => Bound
  BY InitToDo, BurstAssumption
<1>3. Shape /\ Natural /\ Natural' /\ Bound /\ [Next]_vars => Bound'
  <2> SUFFICES ASSUME Shape, Natural, Natural', Bound, [Next]_vars PROVE Bound'
    OBVIOUS
  <2>1. ToDo \in Nat /\ ToDo' \in Nat
    OBVIOUS
  <2>2. CASE Next
    <3>1. PICK t \in Nat : t = ToDo'
      BY <2>1
    <3>2. t < ToDo
      BY <2>2, <3>1, Smaller
    <3>3. t <= 9 * NumRequests + 4
      BY <2>1, <3>2, BurstAssumption
    <3> QED
      BY <3>1, <3>3
  <2>3. CASE UNCHANGED vars
    BY <2>3 DEF vars, ToDo, StepsLeft, In
  <2> QED
    BY <2>2, <2>3
<1>4. Natural /\ Bound => ToDo \in 0..(9 * NumRequests + 4)
  BY BurstAssumption
<1>5. Shape => Natural
  BY ToDoType
<1> HIDE DEF Bound, Natural
<1> QED
  BY <1>1, <1>2, <1>3, <1>4, <1>5, AlwaysShape, PTL DEF Spec, EveryStepCounts

--------------------------------------------------------------------------------

(* Whether something has gone wrong, as RequestBurst sees it. *)
Broken == refused \/ In({"raised"}) # {}

LEMMA LeavePoolStep == ASSUME Shape, LeavePool PROVE Promise!Finish
<1> USE DEF Requests
<1>1. Active = {}
  BY DEF LeavePool, Shape, Threaded, Issued, Active, In
<1>2. Issued = Requests \/ Broken
  <2>1. CASE refused \/ (phase[awaited] = "raised" /\ awaited \in Requests)
    BY <2>1 DEF Broken, In
  <2>2. CASE ~(refused \/ (phase[awaited] = "raised" /\ awaited \in Requests))
    <3>1. \A r \in Requests : phase[r] = "ok"
      BY <2>2, BurstAssumption DEF LeavePool, Shape, Progress, TypeOK
    <3> QED
      BY <3>1 DEF Issued, In
  <2> QED
    BY <2>1, <2>2
<1>3. UNCHANGED <<Issued, Active, Broken>>
  BY DEF LeavePool, Issued, Active, Broken, In
<1> QED
  BY <1>1, <1>2, <1>3 DEF Promise!Finish, LeavePool, Broken

LEMMA BeginStep ==
  ASSUME Shape, NEW r \in Requests, Begin(r) PROVE Promise!Issue(r)
<1> USE DEF Requests
<1>1. /\ phase[r] = "queued" /\ phase' = [phase EXCEPT ![r] = "connecting"]
      /\ phase \in [Requests -> Phases]
      /\ threads \in 0..MaxThreads /\ Cardinality(Active) < threads
      /\ refused' = refused /\ main' = main
  BY DEF Begin, Becomes, Shape, TypeOK
<1>2. main # "over"
  BY <1>1, ActiveSize DEF Shape, Threaded, Queued, In
<1>3. /\ r \notin Issued /\ Issued' = Issued \cup {r}
      /\ r \notin Active /\ Active' = Active \cup {r}
      /\ In({"raised"})' = In({"raised"})
  BY <1>1 DEF Issued, Active, In
<1>4. Cardinality(Active') <= MaxThreads
  <2>1. Cardinality(Active \cup {r}) = Cardinality(Active) + 1
    BY <1>3, ActiveSize, FS_AddElement
  <2> QED
    BY <1>1, <1>3, <2>1, ActiveSize, BurstAssumption
<1> QED
  BY <1>1, <1>2, <1>3, <1>4 DEF Promise!Issue, Promise!Cardinality, Cardinality

LEMMA EndStep ==
  ASSUME Shape, NEW r \in Requests, Connect(r) \/ Return(r)
  PROVE  Promise!Complete(r) \/ UNCHANGED <<Issued, Active, Broken, main>>
<1> USE DEF Requests, Phases
<1>1. /\ phase \in [Requests -> Phases]
      /\ refused' = refused /\ main' = main
      /\ phase[r] \in {"connecting", "sent"}
  BY DEF Connect, Return, Becomes, Shape, TypeOK
<1>2. CASE phase' = [phase EXCEPT ![r] = "sent"]
  BY <1>1, <1>2 DEF Issued, Active, Broken, In
<1>3. CASE phase' = [phase EXCEPT ![r] = "ok"]
  <2>1. /\ r \in Active /\ Active' = Active \ {r} /\ Issued' = Issued
        /\ In({"raised"})' = In({"raised"})
    BY <1>1, <1>3 DEF Issued, Active, In
  <2> QED
    BY <1>1, <2>1 DEF Promise!Complete
<1>4. CASE phase' = [phase EXCEPT ![r] = "raised"]
  <2>1. /\ r \in Active /\ Active' = Active \ {r} /\ Issued' = Issued
        /\ In({"raised"})' # {}
    BY <1>1, <1>4 DEF Issued, Active, In
  <2> QED
    BY <1>1, <2>1 DEF Promise!Complete
<1> QED
  BY <1>2, <1>3, <1>4 DEF Connect, Return, Becomes

(* The pool implements the burst: it issues each request once, no more than *)
(* MaxThreads at a time, and is over only when all that it issued is, and   *)
(* all was issued unless something broke. (kube_env.py:193-207)             *)
THEOREM Implementation == Spec => KeepsPromise
<1>1. Init => Promise!Init
  BY DEF Init, Promise!Init, Issued, Active, In
<1>2. Shape /\ [Next]_vars => [Promise!Next]_(Promise!vars)
  <2> SUFFICES ASSUME Shape, [Next]_vars
               PROVE  Promise!Next \/ UNCHANGED <<Issued, Active, Broken, main = "over">>
    BY DEF Promise!vars, Broken
  <2>1. CASE Submit
    <3>1. /\ UNCHANGED <<Issued, Active, In({"raised"})>>
          /\ main # "over" /\ main' # "over"
      BY <2>1 DEF Submit, Becomes, Shape, TypeOK, Issued, Active, In
    <3>2. refused' = refused \/ refused' = TRUE
      BY <2>1 DEF Submit
    <3> QED
      BY <3>1, <3>2 DEF Promise!Next, Promise!Break, Broken
  <2>2. CASE NextResult \/ Cancel
    <3>1. /\ UNCHANGED <<Issued, Active, Broken>>
          /\ main # "over" /\ main' # "over"
      BY <2>2 DEF NextResult, Cancel, Shape, TypeOK, Issued, Active, Broken, In
    <3> QED
      BY <3>1
  <2>3. CASE LeavePool
    BY <2>3, LeavePoolStep DEF Promise!Next
  <2>4. ASSUME NEW r \in Requests, Begin(r) PROVE Promise!Next
    BY <2>4, BeginStep DEF Promise!Next
  <2>5. ASSUME NEW r \in Requests, Connect(r) \/ Return(r)
        PROVE  Promise!Next \/ UNCHANGED <<Issued, Active, Broken, main>>
    BY <2>5, EndStep DEF Promise!Next
  <2>6. CASE UNCHANGED vars
    BY <2>6 DEF vars, Issued, Active, Broken, In
  <2> QED
    BY <2>1, <2>2, <2>3, <2>4, <2>5, <2>6 DEF Next, Main, Thread
<1> QED
  BY <1>1, <1>2, AlwaysShape, PTL DEF Spec, KeepsPromise, Promise!Spec
===============================================================================
