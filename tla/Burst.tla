-------------------------------- MODULE Burst ---------------------------------
(***************************************************************************)
(* The burst of kube_env.py: do_burst starts a process that runs           *)
(* burst_loop, which maps timeout_request over the numbers of the requests *)
(* in a ThreadPoolExecutor.  The main thread of that process submits all   *)
(* the requests, looks at their results in order, and leaves the with      *)
(* block; the threads of the pool run beside it.                           *)
(*                                                                         *)
(* The executor is Python's and not part of the repository: its queue,     *)
(* futures and shutdown are modelled from how burst_loop uses them.        *)
(***************************************************************************)
EXTENDS Naturals, FiniteSets

CONSTANTS
  NumRequests,  \* NUM_REQUESTS
  MaxThreads    \* MAX_THREADS

ASSUME BurstAssumption == NumRequests \in Nat \ {0} /\ MaxThreads \in Nat \ {0}

VARIABLES
  main,      \* what the main thread does next
  last,      \* fs: the futures it still holds are those up to this one
  awaited,   \* the request whose result it looks at
  threads,   \* how many threads the pool has
  refused,   \* a thread could not be started
  phase      \* what has become of each request

vars == <<main, last, awaited, threads, refused, phase>>

Requests == 1..NumRequests

Stages == {"submit", "iterate", "cancel", "leave", "over"}

(* "ok" has been answered, or was not in time (ReadTimeout); "raised" ended *)
(* with another exception.                                                  *)
Phases == {"new", "queued", "cancelled", "connecting", "sent", "ok", "raised"}

In(phases) == {r \in Requests : phase[r] \in phases}

Queued == In({"queued"})
Active == In({"connecting", "sent"})
Issued == In({"connecting", "sent", "ok", "raised"})

Init ==
  /\ main = "submit"
  /\ last = 0 /\ awaited = 1
  /\ threads = 0 /\ refused = FALSE
  /\ phase = [r \in Requests |-> "new"]

--------------------------------------------------------------------------------

Becomes(r, before, after) == phase[r] = before /\ phase' = [phase EXCEPT ![r] = after]

OneTooMany ==                            \* mutant: off by one
  /\ main = "submit"
  /\ last' = last + 1
  /\ main' = IF last' > NumRequests THEN "iterate" ELSE "submit"
  /\ phase' = [phase EXCEPT ![last'] = "queued"]
  /\ threads' = IF threads < MaxThreads THEN threads + 1 ELSE threads
  /\ UNCHANGED <<awaited, refused>>

IgnoreRefusal ==                         \* mutant: goes on without a thread
  /\ main = "submit"
  /\ last' = last + 1
  /\ Becomes(last', "new", "queued")
  /\ main' = IF last' = NumRequests THEN "iterate" ELSE "submit"
  /\ threads' \in {threads, threads + 1} \cap 0..MaxThreads
  /\ UNCHANGED <<awaited, refused>>

(* The next request is queued, and a thread is started for it unless one is *)
(* idle or the pool is full.                                                *)
Submit ==
  /\ main = "submit"
  /\ last' = last + 1
  /\ Becomes(last', "new", "queued")
  /\ \/ /\ main' = IF last' = NumRequests THEN "iterate" ELSE "submit"
        /\ \/ threads < MaxThreads /\ threads' = threads + 1
           \/ (threads = MaxThreads \/ Cardinality(Active) < threads) /\ UNCHANGED threads
        /\ UNCHANGED refused
     \/ threads < MaxThreads /\ main' = "leave" /\ refused' = TRUE /\ UNCHANGED threads
  /\ UNCHANGED awaited

(* The result of the awaited request: the next one is looked at, or an      *)
(* exception ends the iteration.                                            *)
NextResult ==
  /\ main = "iterate"
  /\ \/ /\ phase[awaited] = "ok"
        /\ awaited' = awaited + 1
        /\ main' = IF awaited = last THEN "leave" ELSE "iterate"
     \/ phase[awaited] = "raised" /\ main' = "cancel" /\ UNCHANGED awaited
  /\ UNCHANGED <<last, threads, refused, phase>>

(* The iterator cancels the futures it holds, from the last one down.  One  *)
(* that has begun cannot be cancelled.                                      *)
CancelUpwards ==                         \* mutant: from the first one up
  /\ main = "cancel"
  /\ IF \E r \in Queued : r > awaited
     THEN /\ \E r \in Queued :
               /\ \A q \in Queued : r <= q
               /\ Becomes(r, "queued", "cancelled")
          /\ UNCHANGED main
     ELSE main' = "leave" /\ UNCHANGED phase
  /\ UNCHANGED <<last, awaited, threads, refused>>

Cancel ==
  /\ main = "cancel"
  /\ IF last > awaited
     THEN /\ last' = last - 1
          /\ phase' = IF phase[last] = "queued"
                      THEN [phase EXCEPT ![last] = "cancelled"] ELSE phase
          /\ UNCHANGED main
     ELSE main' = "leave" /\ UNCHANGED <<last, phase>>
  /\ UNCHANGED <<awaited, threads, refused>>

(* Leaving the with block joins the threads, which first empty the queue;   *)
(* a pool without threads has nothing to join.                              *)
DropQueue ==                             \* mutant: what is queued is dropped
  /\ main = "leave" /\ main' = "over"
  /\ Active = {}
  /\ UNCHANGED <<last, awaited, threads, refused, phase>>

JoinAll ==                               \* mutant: waits for the cancelled ones
  /\ main = "leave" /\ main' = "over"
  /\ threads = 0 \/ Issued = Requests
  /\ UNCHANGED <<last, awaited, threads, refused, phase>>

LeavePool ==
  /\ main = "leave" /\ main' = "over"
  /\ threads = 0 \/ Queued \cup Active = {}
  /\ UNCHANGED <<last, awaited, threads, refused, phase>>

--------------------------------------------------------------------------------

(* A thread takes the request that has been queued longest. *)
ThreadPerRequest(r) ==                   \* mutant: the pool has no limit
  /\ Becomes(r, "queued", "connecting")
  /\ \A q \in Queued : r <= q
  /\ UNCHANGED <<main, last, awaited, threads, refused>>

Begin(r) ==
  /\ Becomes(r, "queued", "connecting")
  /\ \A q \in Queued : r <= q
  /\ Cardinality(Active) < threads
  /\ UNCHANGED <<main, last, awaited, threads, refused>>

(* timeout_request: the request is sent, or no connection could be made in  *)
(* the time it has.                                                         *)
Connect(r) ==
  /\ Becomes(r, "connecting", "sent") \/ Becomes(r, "connecting", "raised")
  /\ UNCHANGED <<main, last, awaited, threads, refused>>

Retry(r) ==                              \* mutant: tries again after a timeout
  /\ Becomes(r, "sent", "ok") \/ Becomes(r, "sent", "queued")
  /\ UNCHANGED <<main, last, awaited, threads, refused>>

(* An answer, or none in time; or the connection is lost. *)
Return(r) ==
  /\ Becomes(r, "sent", "ok") \/ Becomes(r, "sent", "raised")
  /\ UNCHANGED <<main, last, awaited, threads, refused>>

Main == Submit \/ NextResult \/ Cancel \/ LeavePool

Thread(r) == Begin(r) \/ Connect(r) \/ Return(r)

Next == Main \/ \E r \in Requests : Thread(r)

Spec == Init /\ [][Next]_vars

(* The threads of the process are scheduled, and a request has a timeout. *)
FairSpec == Spec /\ WF_vars(Main) /\ \A r \in Requests : WF_vars(Thread(r))

--------------------------------------------------------------------------------

TypeOK ==
  /\ main \in Stages
  /\ last \in 0..NumRequests
  /\ awaited \in 1..(NumRequests + 1)
  /\ threads \in 0..MaxThreads
  /\ refused \in BOOLEAN
  /\ phase \in [Requests -> Phases]

(* A request is left out only because one before it raised, or because a    *)
(* thread could not be started before it was submitted: what a request      *)
(* meets never costs those before it, and what is queued is not dropped     *)
(* (kube_env.py:196-207).                                                   *)
LeftOutAfterRaise ==
  main = "over" =>
    \A r \in Requests \ Issued :
      \/ \E q \in 1..(r - 1) : phase[q] = "raised"
      \/ refused /\ (phase[r] = "new" \/ threads = 0)

(* The requests that are issued are the first ones: cancelling from the     *)
(* last one down while threads take the first ones leaves no gap            *)
(* (kube_env.py:205-206).                                                   *)
NoGaps ==
  \A r \in Issued, q \in Requests : q < r => q \in Issued

(* The main thread never waits in vain: the request whose result it looks   *)
(* at was submitted, is not cancelled, and there is a thread to take it     *)
(* (kube_env.py:205-206).                                                   *)
AwaitsTheLiving ==
  main = "iterate" => phase[awaited] \notin {"new", "cancelled"} /\ threads # 0

(* The steps the requests have left, each up to three and its submission. *)
StepsLeft ==
    Cardinality(In({"new"}))
  + Cardinality(In({"new", "queued"}))
  + Cardinality(In({"new", "queued", "connecting"}))
  + Cardinality(In({"new", "queued", "connecting", "sent"}))

(* How much is left to do: the steps of the requests, which count twice     *)
(* since submitting one adds a future to cancel; the futures to cancel; the *)
(* results to look at; and the stages of the main thread.                   *)
ToDo ==
  2 * StepsLeft + last + (NumRequests + 1 - awaited)
  + [submit |-> 4, iterate |-> 3, cancel |-> 2, leave |-> 1, over |-> 0][main]

(* No step of the main thread or of the pool undoes or repeats another:     *)
(* each leaves less to do, so that a burst takes at most 9 * NumRequests    *)
(* + 4 steps, whatever its requests meet (kube_env.py:200-207).             *)
EveryStepCounts == [][ToDo' < ToDo]_vars

(* The burst ends, whatever its requests meet (kube_env.py:205-208). *)
BurstEnds == <>(main = "over")

--------------------------------------------------------------------------------

Promise ==
  INSTANCE RequestBurst
    WITH Width <- MaxThreads,
         issued <- Issued,
         active <- Active,
         broken <- refused \/ In({"raised"}) # {},
         over <- main = "over"

(* The pool does what a burst is for, and what it leaves out is owed to a   *)
(* failure (kube_env.py:193-207).                                           *)
KeepsPromise == Promise!Spec
================================================================================
