# Verification of the Envoy queue detection project

The repository detects congestion of microservices with a WebAssembly filter
in their Envoy sidecars. This directory holds TLA+ models of that code, the
TLC runs that check them on small instances, and TLAPS proofs of the main
properties for every size. Paths below are relative to the repository's root.

## The system

A sidecar proxies every request of a workload. It runs the filter
`message_counter/filter.cc` once in each of its worker threads. On an inbound
request the filter adds the request's `x-request-id` to its worker's set of
pending requests; on the response it erases it and shows the size in a gauge.
A request that makes the set larger than `REQUEST_THRESHOLD` is stored as a
warning, by an HTTP call to the service `storage-upstream` with the time and
the name of the workload. `run_experiment.py` injects latency into the bookinfo
application, reads the stored warnings, and calls a run congested when those
of two services follow the injection. `kube_env.py` sets the cluster up.

### Inventory

| Component | State | Operations | Interacts with | Hard behaviour | What makes it correct |
|---|---|---|---|---|---|
| Filter, queue build (`filter.cc`, default) | `pending_requests` per worker, `direction_` per stream, one gauge per proxy | request and response headers, `store_warning` and its callback, delete | Envoy's callbacks, the storage, the route configuration that echoes ids | workers interleave on the gauge; resets, retries and responses without an id; callbacks after their stream is gone; restarts | the set is the queue of the worker; warnings exactly above the threshold |
| Filter, counter build (`COUNTER`) | `count` in data shared by all workers | construct root context, increment, decrement, read | the same, and the host's shared data | read-modify-write without compare-and-swap; late workers; failing accesses | the counter is the number of waiting requests |
| Storage and logs (external) | a node for each timestamp; the answers sidecars log | `/store`, `/list`, `gcloud logging read` | filter, detection | late, lost, reordered and colliding records; a limit on what is read | |
| Congestion detection (`find_congestion`, `query_storage`) | none of its own; reads the storage | query, sort, slice, decide | storage, log service | records of other runs, positions that are not found, newest and oldest records | a verdict rests on two nodes that warned after this run's injection |
| Experiment (`run_experiment.py`) | start and injection times, child processes, result folder | start, inject, remove, check, clean up | kubectl, fortio, Prometheus, storage, earlier experiments on the same machine | a step that fails with children running; an exit that waits for a child; reuse of ports and folders | no child outlives a finished experiment; data and results are of this experiment |
| Deployment (`kube_env.py`, `run_experiment.main`) | what is deployed in the cluster | set up, deploy, build, remove, refresh, full run | kubectl, istioctl, gcloud, minikube, bazel | results that are ignored or kept while others come, steps on a half-made cluster | success means that all is deployed |
| Burst (`kube_env.burst_loop`) | a pool of threads with a queue | submit, request, look at results, cancel, join | gateway | exceptions nobody expects, cancelling beside running threads, threads that cannot be started | every request of the burst is issued, unless something broke |
| Parallel curl (`tools/parallel_curl`) | an array of threads | create, curl, join | gateway | | not modelled |
| `util.py`, `make_graph.py`, YAML, bazel, shell tools | none | wrappers, plots, descriptions | | | not modelled |

`PROJECT.json` lists each component with its status, and each hazard at its line
with the properties that cover it.

## Modules

`RequestQueue` is the abstract specification: `waiting[w]`, the unanswered
requests of worker `w`, and `alarmed`, the requests whose arrival raised an
alarm. Nothing in it has an id, a header or a callback.

`QueueFilter` is the default build in one proxy. Its variables are the code's:
`pending` is `pending_requests` of each worker, `direction` is `direction_`,
`gauge` is `queue_gauge`; `phase` says which callbacks a stream has had, `reqId`
which header its request had, and `call` what became of its warning; `stopped` holds
the workers whose copy of the filter has ended. `lost` is
a history variable: the requests that ended without being erased. A worker runs
one callback at a time and the set belongs to it alone, so a callback is one
action (`OnRequestHeaders`, `OnResponseHeaders`, `OnDelete`, `Callback`);
`Restart` is the rollout restart of `kube_env.refresh_filter`. Three constants say what the
surroundings may do: `EchoesId` (responses carry the id; only
`yaml_crds/istio-config.yaml`, which no script applies, makes them), `ClientsAbort` (streams are reset; the
burst's timeout of one millisecond does that) and `ReusesIds` (a retry or a
client comes with an id that was seen before). The callback of a warning whose
stream is gone when it is answered uses a null pointer (`filter.cc:168`), which is
undefined behaviour: `UseNullContext` passes unnoticed, or traps and ends the virtual machine
of the worker's filter, with its calls. The proxy then refuses the worker's streams or lets them
pass by the filter, which is external; the model has the filter see none of them until a restart.

`CounterFilter` is the build with `COUNTER`. Here the state is shared, so each
host call is an action: `OnRequest` and `OnResponse` make the first read,
`Increment` and `Decrement` write the copy back, `Check` and `Record` read again
and warn or record. The callback of a warning, which both builds share, is only in `QueueFilter`. `tmp` is the worker's copy. `Start` is the constructor of a root context,
which writes zero. `AccessFails` lets the host refuse an access, as it may with the
uninitialized size pointer of lines 65, 85 and 104.

`CongestionLog` follows a warning to the verdict. `StoreWarning` is the sidecar's
call, `Store` the external storage and log service, and `BeginRun`,
`InjectFailure`, `RemoveFailure` and `CheckCongestion` are the steps of
`do_multiple_runs`. `CheckCongestion` is `check_congestion` with all that it
calls: `RecordSets` is what the platform may let it read, `SortedByTime` the stable
sort (the k-th record is the one that k - 1 come `Before`), `IndexFrom` the
search that leaves -1 when nothing is found, `Slice` Python's slice with
negative positions, `CongestionDict` the loop that keeps the latest time of
each service, and `Add` its body. Timestamps are natural numbers; two nodes may
warn at the same one, and steps may share one. The code sorts them as strings, which is the order of
the numbers while all have the same number of digits: the 19 that nanoseconds have from 2001 to 2286.
Which entries of a log are its newest depends on when the answers were logged, not on the times of the
warnings, so `LatestOf` is any `LogLimit` of those a version has logged. The platform is chosen in
`Init`: it decides whether the storage or the logs of two versions of reviews
are read, never both, so `Store` gives a record to both at once, and an answer
that is logged late or never is a call that arrives late or never.

`Experiment` is the program `run_experiment.py` itself, several invocations of
it on one machine. `pc[d]` is the place of driver `d` in `do_experiment` and
`do_multiple_runs`, `alive` the children that run, each with the driver that
started it, `faulted` whether the injected latency is applied, `folders` and
`stats` the results directory with the files of each run. One action is one
step of the program up to the next command or child: `CleanPorts` is the two
calls of `kill_tcp_proc`, which hide every failure (`xargs kill || exit 0`), wait for nothing and whose
result is ignored, so it ends any part of what holds the ports and `missed` records the forwards it left. `Start` is `util.start_process`, which does not notice that a
second forward of a port ends at once, `OpenStats` and `CheckCongestion` are
`check_congestion` before and after `find_congestion`, which may exit between them. `Fail` is a
`sys.exit` or an exception at any place that has one, `Exit` the end of the interpreter,
which waits for the query loop because it is a `multiprocessing.Process` that is
no daemon; the other children it leaves. External are Ctrl-C, children that end by themselves, and a user who
removes folders. The user begins one experiment at a time, but one that failed
may still wait at its exit when the next begins.

`Deployment` is `kube_env.py` and `run_experiment.main` with one action per
command. `cluster`, `objects`, `pods` and `built` are what the commands have
made, `op`, `pc` and `result` the operation that runs or ran last. A
chain of `kubectl apply` that fails has applied a prefix of its files
(`ApplySome`), and the results the code ignores are recorded in `ignored`, a history variable.
`wait_book` and `wait_failed` are the two ways into `bookinfo_wait`, after a chain that
succeeded or failed: the code keeps that result in a local variable.

`Burst` is `burst_loop`: `main` is the main thread (submit all, look at the
results in order, cancel what has not begun when one raises, leave the `with`
block), and `phase` is where each request is between the queue and its end; `Begin`, `Connect`
and `Return` are the steps of the pool's threads, of which there are `threads`. `RequestBurst`
is what a burst promises: its variables are the requests issued and under way.

`MCQueueFilter`, `MCCounterFilter`, `MCCongestionLog` and `MCExperiment` give
the constants values for TLC; `Deployment` has no constants, and those of `Burst`
are numbers. `QueueFilterProofs`, `QueueFilterRefinement`, `CounterFilterProofs`,
`ExperimentProofs`, `DeploymentProofs`, `BurstProofs` and `CongestionLogProofs` hold the theorems. Operators marked `mutant` above a definition are
mistakes the definition might contain; no specification uses them, and each
property is known to fail when one of them takes its place.

## Runs

| Run | Instance | Shows |
|---|---|---|
| `queue_open` | two workers, three streams on one and one on the other, three ids, threshold 1, everything allowed | the set errs only in ways that are known: a waiting request goes missing only when another one that waits under its id is answered, never by a reset or a lost request (`NoUndercount`), it holds only requests that wait or were lost (`NoOvercount`), which stay (`LostStaysCounted`); as long as a worker sees no id twice its size is exact (`QueueExact`), and no more waiting requests than the threshold raised no warning (`UnalarmedBounded`); the gauge never exceeds the longest queue; a warning is never unjustified; a late callback only ever ends the filter of a worker that was overloaded (`StopsOnlyOverloaded`) |
| `queue_calm` | the same, ids echoed and fresh, no resets | the filter implements `RequestQueue` |
| `queue_live` | three streams, two ids, everything allowed, fairness | the queues of workers whose filter still runs end up with nothing but lost requests |
| `counter_shared` | two workers with two streams each, late starts, failing accesses, resets | the counter stays between minus the responses and the requests |
| `counter_solo` | one worker, four streams, a late start, resets | the counter is exact up to resets, and the build implements `RequestQueue`, in which a reset request never departs |
| `counter_race`, `counter_late_start` | two workers | violations, see below |
| `log_runs` | two runs, three nodes of which two are logged, four warnings, four times, two log entries per node, both platforms | verdicts rest on two nodes that warned after this run's injection (`SpreadConfirmed`), and are found exactly when the records without the newest show that (`SpreadFound`) |
| `log_newest` | one run, two nodes, two warnings | violation, see below |
| `experiments` | two drivers with two runs and one run, three folders of which one is there before, fairness | a driver that reaches its end leaves no child (`CleanFinish`) and all its verdicts (`CompleteResults`); a foreign forward it works beside is one its clearing of the ports missed, and stands in for its own (`OwnForwards`); the injected latency outlives a run only by a failed last removal or an interrupt (`NoStrayFault`); a file is overwritten only above a removed folder (`ResultsKept`); an exit waits only after a failed check (`HangsOnlyInCheck`), at most as long as a Prometheus forward lives (`HangsOnlyOnForward`), and a driver stands in the way of the next experiment for ever only in a check, while a storage forward is up (`DriversLeave`) |
| `deployments` | all operations, in any order | a success means what the operation is for (`SuccessMeans`), whatever failed before; the filter is active only with its config map; pods without a sidecar exist only after `deploy_bookinfo` by itself; a full run measures only on a complete deployment (`ExperimentPrepared`) |
| `burst` | six requests, three threads, fairness | requests are left out only after one that raised or when no thread can be had; those issued are the first ones although cancelling runs beside the threads (`NoGaps`); the main thread only waits for a request that some thread takes or has taken (`AwaitsTheLiving`); every step leaves less to do (`EveryStepCounts`), and the burst ends; it implements `RequestBurst` |

**Bounds.** Threshold 1 with three streams on a worker reaches a queue at,
above and two above the threshold, with one request left to disturb it;
the second worker adds what interleaving adds, the gauge. Streams are not
reused: a restart, a repeat of an id and a reset all fit among four. For the log, four
warnings are one before the injection and three after it, which is what it
takes to have two nodes before the newest, or one node twice, another, and the
newest, which tells the latest time of a service from its first. The steps of
a run may share a tick, so four times are enough for two runs whose injections
differ from their starts. A limit of two log entries is passed by three
warnings of a node.
`MaxTime` and `MaxWarnings` bound the clock and the warnings in the guards of
`Tick` and `StoreWarning`; `Period` only has to be larger than any time, as 51
years are. Symmetry is used over streams of one worker, ids and alike nodes,
never with liveness. For experiments, the first driver makes two runs, so
that one may fail in the second with the first behind it, and the second driver meets
whatever the first left; three folders with one that is there before are the fewest
in which removing one makes a number come twice. `MaxFolders` bounds the folders
in the guard of `GenerateTestfolder`. `Deployment` needs no bound: its state space is
finite and TLC goes through all of it. Six requests on three threads let a
request raise in the first, second or a later round, with requests queued, under
way and not yet submitted. The deadlock check is off where the traffic, the
experiments or the burst ends.

**Fairness.** In `QueueFilter`, `Fairness` is weak fairness of `OnResponseHeaders` (the workload
answers what it is sent; Envoy makes a response of its own when it does not). Nothing is
assumed of requests, resets, callbacks or restarts. In `Experiment`, a driver that has
begun goes on (sleeps, kubectl and the log service end), but for its check: `requests.get` has no timeout
(`run_experiment.py:86`), so the check is only sure to end where no storage forward is up and the
request is refused (`CheckUnforwarded`). A query
loop without a forward gives up after the retries of its client (`QueryFails`);
nothing makes the user begin, interrupt or remove anything, and no child has to
end. In `Burst`, the main thread and the thread that has a request are
scheduled, and a request has a timeout (`kube_env.py:199`).

### Disagreements the runs show

* `counter_race`, `counter_late_start`: the comment in `filter.cc:11` offers the counter in place of
  the queue, but with more than one worker updates are lost, and each worker
  that starts zeroes the counter of all.
* `log_newest`: `CONGESTION_PERIOD` is a timestamp rather than a duration, so the end
  of the interval is never found, stays -1, and cuts off the newest record. Two
  services that each warn once are not reported, against the comment in
  `run_experiment.py:59`.

## Proofs

`QueueFilterProofs` proves of `QueueFilter`, for all constants that satisfy
`QueueFilterAssumption`: `Typing`, `Overcount`, `Undercount`, `GaugeBound`, `Justification`,
`Exactness`, `Vigilance`, `Persistence` and `Stopping`, that is, every property of the run
`queue_open`. `QueueFilterRefinement` proves `Implementation`: the filter
implements `RequestQueue` when `EchoesId` holds and `ClientsAbort` and
`ReusesIds` do not, which is the property of `queue_calm`.

The argument goes in layers, each an invariant that uses those before it:

1. `Shape` is `TypeOK` with three strengthenings. `FiniteQueues` is needed already
   for typing: the gauge is a cardinality, and a number only if the sets are
   finite. `LostIsOver` (a lost request was inbound, had an id, and its stream
   is answered or deleted) keeps a new request from being taken for a lost one,
   and `NewIsUndirected` a stream that has not begun from being taken for an
   inbound one.
   `RequestEffect` and `ResponseEffect` say once what a step does to `pending`.
2. `Overcount` follows from `CountedStays`: a stream stops being counted only
   when it is answered with its id, which leaves the set, or by a restart.
   `Undercount` goes through the steps that shrink a set: only a response does, and it answers a waiting
   request with the id it erases.
   `GaugeBound` is inductive on `Shape`.
3. `Justification` needs only that the set is no larger than the requests to
   account for (`QueueBound`), by the surjection from requests to ids. `Stopping` rests on the same: a
   warning was stored by a worker that was overloaded (`OverloadWarns`), and one that was has still seen as
   many inbound requests (`OverloadStays`).
4. `NoRepeats(w)` can only become false (`RepeatsStay`), so while it holds it
   held in every earlier state. It makes the map from requests to ids injective,
   and `AllPending` (every counted request is in its set) makes it a bijection:
   `Exactness`. `Vigilance` follows by cases on the step (`UnalarmedStep`): an
   arrival that raises no warning saw a short queue, and by exactness the queue
   bounds the waiting requests.
5. `Implementation` maps each action to a step of `RequestQueue` or a stutter.
   `AlwaysCalm` (nothing is lost, no id is repeated) with `Exactness` says that
   the sizes the filter compares are those of the abstract queues (`CalmSizes`),
   which is what makes an arrival raise an alarm in both or in neither.

The theorems of the first module assume nothing of the surroundings: `EchoesId`,
`ClientsAbort` and `ReusesIds` play no part in them.

`CounterFilterProofs` proves `Typing`, `Bounds` and `SoloCount`, the properties of
`counter_shared` and the first of `counter_solo`, and `Implementation`, its refinement, for one
worker without failing accesses. `CountWithinTraffic` is not inductive, because a worker writes
back a copy that may be old: `Within` adds that every copy was within the traffic, which
only grows, with room for the change the worker is about to make. With one worker
`InStep` says that the copy is the counter, and the counter the requests that
wait or were reset, which are the abstract queue.

`ExperimentProofs` proves every safety property of `experiments` for any
number of drivers, runs and folders. `Shape` adds to `TypeOK` what the place of a driver says
of its runs, its folder and its end (`Sequence`), and that one driver is at work at a
time. `Children` says which children a driver can have at which place: `CleanFinish` rests on it, and so
does `HangsOnlyInCheck`, together with `Unwritten`, that a driver at work has verdicts of its past runs
only, and `InCheck`, that one with a query loop at its exit left none of the run it failed in. `OwnForwards` is inductive
with `Children`: a driver has no forward when it clears the ports, and from there on only its own can
start, on a port that is free.
`Recorded` gives `CompleteResults`. For `ResultsKept`, `Pigeonhole` shows
that when `n` folders are there and one of them has the number `n`, a smaller number is missing, and
`Claims` that a driver at work finds only files of its own in its folder or such a gap below it.

`DeploymentProofs` proves every property of `deployments`. `Deployment` has no
constants and TLC goes through all of it; the proof tells why its invariants
hold, command by command. None is inductive: what a success means depends on what
the commands before the last one did, and other operations came in between. `IInv` says of
each place in an operation what its earlier commands left behind: `CommandOfOperation` (which
commands belong to which operation), `MeshDone`, `BookDone` and `FilterDone` (a place that is only
reached after a command succeeded, or was ignored, has its objects), `BookedFirst` and `PodsFollow`
(pods come from deployments, with a sidecar once the mesh is there).

`CongestionLogProofs` proves the properties of `log_runs` for any number of
runs, services, warnings and log entries. Most of it is about the operators, for records of any length:

1. `Sorting`: each record has a rank of its own, by a pigeonhole argument on how many come
   `Before` it, so the records taken by rank are a permutation of those listed, in order of time.
2. `SinceInjection` and `NewestIgnored` describe the slice: of ordered records it holds those from the
   injection on, but not the newest, since the end of the period is never found. The last is
   `log_newest` for records of any length.
3. `Holds` is the loop invariant of `CongestionDict`: until the service changes the
   dictionary has one key, and its value is the time of the last record. `Verdict` reads off what
   `find_congestion` returns, and `Criterion` says the same without a loop: congestion is reported
   exactly when two records since the injection, neither the newest, are of different services.
4. `Found` and `Confirmed` follow from `IInv`: what can be read was stored (`Known`, which is also
   `Provenance`), and the records a verdict was made of were read, in order, and are warnings (`WasRead`).

Both loops are inductions over the positions of a list. The library's induction theorem takes an operator as
a parameter; `NoCounterexample` replaces it: a set of natural numbers without a least
element is empty, so a set of counterexamples that has neither zero nor any successor of a
number it lacks is empty.

`BurstProofs` proves `Typing`, `InOrder`, `Omissions`, `NotInVain`, `Termination` and
`Implementation` for any number of requests and threads. Its `Shape` says how far the main thread has come
through the requests (`Progress`), that the requests are in order of their phases (`Ends`: issued, then
queued, then cancelled or new), and that requests are under way only in threads (`Threaded`).
`Termination` is the half of `BurstEnds` that needs no fairness: `ToDo`, a sum of the sizes
of sets of requests, is at most `9 * NumRequests + 4`, and `StepsMove` says by how much a request that
moves on makes it smaller.

Only model-checked: liveness (`QueuesDrain`, `DriversLeave`,
`HangsOnlyOnForward` and `BurstEnds`: fairness and `ENABLED` are out of the prover's
reach), and the violations, which are single counterexamples. Every other property of a run
is a theorem. What no theorem covers are the models themselves where they are external: how
late the storage answers, when a child ends, what Kubernetes does with a file.

## Not modelled

* Header printing and replacement, bodies and configuration of the filter: no
  state depends on them.
* Clocks that differ between nodes, and the rounding of `start_time`, a float, to
  256 ns: the code compares the times as if neither existed, and there is nothing about them that
  it could keep.
* `tools/parallel_curl`: its threads share nothing, and nothing but the joins relates them.
* The files `prom_<n>.csv` of the query loop, and `make_graph.py`, their only reader: data
  that is plotted. `util.py`'s file helpers, which nothing calls, and its formatting of times.
* Pipes that fill up because nobody reads them: how much a child writes is
  outside the repository. To the driver a blocked forward is one that is up and does not
  answer, which `Experiment` allows of any forward at any time; `DriversLeave` says what it holds up.
* Ctrl-C during a burst; two experiments at work at once, which would
  kill each other's forwards.
* A model of the whole, from queues that are too long to a verdict: the
  components meet in a warning, which `QueueFilter` and `CounterFilter` say is justified
  when it is stored, and of which `CongestionLog` assumes nothing, so it allows
  every sequence of warnings the filters can make. Likewise `CongestionLog` has the
  verdict of a run that `Experiment` writes to its file.
* YAML, build files, shell tools and recorded results have no behaviour of their own.
