----------------------------- MODULE CongestionLog -----------------------------
(***************************************************************************)
(* The way of a warning from the sidecars to the verdict of an experiment: *)
(* the filter's store_warning (message_counter/filter.cc), the storage it  *)
(* calls, and the driver's query_storage, find_congestion and the part of  *)
(* do_multiple_runs that times a run (run_experiment.py).                  *)
(*                                                                         *)
(* The storage and the log service are not part of the repository: they    *)
(* are modelled from how it uses them.  Calls reach the storage late, in   *)
(* any order or never, and it keeps one node for each timestamp.  Clocks   *)
(* are those of one machine.  Nodes may warn at any time: how a queue gets *)
(* long is the business of QueueFilter.                                    *)
(***************************************************************************)
EXTENDS Integers, Sequences, SequencesExt, TLC

CONSTANTS
  Nodes,        \* the workloads whose sidecars warn
  LoggedNodes,  \* the versions of reviews that logs_script.sh reads
  LogLimit,     \* the entries it reads for each
  Period,       \* CONGESTION_PERIOD
  Runs,         \* num_experiments
  MaxTime,      \* bound on the clock
  MaxWarnings,  \* bound on the warnings
  None          \* Python's None

ASSUME CongestionLogAssumption ==
  /\ LoggedNodes \subseteq Nodes
  /\ LogLimit \in Nat \ {0}
  /\ Runs \in Nat \ {0}
  /\ MaxTime \in Nat
  /\ Period \in Nat /\ Period > MaxTime  \* 51 years, in nanoseconds
  /\ MaxWarnings \in Nat
  /\ None \notin Int

VARIABLES
  platform,    \* args.platform, for the whole experiment
  now,         \* the clock
  warned,      \* history: every warning, [ts, node]
  calls,       \* warnings on their way to the storage
  stored,      \* the storage: a node for each timestamp it was given
  logged,      \* warnings whose answer a sidecar has logged
  run,         \* idx: how many runs have ended
  stage,       \* what the driver did last
  start,       \* start_time
  congestion,  \* congestion_ts: when the failure was injected, since start
  logs,        \* history: what the last query_storage returned
  verdict      \* what the last find_congestion returned

vars == <<platform, now, warned, calls, stored, logged,
          run, stage, start, congestion, logs, verdict>>

warnings == <<warned, calls, stored, logged>>
driver == <<platform, run, stage, start, congestion, logs, verdict>>

Stages == {"idle", "started", "injected", "cleared", "checked", "exited"}

Warning == [ts : 0..MaxTime, node : Nodes]

(* GCP, or a local cluster; any platform but GCP is read like MK. *)
Platforms == {"GCP", "MK"}

Init ==
  /\ platform \in Platforms
  /\ now = 0
  /\ warned = {} /\ calls = {} /\ logged = {}
  /\ stored = <<>>
  /\ run = 0 /\ stage = "idle"
  /\ start = 0 /\ congestion = 0
  /\ logs = <<>> /\ verdict = None

--------------------------------------------------------------------------------

(* query_storage on the records found, in the order they are listed in: they *)
(* are sorted by their timestamps, and Python's sort is stable.  The code   *)
(* compares the timestamps as strings: that is the order of the numbers     *)
(* because all have as many digits, the 19 of the nanoseconds of the years  *)
(* 2001 to 2286.  The k-th of the result is the one that k - 1 come before. *)
Before(list, i, j) ==
  \/ list[i].ts < list[j].ts
  \/ list[i].ts = list[j].ts /\ i < j

AsListed(list) == list                   \* mutant: not sorted
SortedByTime(list) ==
  LET At(k) == CHOOSE i \in DOMAIN list :
                 Cardinality({j \in DOMAIN list : Before(list, j, i)}) = k - 1
  IN [k \in DOMAIN list |-> list[At(k)]]

(* The position, counted from 0, of the first record at or after time t, or *)
(* -1 when there is none.                                                   *)
IndexFrom(records, t) ==
  LET AtOrAfter(r) == r.ts >= t
  IN SelectInSeq(records, AtOrAfter) - 1

(* Python's records[first:end]: a negative position counts from the end.    *)
Slice(records, first, end) ==
  LET n == Len(records)
      At(i) == IF i < 0 THEN Max({0, n + i}) ELSE Min({i, n})
  IN SubSeq(records, At(first) + 1, At(end))

(* log_slice: the records from the injection to the end of the period, or   *)
(* to before the newest when none is that late.                             *)
SinceCongestion(records, t0, c) ==       \* mutant: start_time is left out
  Slice(records, IndexFrom(records, c), IndexFrom(records, c + Period))

LogSlice(records, t0, c) ==
  Slice(records, IndexFrom(records, t0 + c), IndexFrom(records, t0 + c + Period))

(* dict[key] = value *)
Put(dict, key, value) ==
  [k \in DOMAIN dict \cup {key} |-> IF k = key THEN value ELSE dict[k]]

(* congestion_dict: the latest time of each service, up to the record that  *)
(* adds a second one.                                                       *)
FirstTimes(dict, r) ==                     \* mutant: the earliest time is kept
  IF Cardinality(DOMAIN dict) > 1 \/ r.node \in DOMAIN dict
  THEN dict ELSE Put(dict, r.node, r.ts)
Add(dict, r) ==
  IF Cardinality(DOMAIN dict) > 1 THEN dict ELSE Put(dict, r.node, r.ts)

CongestionDict(records) ==
  LET after[i \in 0..Len(records)] ==
        IF i = 0 THEN <<>> ELSE Add(after[i - 1], records[i])
  IN after[Len(records)]

FindCongestion(records, t0, c) ==
  LET dict == CongestionDict(LogSlice(records, t0, c))
  IN IF Cardinality(DOMAIN dict) > 1
     THEN Min({dict[n] - t0 : n \in DOMAIN dict})
     ELSE None

(* What logs_script.sh may read of the answers a version has logged: the    *)
(* newest LogLimit entries.  An entry is as new as the answer, not as the   *)
(* warning whose time it quotes, and answers are logged in any order.       *)
LatestOf(n) ==
  LET all == {r \in logged : r.node = n}
  IN kSubset(Min({LogLimit, Cardinality(all)}), all)

(* The sets of records query_storage may find. *)
RecordSets ==
  IF platform = "GCP"
  THEN {found \in SUBSET {r \in logged : r.node \in LoggedNodes} :
          \A n \in LoggedNodes : {r \in found : r.node = n} \in LatestOf(n)}
  ELSE {{[ts |-> t, node |-> stored[t]] : t \in DOMAIN stored}}

--------------------------------------------------------------------------------

Tick ==
  /\ now < MaxTime
  /\ now' = now + 1
  /\ UNCHANGED <<warnings, driver>>

(* store_warning, on the sidecar of node n: a call with the time and name.  *)
(* A node does not warn twice at one time.                                  *)
StoreWarning(n) ==
  LET r == [ts |-> now, node |-> n] IN
  /\ Cardinality(warned) < MaxWarnings
  /\ r \notin warned
  /\ warned' = warned \cup {r}
  /\ calls' = calls \cup {r}
  /\ UNCHANGED <<now, stored, logged, driver>>

(* The storage keeps what it is called with, and the sidecar logs the       *)
(* answer.  No platform reads both the storage and the logs, so a call that *)
(* fails, or whose answer is late or lost, is one that arrives late or      *)
(* never.                                                                   *)
Store(r) ==
  /\ r \in calls
  /\ calls' = calls \ {r}
  /\ stored' = Put(stored, r.ts, r.node)
  /\ logged' = logged \cup {r}
  /\ UNCHANGED <<now, warned, driver>>

(* The driver sleeps between its steps; the ticks that takes are Tick's. *)
Becomes(before, after) == stage = before /\ stage' = after

BeginRun ==
  /\ \/ Becomes("idle", "started")
     \/ run < Runs /\ Becomes("checked", "started")
  /\ start' = now
  /\ UNCHANGED <<platform, now, warnings, run, congestion, logs, verdict>>

InjectFailure ==
  /\ Becomes("started", "injected")
  /\ congestion' = now - start
  /\ UNCHANGED <<platform, now, warnings, run, start, logs, verdict>>

RemoveFailure ==
  /\ Becomes("injected", "cleared")
  /\ UNCHANGED <<platform, now, warnings, run, start, congestion, logs, verdict>>

(* check_congestion with find_congestion and query_storage.  The driver     *)
(* exits when the cluster or the storage does not answer.                   *)
CheckCongestion ==
  /\ \/ /\ Becomes("cleared", "checked")
        /\ \E found \in RecordSets :
             \E list \in SetToSeqs(found) : logs' = SortedByTime(list)
        /\ verdict' = FindCongestion(logs', start, congestion)
        /\ run' = run + 1
     \/ /\ Becomes("cleared", "exited")
        /\ UNCHANGED <<logs, verdict, run>>
  /\ UNCHANGED <<platform, now, warnings, start, congestion>>

Next ==
  \/ Tick
  \/ \E n \in Nodes : StoreWarning(n)
  \/ \E r \in calls : Store(r)
  \/ BeginRun \/ InjectFailure \/ RemoveFailure \/ CheckCongestion

Spec == Init /\ [][Next]_vars

--------------------------------------------------------------------------------

TypeOK ==
  /\ platform \in Platforms
  /\ now \in 0..MaxTime /\ start \in 0..now
  /\ \A set \in {warned, calls, logged} : set \subseteq Warning
  /\ DOMAIN stored \subseteq 0..MaxTime
  /\ \A t \in DOMAIN stored : stored[t] \in Nodes
  /\ run \in 0..Runs /\ stage \in Stages
  /\ congestion \in 0..MaxTime
  /\ ToSet(logs) \subseteq Warning
  /\ verdict \in 0..MaxTime \cup {None}

(* The warnings of this run's failure. *)
InWindow(r) == r.ts >= start + congestion

(* A run is called congested only if two nodes warned after its own failure *)
(* was injected, whatever earlier runs and the time before the injection    *)
(* left in the storage, and the time it reports is that of one of them.     *)
(* (run_experiment.py:43-66)                                                *)
SpreadConfirmed ==
  stage = "checked" /\ verdict # None =>
    \E a, b \in warned :
      /\ InWindow(a) /\ InWindow(b)
      /\ a.node # b.node /\ a.ts <= b.ts
      /\ verdict = a.ts - start

(* A run is called congested if and only if the records it reads hold, after *)
(* the injection and before the newest of all, those of two nodes; the time *)
(* is that of the last record before the second node's first.               *)
(* (run_experiment.py:47-66, 93)                                            *)
SpreadFound ==
  stage = "checked" =>
    LET n == Len(logs)
        Changes == {i \in 2..(n - 1) : /\ InWindow(logs[i - 1])
                                       /\ logs[i - 1].node # logs[i].node}
    IN verdict = IF Changes = {} THEN None
                 ELSE logs[Min(Changes) - 1].ts - start

(* A run is called congested when the records show "congestion at more than *)
(* 1 service" after the injection (the comment at run_experiment.py:59).    *)
ReportsSpread ==
  stage = "checked" /\ verdict = None =>
    \A a, b \in ToSet(logs) : InWindow(a) /\ InWindow(b) => a.node = b.node
================================================================================
