------------------------------ MODULE Experiment ------------------------------
(***************************************************************************)
(* Invocations of run_experiment.py on one machine and one cluster: what   *)
(* do_experiment and do_multiple_runs start, write and inject, in which    *)
(* order, and what is left of it when an invocation fails, is interrupted  *)
(* or waits for a child at its exit.  How a verdict is found is the        *)
(* business of CongestionLog.                                              *)
(*                                                                         *)
(* The user begins an experiment when no other is at work; one that failed *)
(* may still be waiting at its exit.  Processes, kubectl and the user are  *)
(* not part of the repository, and modelled from how it uses them.         *)
(***************************************************************************)
EXTENDS Integers, FiniteSets

CONSTANTS
  Drivers,     \* invocations of run_experiment.py
  Runs,        \* num_experiments of each
  MaxFolders,  \* bound on the entries of results_dir
  Earlier,     \* its entries before the first of these invocations
  None         \* no folder, no file; the author of earlier files

ASSUME ExperimentAssumption ==
  /\ IsFiniteSet(Drivers)
  /\ Runs \in [Drivers -> Nat]
  /\ MaxFolders \in Nat
  /\ Earlier \in 0..MaxFolders
  /\ None \notin Nat /\ None \notin Drivers
  /\ None \notin [by : Drivers \cup {None}, whole : BOOLEAN]

VARIABLES
  pc,       \* what each driver does next
  idx,      \* how many of its runs have ended
  folder,   \* test_dir: the number n of its folder run_<n>
  alive,    \* the children that run, <<driver, kind>>
  faulted,  \* fault-injection.yaml is applied to the cluster
  folders,  \* the entries of results_dir
  stats,    \* the files stats_<idx>.csv of each folder
  outcome,  \* history: how each driver ended
  stuck,    \* history: the last remove_failure has left the failure there
  missed    \* history: the forwards the last clearing of ports left, while they are up

vars == <<pc, idx, folder, alive, faulted, folders, stats, outcome, stuck, missed>>
history == <<outcome, stuck, missed>>

Folders == 0..(MaxFolders - 1)
Indices == UNION {0..(Runs[d] - 1) : d \in Drivers}

(* "query" is the multiprocessing.Process of query_csv_loop; the others are *)
(* started with util.start_process, in sessions of their own.               *)
Forwards == {"storage", "prometheus"}
Kinds == Forwards \cup {"fortio", "query"}

(* "leaving": the interpreter shuts down, which joins the query loop. *)
Steps == {"off", "folder", "ports", "gateway", "storage", "fortio", "prometheus", "run",
          "inject", "remove", "open", "check", "terminate",
          "kill_prometheus", "kill_fortio", "kill_storage", "leaving", "gone"}

Outcomes == {"none", "done", "failed", "interrupted"}

(* A file holds its verdict, or was opened and never finished. *)
Files == {None} \cup [by : Drivers \cup {None}, whole : BOOLEAN]
NoStats == [i \in Indices |-> None]
EarlierStats == [i \in Indices |-> [by |-> None, whole |-> TRUE]]

Init ==
  /\ pc = [d \in Drivers |-> "off"]
  /\ idx = [d \in Drivers |-> 0]
  /\ folder = [d \in Drivers |-> None]
  /\ alive = {}
  /\ faulted = FALSE
  /\ folders = 0..(Earlier - 1)
  /\ stats = [f \in Folders |-> IF f \in folders THEN EarlierStats ELSE NoStats]
  /\ outcome = [d \in Drivers |-> "none"]
  /\ stuck = FALSE
  /\ missed = {}

--------------------------------------------------------------------------------

AtWork(d) == pc[d] \notin {"off", "leaving", "gone"}

Goto(d, before, after) == pc[d] = before /\ pc' = [pc EXCEPT ![d] = after]

ForwardUp(kind) == \E d \in Drivers : <<d, kind>> \in alive

(* util.start_process does not look at what becomes of the child: a second  *)
(* forward of a port finds it in use and ends.                              *)
Start(d, kind) ==
  alive' = IF kind \in Forwards /\ ForwardUp(kind)
           THEN alive ELSE alive \cup {<<d, kind>>}

Kill(d, kind) == alive' = alive \ {<<d, kind>>}

(* do_experiment begins, if the cluster answers. *)
DoExperiment(d) ==
  /\ \A e \in Drivers : ~AtWork(e)
  /\ \/ Goto(d, "off", "folder") /\ UNCHANGED outcome
     \/ Goto(d, "off", "gone") /\ outcome' = [outcome EXCEPT ![d] = "failed"]
  /\ UNCHANGED <<idx, folder, alive, faulted, folders, stats, stuck, missed>>

(* generate_testfolder: the new folder is numbered by how many there are;   *)
(* check_dir keeps one that exists.                                         *)
NewestNumber == IF folders = {} THEN 0 ELSE Cardinality(folders) - 1  \* mutant: off by one
FolderNumber == Cardinality(folders)

GenerateTestfolder(d) ==
  /\ Goto(d, "folder", "ports")
  /\ FolderNumber < MaxFolders
  /\ folder' = [folder EXCEPT ![d] = FolderNumber]
  /\ folders' = folders \cup {FolderNumber}
  /\ UNCHANGED <<idx, alive, faulted, stats, history>>

(* kill_tcp_proc(9090) and (8090): whatever has a socket on these ports,    *)
(* the forwards and the query loops that are connected to one, is sent a    *)
(* signal.  Nothing waits for it to end, every failure of the command is    *)
(* hidden by its "|| exit 0", and its result is ignored: any of them may    *)
(* be left.                                                                 *)
OnStoragePort == {p \in alive : p[2] = "storage"}  \* mutant: 9090 is not cleared
OnPorts == {p \in alive : p[2] \in Forwards}

CleanPorts(d) ==
  /\ Goto(d, "ports", "gateway")
  /\ \E ended \in SUBSET (OnPorts \cup {p \in alive : p[2] = "query"}) :
       /\ alive' = alive \ ended
       /\ missed' = OnPorts \ ended
  /\ UNCHANGED <<idx, folder, faulted, folders, stats, outcome, stuck>>

(* The commands that ask for the gateway answer, or the driver fails. *)
GetGatewayInfo(d) ==
  /\ Goto(d, "gateway", "storage")
  /\ UNCHANGED <<idx, folder, alive, faulted, folders, stats, history>>

LaunchStorageMon(d) ==
  /\ Goto(d, "storage", "fortio")
  /\ Start(d, "storage")
  /\ UNCHANGED <<idx, folder, faulted, folders, stats, history>>

StartFortio(d) ==
  /\ Goto(d, "fortio", "prometheus")
  /\ Start(d, "fortio")
  /\ UNCHANGED <<idx, folder, faulted, folders, stats, history>>

LaunchPrometheus(d) ==
  /\ Goto(d, "prometheus", "run")
  /\ Start(d, "prometheus")
  /\ UNCHANGED <<idx, folder, faulted, folders, stats, history>>

(* do_multiple_runs: the next run starts its query loop. *)
OneRunMore(d) ==                         \* mutant: off by one
  /\ Goto(d, "run", "inject")
  /\ idx[d] <= Runs[d]
  /\ Start(d, "query")
  /\ UNCHANGED <<idx, folder, faulted, folders, stats, history>>

BeginRun(d) ==
  /\ Goto(d, "run", "inject")
  /\ idx[d] < Runs[d]
  /\ Start(d, "query")
  /\ UNCHANGED <<idx, folder, faulted, folders, stats, history>>

(* The results of inject_failure and remove_failure are ignored. *)
InjectFailure(d) ==
  /\ Goto(d, "inject", "remove")
  /\ faulted' \in {faulted, TRUE}
  /\ UNCHANGED <<idx, folder, alive, folders, stats, history>>

SkipRemoval(d) ==                        \* mutant: the failure is not removed
  /\ Goto(d, "remove", "open")
  /\ UNCHANGED <<idx, folder, alive, faulted, folders, stats, history>>

RemoveFailure(d) ==
  /\ Goto(d, "remove", "open")
  /\ faulted' \in {faulted, FALSE}
  /\ stuck' = faulted'
  /\ UNCHANGED <<idx, folder, alive, folders, stats, outcome, missed>>

(* check_congestion: the file is emptied before find_congestion is called,  *)
(* and gets its row and is closed after.                                    *)
Write(d, whole) ==
  stats' = [stats EXCEPT ![folder[d]][idx[d]] = [by |-> d, whole |-> whole]]

OpenStats(d) ==
  /\ Goto(d, "open", "check")
  /\ Write(d, FALSE)
  /\ UNCHANGED <<idx, folder, alive, faulted, folders, history>>

NoRow(d) ==                              \* mutant: no row without congestion
  /\ Goto(d, "check", "terminate")
  /\ \E whole \in BOOLEAN : Write(d, whole)
  /\ UNCHANGED <<idx, folder, alive, faulted, folders, history>>

CheckCongestion(d) ==
  /\ Goto(d, "check", "terminate")
  /\ Write(d, TRUE)
  /\ UNCHANGED <<idx, folder, alive, faulted, folders, history>>

LeaveRunning(d) ==                       \* mutant: the loop is not terminated
  /\ Goto(d, "terminate", "run")
  /\ idx' = [idx EXCEPT ![d] = @ + 1]
  /\ UNCHANGED <<folder, alive, faulted, folders, stats, history>>

JoinFirst(d) ==                          \* mutant: joined and not terminated
  /\ Goto(d, "terminate", "run")
  /\ idx' = [idx EXCEPT ![d] = @ + 1]
  /\ <<d, "query">> \notin alive
  /\ UNCHANGED <<folder, alive, faulted, folders, stats, history>>

TerminateLoop(d) ==
  /\ Goto(d, "terminate", "run")
  /\ idx' = [idx EXCEPT ![d] = @ + 1]
  /\ Kill(d, "query")
  /\ UNCHANGED <<folder, faulted, folders, stats, history>>

(* The runs are over: the forwards and the load are interrupted, each with  *)
(* its process group.                                                       *)
KillPrometheus(d) ==
  /\ Goto(d, "run", "kill_fortio")
  /\ idx[d] = Runs[d]
  /\ Kill(d, "prometheus")
  /\ UNCHANGED <<idx, folder, faulted, folders, stats, history>>

KillFortio(d) ==
  /\ Goto(d, "kill_fortio", "kill_storage")
  /\ Kill(d, "fortio")
  /\ UNCHANGED <<idx, folder, faulted, folders, stats, history>>

KillStorage(d) ==
  /\ Goto(d, "kill_storage", "leaving")
  /\ Kill(d, "storage")
  /\ outcome' = [outcome EXCEPT ![d] = "done"]
  /\ UNCHANGED <<idx, folder, faulted, folders, stats, stuck, missed>>

(* The interpreter ends when no query loop is left to join. *)
Exit(d) ==
  /\ Goto(d, "leaving", "gone")
  /\ <<d, "query">> \notin alive
  /\ UNCHANGED <<idx, folder, alive, faulted, folders, stats, history>>

--------------------------------------------------------------------------------

(* The cluster or the storage does not answer, a program is missing, an     *)
(* argument is no path or no number, or a file cannot be opened: sys.exit   *)
(* or an exception ends the driver where it is, and with it nothing else.   *)
Fail(d) ==
  /\ pc[d] \in {"folder", "gateway", "storage", "fortio", "prometheus",
               "run", "open", "check"}
  /\ pc' = [pc EXCEPT ![d] = "leaving"]
  /\ outcome' = [outcome EXCEPT ![d] = "failed"]
  /\ UNCHANGED <<idx, folder, alive, faulted, folders, stats, stuck, missed>>

(* Ctrl-C reaches the driver and its query loop, but not the children that  *)
(* have a session of their own.                                             *)
Interrupt(d) ==
  /\ pc[d] \notin {"off", "gone"}
  /\ pc' = [pc EXCEPT ![d] = "gone"]
  /\ outcome' = [outcome EXCEPT ![d] = IF @ = "none" THEN "interrupted" ELSE @]
  /\ Kill(d, "query")
  /\ UNCHANGED <<idx, folder, faulted, folders, stats, stuck, missed>>

(* A child ends by itself: its connection is lost, or it fails. *)
ChildEnds(p) ==
  /\ p \in alive
  /\ alive' = alive \ {p}
  /\ missed' = missed \ {p}
  /\ UNCHANGED <<pc, idx, folder, faulted, folders, stats, outcome, stuck>>

LoopRetries(d) ==                        \* mutant: the loop survives its errors
  /\ <<d, "query">> \in alive /\ ~ForwardUp("prometheus")
  /\ UNCHANGED vars

(* A query loop that cannot reach Prometheus raises an exception. *)
QueryFails(d) ==
  /\ <<d, "query">> \in alive /\ ~ForwardUp("prometheus")
  /\ Kill(d, "query")
  /\ UNCHANGED <<pc, idx, folder, faulted, folders, stats, history>>

(* The user removes a folder no driver is working in. *)
RemoveFolder(f) ==
  /\ f \in folders
  /\ \A d \in Drivers : AtWork(d) => folder[d] # f
  /\ folders' = folders \ {f}
  /\ stats' = [stats EXCEPT ![f] = NoStats]
  /\ UNCHANGED <<pc, idx, folder, alive, faulted, history>>

(* What the driver's program does next. *)
Step(d) ==
  \/ DoExperiment(d) \/ GenerateTestfolder(d) \/ CleanPorts(d)
  \/ GetGatewayInfo(d) \/ LaunchStorageMon(d) \/ StartFortio(d) \/ LaunchPrometheus(d)
  \/ BeginRun(d) \/ InjectFailure(d) \/ RemoveFailure(d)
  \/ OpenStats(d) \/ CheckCongestion(d) \/ TerminateLoop(d)
  \/ KillPrometheus(d) \/ KillFortio(d) \/ KillStorage(d)
  \/ Exit(d)

Next ==
  \/ \E d \in Drivers : Step(d) \/ Fail(d) \/ Interrupt(d) \/ QueryFails(d)
  \/ \E p \in alive : ChildEnds(p)
  \/ \E f \in folders : RemoveFolder(f)

Spec == Init /\ [][Next]_vars

(* Sleeps, kubectl and gcloud end; the user need not begin an experiment.   *)
(* The request to the storage has no timeout: it is refused where no        *)
(* forward is up, and one that is up may never answer it.  A query loop     *)
(* without Prometheus gives up after its retries.                           *)
CheckUnforwarded(d) ==
  /\ pc[d] = "check" /\ ~ForwardUp("storage")
  /\ CheckCongestion(d) \/ Fail(d)

Fairness ==
  \A d \in Drivers : /\ WF_vars(pc[d] \notin {"off", "check"} /\ Step(d))
                     /\ WF_vars(CheckUnforwarded(d))
                     /\ WF_vars(QueryFails(d))

FairSpec == Spec /\ Fairness

--------------------------------------------------------------------------------

TypeOK ==
  /\ pc \in [Drivers -> Steps]
  /\ idx \in [Drivers -> Nat]
  /\ \A d \in Drivers : idx[d] <= Runs[d]
  /\ folder \in [Drivers -> Folders \cup {None}]
  /\ alive \in SUBSET (Drivers \X Kinds)
  /\ faulted \in BOOLEAN
  /\ folders \in SUBSET Folders
  /\ stats \in [Folders -> [Indices -> Files]]
  /\ outcome \in [Drivers -> Outcomes]
  /\ stuck \in BOOLEAN
  /\ missed \in SUBSET (Drivers \X Forwards)

(* A driver that reaches its end leaves no child behind, however many runs  *)
(* it made and whichever children ended before (run_experiment.py:188-214,  *)
(* 242-245).                                                                *)
CleanFinish ==
  \A d \in Drivers : outcome[d] = "done" => \A k \in Kinds : <<d, k>> \notin alive

(* A driver waits for a child at its exit only if it failed in              *)
(* check_congestion of a run that has no verdict (run_experiment.py:38-41,  *)
(* 154, 210-213).                                                           *)
HangsOnlyInCheck ==
  \A d \in Drivers :
    pc[d] = "leaving" /\ <<d, "query">> \in alive
      => /\ outcome[d] = "failed"
         /\ idx[d] < Runs[d]
         /\ stats[folder[d]][idx[d]] # [by |-> d, whole |-> TRUE]

(* A driver past the clearing of the ports reads through a forward that     *)
(* another driver left only if the clearing missed that forward, and then   *)
(* it has none of its own on this port: nothing else mixes the forwards of  *)
(* two experiments (run_experiment.py:105, 121, 227-228, util.py:105-107).  *)
OwnForwards ==
  \A d, e \in Drivers : \A k \in Forwards :
    AtWork(d) /\ pc[d] \notin {"folder", "ports"} /\ e # d /\ <<e, k>> \in alive
      => <<e, k>> \in missed /\ <<d, k>> \notin alive

(* The injected failure outlives a run only if its last removal failed or a *)
(* driver was interrupted; no exit and no exception leaves it behind        *)
(* (run_experiment.py:201-205).                                             *)
NoStrayFault ==
  faulted => \/ stuck
             \/ \E d \in Drivers : pc[d] = "remove" \/ outcome[d] = "interrupted"

(* The folder of a driver that reached its end has the verdict of each of   *)
(* its runs, unless another driver was given that folder, or it was removed *)
(* (run_experiment.py:150-155, 161, 181-183).                               *)
CompleteResults ==
  \A d \in Drivers :
    /\ outcome[d] = "done"
    /\ folder[d] \in folders
    /\ \A e \in Drivers \ {d} : folder[e] # folder[d]
    => \A i \in 0..(Runs[d] - 1) : stats[folder[d]][i] = [by |-> d, whole |-> TRUE]

(* The file of one driver is overwritten by another only where the user     *)
(* removed a folder with a smaller number (run_experiment.py:27-34, 154).   *)
ResultsKept ==
  [][\A f \in Folders, i \in Indices :
       /\ stats[f][i] # None /\ stats'[f][i] # None
       /\ stats'[f][i].by # stats[f][i].by
       => \E g \in Folders : g < f /\ g \notin folders]_vars

(* A driver that works leaves, so that again and again the next one can     *)
(* begin, unless it stays in its check: then a forward of the storage is up *)
(* that does not answer its request (run_experiment.py:86, 186-245).        *)
DriversLeave ==
  \A d \in Drivers : \/ []<>~AtWork(d)
                     \/ <>[](pc[d] = "check" /\ ForwardUp("storage"))

(* If some driver never gets past its exit it is held there by a Prometheus *)
(* forward: whatever ends that forward frees it (run_experiment.py:105,     *)
(* 133-134).                                                                *)
HangsOnlyOnForward ==
  <>[](\E d \in Drivers : pc[d] = "leaving") => []<>ForwardUp("prometheus")
===============================================================================
