------------------------------ MODULE Deployment ------------------------------
(***************************************************************************)
(* The operations of kube_env.py on a cluster, and the full run of         *)
(* run_experiment.py, which is made of them: the commands each operation   *)
(* runs, whose results it checks and whose it ignores, and what its own    *)
(* result says about the cluster.                                          *)
(*                                                                         *)
(* The user runs one operation at a time, in any order.  A command may     *)
(* fail at any time, and one that applies several files may have applied   *)
(* the first of them.  The cluster and the commands are not part of the    *)
(* repository: what they do is modelled from how it uses them.             *)
(***************************************************************************)
EXTENDS Naturals, Sequences

VARIABLES
  op,        \* the operation that was begun last
  pc,        \* the command it runs next, or "idle"
  result     \* what it returned: "none" while it runs

operation == <<op, pc, result>>

VARIABLES
  cluster,   \* there is a cluster
  objects,   \* what is applied to it
  pods,      \* the pods of bookinfo
  built      \* filter.wasm has been built

state == <<cluster, objects, pods, built>>

VARIABLES
  booked,    \* history: deploy_bookinfo has run by itself on this cluster
  ignored    \* history: commands of this operation that failed unnoticed

history == <<booked, ignored>>

vars == <<operation, state, history>>

(* The arguments of the chains of kubectl commands, in their order: the     *)
(* resources that are applied.  "mounts" are the volumes that              *)
(* bookinfo-mod-filter.yaml adds to the deployments, "filter" is filter.yaml, *)
(* "entry" is productpage-cluster.yaml.                                     *)
BookFiles == <<"bookinfo", "gateway", "rules", "storage", "entry">>
AddonFiles == <<"prometheus", "grafana">>

Elements(files) == {files[i] : i \in DOMAIN files}

Mesh == {"istio", "label"}
App == Mesh \cup Elements(BookFiles) \cup Elements(AddonFiles)
Objects == App \cup {"configmap", "mounts", "filter"}

(* "plain" pods were created without a sidecar, "sidecar" ones with it; the *)
(* latter have the filter's file mounted if their deployments say so.       *)
Pods == {"none", "plain", "sidecar"}

(* The operations of main, and of run_experiment.py with --full-run. *)
Operations == {"setup", "deploy_bookinfo", "remove_bookinfo", "clean",
               "build_filter", "deploy_filter", "undeploy_filter",
               "refresh_filter", "full_run"}

First ==
  [setup |-> "start", deploy_bookinfo |-> "status", remove_bookinfo |-> "cleanup",
   clean |-> "stop", build_filter |-> "build", deploy_filter |-> "configmap",
   undeploy_filter |-> "undeploy", refresh_filter |-> "refresh",
   full_run |-> "start"]

Commands == {First[o] : o \in Operations} \cup
            {"istio", "label", "status", "book", "wait_book", "wait_failed",
             "addons", "wait_addons", "replace", "wait_filter", "activate",
             "experiment"}

Results == {"none", "success", "failure", "raised"}

Init ==
  /\ op = "clean" /\ pc = "idle" /\ result = "none"
  /\ cluster = FALSE /\ objects = {} /\ pods = "none"
  /\ built \in BOOLEAN
  /\ booked = FALSE /\ ignored = {}

--------------------------------------------------------------------------------

Goto(step) == pc' = step /\ UNCHANGED <<op, result>>

Return(r) == pc' = "idle" /\ result' = r /\ UNCHANGED op

(* A function has returned r: its caller goes on at step if there is one    *)
(* and r is a success.                                                      *)
ReturnTo(callers, step, r) ==
  IF op \in callers /\ r = "success" THEN Goto(step) ELSE Return(r)

Ignore(command) == ignored' = ignored \cup {command} /\ UNCHANGED booked

(* Pods get a sidecar when the namespace is labelled as they are created. *)
NewPods(present) == IF Mesh \subseteq present THEN "sidecar" ELSE "plain"

(* kubectl apply of these files has left the objects in present: new        *)
(* deployments have new pods, and those that were there keep theirs.        *)
Applied(present) ==
  /\ objects' = present
  /\ pods' = IF "bookinfo" \in present \ objects THEN NewPods(objects) ELSE pods
  /\ UNCHANGED <<cluster, built>>

ApplyAnyway(files) == Applied(objects \cup Elements(files))  \* mutant: no cluster
ApplyAll(files) == cluster /\ Applied(objects \cup Elements(files))

ApplySome(files) ==
  IF cluster
  THEN \E n \in 0..Len(files) :
         Applied(objects \cup Elements(SubSeq(files, 1, n)))
  ELSE UNCHANGED state

Begin(o) ==
  /\ pc = "idle"
  /\ op' = o /\ pc' = First[o] /\ result' = "none"
  /\ ignored' = {}
  /\ booked' = (booked \/ (o = "deploy_bookinfo" /\ cluster))
  /\ UNCHANGED state

MeshLater ==                             \* mutant: bookinfo before the mesh
  /\ pc = "start" /\ Goto("status")
  /\ \/ cluster' = TRUE /\ UNCHANGED history
     \/ cluster' \in {cluster, TRUE} /\ Ignore("start")
  /\ UNCHANGED <<objects, pods, built>>

(* start_kubernetes, whose result setup_bookinfo_deployment ignores. *)
StartKubernetes ==
  /\ pc = "start" /\ Goto("istio")
  /\ \/ cluster' = TRUE /\ UNCHANGED history
     \/ cluster' \in {cluster, TRUE} /\ Ignore("start")
  /\ UNCHANGED <<objects, pods, built>>

(* inject_istio: two commands, each of which is checked. *)
Unchecked ==                             \* mutant: the result is not checked
  /\ pc = "istio"
  /\ \/ ApplyAll(<<"istio">>) /\ Goto("label")
     \/ ApplySome(<<"istio">>) /\ Goto("label")
  /\ UNCHANGED history

InstallIstio ==
  /\ pc = "istio"
  /\ \/ ApplyAll(<<"istio">>) /\ Goto("label")
     \/ ApplySome(<<"istio">>) /\ Return("failure")
  /\ UNCHANGED history

LabelNamespace ==
  /\ pc = "label"
  /\ \/ ApplyAll(<<"label">>) /\ Goto("status")
     \/ ApplySome(<<"label">>) /\ Return("failure")
  /\ UNCHANGED history

(* deploy_bookinfo: sys.exit when the cluster does not answer. *)
CheckStatus ==
  /\ pc = "status"
  /\ \/ cluster /\ Goto("book")
     \/ Return("raised")
  /\ UNCHANGED <<state, history>>

ResultForgotten ==                       \* mutant: the result of the wait
  /\ pc = "book"
  /\ (ApplyAll(BookFiles) \/ ApplySome(BookFiles)) /\ Goto("wait_book")
  /\ UNCHANGED history

(* The result of the chain is kept while bookinfo is waited for. *)
DeployBookinfo ==
  /\ pc = "book"
  /\ \/ ApplyAll(BookFiles) /\ Goto("wait_book")
     \/ ApplySome(BookFiles) /\ Goto("wait_failed")
  /\ UNCHANGED history

(* bookinfo_wait: the results of the rollouts are ignored, and listing the  *)
(* deployments may raise.                                                   *)
BookinfoWait ==
  /\ \/ pc = "wait_book" /\ ReturnTo({"setup", "full_run"}, "addons", "success")
     \/ pc = "wait_failed" /\ Return("failure")
     \/ pc \in {"wait_book", "wait_failed"} /\ Return("raised")
  /\ UNCHANGED <<state, history>>

(* deploy_addons *)
DeployAddons ==
  /\ pc = "addons"
  /\ \/ ApplyAll(AddonFiles) /\ Goto("wait_addons")
     \/ ApplySome(AddonFiles) /\ Return("failure")
  /\ UNCHANGED history

AddonsWait ==
  /\ pc = "wait_addons"
  /\ \/ ReturnTo({"full_run"}, "configmap", "success")
     \/ Return("raised")
  /\ UNCHANGED <<state, history>>

--------------------------------------------------------------------------------

BuildFilter ==
  /\ pc = "build"
  /\ \/ built' = TRUE /\ Return("success") /\ UNCHANGED <<cluster, objects, pods>>
     \/ Return("failure") /\ UNCHANGED state
  /\ UNCHANGED history

(* deploy_filter: without a filter.wasm there is nothing to apply. *)
GoOnWithout ==                           \* mutant: the result is not checked
  /\ pc = "configmap"
  /\ \/ built /\ ApplyAll(<<"configmap">>) /\ Goto("replace")
     \/ UNCHANGED state /\ Goto("replace")
  /\ UNCHANGED history

CreateConfigmap ==
  /\ pc = "configmap"
  /\ \/ built /\ ApplyAll(<<"configmap">>) /\ Goto("replace")
     \/ UNCHANGED state /\ Return("failure")
  /\ UNCHANGED history

(* kubectl replace of the deployments, which must be there: their pods are  *)
(* replaced when they change.  It may fail before or after that, and its    *)
(* result is ignored.                                                       *)
Mount ==
  /\ "bookinfo" \in objects
  /\ objects' = objects \cup {"mounts"}
  /\ pods' = IF "mounts" \in objects THEN pods ELSE NewPods(objects)
  /\ UNCHANGED <<cluster, built>>

ReplaceDeployments ==
  /\ pc = "replace" /\ Goto("wait_filter")
  /\ \/ Mount /\ UNCHANGED history
     \/ (Mount \/ UNCHANGED state) /\ Ignore("replace")

WaitForFilter ==
  /\ pc = "wait_filter"
  /\ Goto("activate") \/ Return("raised")
  /\ UNCHANGED <<state, history>>

ActivateFilter ==
  /\ pc = "activate"
  /\ \/ ApplyAll(<<"filter">>) /\ ReturnTo({"full_run"}, "experiment", "success")
     \/ ApplySome(<<"filter">>) /\ Return("failure")
  /\ UNCHANGED history

(* kubectl delete of what is not there fails. *)
UndeployFilter ==
  /\ pc = "undeploy"
  /\ \/ /\ "filter" \in objects
        /\ objects' = objects \ {"filter"}
        /\ Return("success")
        /\ UNCHANGED <<cluster, pods, built>>
     \/ Return("failure") /\ UNCHANGED state
  /\ UNCHANGED history

RefreshFilter ==
  /\ pc = "refresh"
  /\ \/ /\ cluster
        /\ pods' = IF "bookinfo" \in objects THEN NewPods(objects) ELSE pods
        /\ Return("success")
        /\ UNCHANGED <<cluster, objects, built>>
     \/ Return("failure") /\ UNCHANGED state
  /\ UNCHANGED history

--------------------------------------------------------------------------------

(* remove_bookinfo: cleanup.sh removes the application, what the gateway    *)
(* and the rules are, and the deployments with their volumes; then the      *)
(* storage and its entry are deleted, each only if the one before was.      *)
Cleaned == {"bookinfo", "gateway", "rules", "mounts"}

RemoveBookinfo ==
  /\ pc = "cleanup"
  /\ \E n \in 0..3 :
       /\ n > 0 => cluster
       /\ n > 1 => "storage" \in objects
       /\ n = 3 => "entry" \in objects
       /\ objects' = objects \ (  (IF n > 0 THEN Cleaned ELSE {})
                             \cup (IF n > 1 THEN {"storage"} ELSE {})
                             \cup (IF n > 2 THEN {"entry"} ELSE {}))
       /\ pods' = IF n > 0 THEN "none" ELSE pods
       /\ Return(IF n = 3 THEN "success" ELSE "failure")
  /\ UNCHANGED <<cluster, built, history>>

(* stop_kubernetes; a full run, which ends with it, ignores the result. *)
StopKubernetes ==
  /\ pc = "stop"
  /\ \/ /\ cluster' = FALSE /\ objects' = {} /\ pods' = "none"
        /\ booked' = FALSE
        /\ Return("success")
        /\ UNCHANGED <<built, ignored>>
     \/ /\ IF op = "full_run"
           THEN Ignore("stop") /\ Return("success")
           ELSE UNCHANGED history /\ Return("failure")
        /\ UNCHANGED state

(* do_experiment comes back, or exits the program with an error. *)
DoExperiment ==
  /\ pc = "experiment"
  /\ Goto("stop") \/ Return("raised")
  /\ UNCHANGED <<state, history>>

(* The user interrupts the operation. *)
Interrupt ==
  /\ pc # "idle"
  /\ Return("raised")
  /\ UNCHANGED <<state, history>>

Next ==
  \/ \E o \in Operations : Begin(o)
  \/ StartKubernetes \/ InstallIstio \/ LabelNamespace
  \/ CheckStatus \/ DeployBookinfo \/ BookinfoWait
  \/ DeployAddons \/ AddonsWait
  \/ BuildFilter \/ CreateConfigmap \/ ReplaceDeployments
  \/ WaitForFilter \/ ActivateFilter \/ UndeployFilter \/ RefreshFilter
  \/ RemoveBookinfo \/ StopKubernetes \/ DoExperiment \/ Interrupt

Spec == Init /\ [][Next]_vars

--------------------------------------------------------------------------------

(* Nothing is applied, and no pod runs, where there is no cluster. *)
TypeOK ==
  /\ op \in Operations
  /\ pc \in Commands \cup {"idle"}
  /\ result \in Results
  /\ cluster \in BOOLEAN
  /\ objects \in SUBSET Objects
  /\ pods \in Pods
  /\ built \in BOOLEAN
  /\ booked \in BOOLEAN
  /\ ignored \in SUBSET {"start", "replace", "stop"}
  /\ cluster \/ (objects = {} /\ pods = "none")

(* The filter is configured, and its file is in the volumes of the          *)
(* deployments, unless replacing them was the command that failed.          *)
FilterInstalled ==
  /\ {"configmap", "filter"} \subseteq objects
  /\ "mounts" \in objects \/ "replace" \in ignored

(* What the success of an operation says about the cluster it leaves. *)
Promised(o) ==
  CASE o = "setup" -> App \subseteq objects
    [] o = "deploy_bookinfo" -> Elements(BookFiles) \subseteq objects
    [] o = "remove_bookinfo" -> objects \cap Elements(BookFiles) = {} /\ pods = "none"
    [] o = "clean" -> ~cluster
    [] o = "build_filter" -> built
    [] o = "deploy_filter" -> FilterInstalled
    [] o = "undeploy_filter" -> "filter" \notin objects
    [] o = "refresh_filter" ->
         "bookinfo" \in objects /\ Mesh \subseteq objects => pods = "sidecar"
    [] o = "full_run" -> cluster => "stop" \in ignored

(* An operation that returns success has done all it is for, but for the    *)
(* commands whose failure it ignores: a cluster that could not be started   *)
(* makes the next command fail, an early failure is not forgotten while the *)
(* rest is waited for (kube_env.py:41-49, 86-104, 227-236, 256-274).        *)
SuccessMeans == result = "success" => Promised(op)

(* The filter is never active without the config map its file comes from,   *)
(* whichever operations came before or were cut short                       *)
(* (kube_env.py:256-274).                                                   *)
FilterHasFile == "filter" \in objects => "configmap" \in objects

(* Pods of bookinfo run without a sidecar only if it was once deployed by   *)
(* itself: setup installs and labels the mesh first (kube_env.py:227-236).  *)
SidecarsFirst == pods = "plain" => booked

(* A full run measures only where all that setup and deploy_filter deploy   *)
(* is there (run_experiment.py:248-258).                                    *)
ExperimentPrepared ==
  pc = "experiment" =>
    /\ App \subseteq objects
    /\ FilterInstalled
    /\ pods = "sidecar" \/ booked
===============================================================================
