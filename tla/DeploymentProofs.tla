---------------------------- MODULE DeploymentProofs ----------------------------
(* Theorems of Deployment: what holds of the cluster however long the user  *)
(* goes on, whichever commands fail or are interrupted.                     *)
EXTENDS Deployment, TLAPS

BookPhase == {"status", "book", "wait_book", "wait_failed"}
SetupPhase == BookPhase \cup {"start", "istio", "label", "addons", "wait_addons"}
FilterPhase == {"configmap", "replace", "wait_filter", "activate"}

(* The commands an operation runs. *)
CommandOfOperation ==
  /\ pc \in SetupPhase \ BookPhase => op \in {"setup", "full_run"}
  /\ pc \in BookPhase => op \in {"setup", "full_run", "deploy_bookinfo"}
  /\ pc \in FilterPhase => op \in {"deploy_filter", "full_run"}
  /\ pc = "experiment" => op = "full_run"
  /\ pc = "stop" => op \in {"clean", "full_run"}
  /\ pc = "build" => op = "build_filter"
  /\ pc = "cleanup" => op = "remove_bookinfo"
  /\ pc = "undeploy" => op = "undeploy_filter"
  /\ pc = "refresh" => op = "refresh_filter"
  /\ pc # "idle" => result = "none"

(* What an operation has done when it has come to a command. *)
MeshDone ==
  /\ pc = "label" => "istio" \in objects
  /\ pc \in BookPhase \cup {"addons", "wait_addons"} /\ op # "deploy_bookinfo" =>
       Mesh \subseteq objects

BookDone ==
  /\ pc \in {"wait_book", "addons", "wait_addons"} => Elements(BookFiles) \subseteq objects
  /\ pc = "wait_addons" => Elements(AddonFiles) \subseteq objects
  /\ pc \in FilterPhase \cup {"experiment"} /\ op = "full_run" => App \subseteq objects

FilterDone ==
  /\ pc \in {"replace", "wait_filter", "activate", "experiment"} => "configmap" \in objects
  /\ pc \in {"wait_filter", "activate", "experiment"} =>
       "mounts" \in objects \/ "replace" \in ignored
  /\ pc = "experiment" => "filter" \in objects

(* Pods come from the deployments of bookinfo, and these from a setup, which *)
(* has the mesh, or from a deploy_bookinfo.                                 *)
PodsFollow ==
  /\ pods # "none" <=> "bookinfo" \in objects
  /\ "bookinfo" \in objects => booked \/ Mesh \subseteq objects
  /\ SidecarsFirst

BookedFirst == pc \in BookPhase /\ op = "deploy_bookinfo" /\ cluster => booked

(* The invariant the theorems follow from. *)
IInv ==
  /\ TypeOK /\ CommandOfOperation
  /\ MeshDone /\ BookDone /\ FilterDone /\ BookedFirst
  /\ PodsFollow /\ FilterHasFile /\ SuccessMeans

--------------------------------------------------------------------------------

LEMMA FilesAre ==
  /\ Elements(BookFiles) = {"bookinfo", "gateway", "rules", "storage", "entry"}
  /\ Elements(AddonFiles) = {"prometheus", "grafana"}
  /\ \A f : Elements(<<f>>) = {f}
<1>1. DOMAIN BookFiles = {1, 2, 3, 4, 5} /\ DOMAIN AddonFiles = {1, 2}
  BY DEF BookFiles, AddonFiles
<1>2. ASSUME NEW f PROVE DOMAIN <<f>> = {1}
  OBVIOUS
<1>3. ASSUME NEW f PROVE Elements(<<f>>) = {f}
  BY <1>2 DEF Elements
<1>4. Elements(AddonFiles) = {"prometheus", "grafana"}
  BY <1>1 DEF AddonFiles, Elements
<1>5. Elements(BookFiles) = {"bookinfo", "gateway", "rules", "storage", "entry"}
  BY <1>1 DEF BookFiles, Elements
<1> QED
  BY <1>3, <1>4, <1>5

LEMMA ObjectsAre ==
  /\ App = {"istio", "label", "bookinfo", "gateway", "rules", "storage", "entry",
            "prometheus", "grafana"}
  /\ Objects = {"istio", "label", "bookinfo", "gateway", "rules", "storage", "entry",
                "prometheus", "grafana", "configmap", "mounts", "filter"}
BY FilesAre DEF Objects, App, Mesh

LEMMA FilesListed ==
  /\ BookFiles \in Seq(Objects) /\ AddonFiles \in Seq(Objects)
  /\ \A f \in Objects : <<f>> \in Seq(Objects)
<1>1. BookFiles \in Seq(Objects)
  <2>1. ASSUME NEW S, NEW a \in S, NEW b \in S, NEW c \in S, NEW d \in S, NEW e \in S
        PROVE  <<a, b, c, d, e>> \in Seq(S)
    OBVIOUS
  <2>2. /\ "bookinfo" \in Objects /\ "gateway" \in Objects /\ "rules" \in Objects
        /\ "storage" \in Objects /\ "entry" \in Objects
    BY ObjectsAre
  <2> QED
    BY <2>1, <2>2 DEF BookFiles
<1>2. AddonFiles \in Seq(Objects)
  <2>1. ASSUME NEW S, NEW a \in S, NEW b \in S PROVE <<a, b>> \in Seq(S)
    OBVIOUS
  <2>2. "prometheus" \in Objects /\ "grafana" \in Objects
    BY ObjectsAre
  <2> QED
    BY <2>1, <2>2 DEF AddonFiles
<1>3. ASSUME NEW S, NEW f \in S PROVE <<f>> \in Seq(S)
  OBVIOUS
<1> QED
  BY <1>1, <1>2, <1>3

(* A chain of kubectl commands, whether it ends or not, adds some of its    *)
(* files to a cluster, if there is one, and takes nothing away.             *)
Adds(files) ==
  /\ objects \subseteq objects' /\ objects' \subseteq objects \cup Elements(files)
  /\ pods' = IF "bookinfo" \in objects' \ objects THEN NewPods(objects) ELSE pods
  /\ cluster \/ (objects' = objects /\ pods' = pods)
  /\ cluster' = cluster /\ built' = built

LEMMA ApplyAllAdds ==
  ASSUME NEW files, ApplyAll(files)
  PROVE  Adds(files) /\ Elements(files) \subseteq objects'
BY DEF ApplyAll, Applied, Adds

LEMMA ApplySomeAdds ==
  ASSUME NEW files \in Seq(Objects), ApplySome(files)
  PROVE  Adds(files)
<1>1. ASSUME NEW n \in 0..Len(files)
      PROVE  Elements(SubSeq(files, 1, n)) \subseteq Elements(files)
  <2>1. /\ DOMAIN SubSeq(files, 1, n) \subseteq DOMAIN files
        /\ \A i \in DOMAIN SubSeq(files, 1, n) : SubSeq(files, 1, n)[i] = files[i]
    OBVIOUS
  <2> QED
    BY <2>1 DEF Elements
<1>2. CASE cluster
  BY <1>1, <1>2 DEF ApplySome, Applied, Adds
<1>3. CASE ~cluster
  BY <1>3 DEF ApplySome, Adds, state
<1> QED
  BY <1>2, <1>3
(* Adding files of its own to the cluster, a command leaves what is there   *)
(* in order when bookinfo and filter.yaml come at their time.               *)
LEMMA AddsKeeps ==
  ASSUME IInv, NEW files, Adds(files), UNCHANGED history,
         Elements(files) \subseteq Objects \ {"mounts"},
         "bookinfo" \in Elements(files) => pc = "book" /\ cluster,
         "filter" \in Elements(files) => "configmap" \in objects
  PROVE  /\ objects' \in SUBSET Objects /\ pods' \in Pods
         /\ cluster' \in BOOLEAN /\ built' \in BOOLEAN
         /\ booked' \in BOOLEAN /\ ignored' \in SUBSET {"start", "replace", "stop"}
         /\ cluster' \/ (objects' = {} /\ pods' = "none")
         /\ PodsFollow' /\ FilterHasFile'
<1> USE DEF IInv, TypeOK, Adds, history
<1>1. /\ objects' \in SUBSET Objects /\ pods' \in Pods
      /\ cluster' \in BOOLEAN /\ built' \in BOOLEAN
      /\ booked' \in BOOLEAN /\ ignored' \in SUBSET {"start", "replace", "stop"}
      /\ cluster' \/ (objects' = {} /\ pods' = "none")
  BY DEF Objects, Pods, NewPods
<1>2. FilterHasFile'
  BY DEF FilterHasFile
<1>3. PodsFollow'
  <2>1. CASE "bookinfo" \in objects' \ objects
    <3>1. pc = "book" /\ cluster
      BY <2>1
    <3>2. booked \/ Mesh \subseteq objects
      BY <3>1 DEF MeshDone, BookedFirst, CommandOfOperation, BookPhase
    <3> QED
      BY <1>1, <2>1, <3>2 DEF NewPods, PodsFollow, SidecarsFirst
  <2>2. CASE ~("bookinfo" \in objects' \ objects)
    BY <1>1, <2>2 DEF PodsFollow, SidecarsFirst
  <2> QED
    BY <2>1, <2>2
<1> QED
  BY <1>1, <1>2, <1>3

LEMMA InitInv == Init => IInv
BY DEF Init, IInv, TypeOK, CommandOfOperation, MeshDone, BookDone, FilterDone, PodsFollow,
       BookedFirst, FilterHasFile, SidecarsFirst, SuccessMeans, BookPhase, SetupPhase,
       FilterPhase, Operations, Commands, Results, Objects, Pods

(* An operation may return at any time, if it has what it promises. *)
LEMMA ReturnKeeps ==
  ASSUME IInv, NEW r \in Results \ {"none"}, Return(r),
         TypeOK', PodsFollow', FilterHasFile', r = "success" => Promised(op)'
  PROVE  IInv'
<1>1. pc' = "idle" /\ op' = op /\ result' = r
  BY DEF Return
<1>2. CommandOfOperation' /\ MeshDone' /\ BookDone' /\ FilterDone' /\ BookedFirst'
  BY <1>1 DEF CommandOfOperation, MeshDone, BookDone, FilterDone, BookedFirst,
              BookPhase, SetupPhase, FilterPhase
<1>3. SuccessMeans'
  BY <1>1 DEF SuccessMeans
<1> QED
  BY <1>2, <1>3 DEF IInv

LEMMA ReturnTypes ==
  ASSUME IInv, NEW r \in Results, Return(r)
  PROVE  op' \in Operations /\ pc' \in Commands \cup {"idle"} /\ result' \in Results
BY DEF IInv, TypeOK, Return

(* ... as may one that has failed and changed nothing else. *)
LEMMA GiveUp ==
  ASSUME IInv, NEW r \in {"failure", "raised"}, Return(r), UNCHANGED <<state, history>>
  PROVE  IInv'
<1>1. UNCHANGED <<cluster, objects, pods, built, booked, ignored>>
  BY DEF state, history
<1>2. r \in Results \ {"none"}
  BY DEF Results
<1>3. TypeOK'
  BY <1>1, <1>2, ReturnTypes DEF IInv, TypeOK
<1>4. PodsFollow' /\ FilterHasFile'
  BY <1>1 DEF IInv, PodsFollow, FilterHasFile, SidecarsFirst
<1> QED
  BY <1>2, <1>3, <1>4, ReturnKeeps
LEMMA GoesOn ==
  ASSUME TypeOK', CommandOfOperation', MeshDone', BookDone', FilterDone', BookedFirst',
         PodsFollow', FilterHasFile', pc' # "idle"
  PROVE  IInv'
BY DEF IInv, SuccessMeans, CommandOfOperation

--------------------------------------------------------------------------------

LEMMA CommandsAre ==
  Commands = {"start", "status", "cleanup", "stop", "build", "configmap", "undeploy",
              "refresh", "istio", "label", "book", "wait_book", "wait_failed", "addons",
              "wait_addons", "replace", "wait_filter", "activate", "experiment"}
BY DEF Commands, First, Operations

LEMMA BeginKeeps == ASSUME IInv, NEW o \in Operations, Begin(o) PROVE IInv'
<1>1. /\ op' = o /\ pc' = First[o] /\ result' = "none" /\ ignored' = {}
      /\ booked' = (booked \/ (o = "deploy_bookinfo" /\ cluster))
      /\ UNCHANGED <<cluster, objects, pods, built>>
  BY DEF Begin, state
<1>2. TypeOK'
  <2>1. booked' \in BOOLEAN /\ pc' \in Commands
    BY <1>1 DEF Commands, IInv, TypeOK
  <2> QED
    BY <1>1, <2>1 DEF IInv, TypeOK, Results
<1>3. PodsFollow' /\ FilterHasFile'
  BY <1>1 DEF IInv, PodsFollow, FilterHasFile, SidecarsFirst
<1>4. \/ o = "setup" /\ pc' = "start"
      \/ o = "deploy_bookinfo" /\ pc' = "status"
      \/ o = "remove_bookinfo" /\ pc' = "cleanup"
      \/ o = "clean" /\ pc' = "stop"
      \/ o = "build_filter" /\ pc' = "build"
      \/ o = "deploy_filter" /\ pc' = "configmap"
      \/ o = "undeploy_filter" /\ pc' = "undeploy"
      \/ o = "refresh_filter" /\ pc' = "refresh"
      \/ o = "full_run" /\ pc' = "start"
  BY <1>1 DEF First, Operations
<1>5. CommandOfOperation' /\ pc' # "idle"
  BY <1>1, <1>4 DEF CommandOfOperation, BookPhase, SetupPhase, FilterPhase
<1>6. MeshDone' /\ BookDone' /\ FilterDone' /\ BookedFirst'
  BY <1>1, <1>4 DEF MeshDone, BookDone, FilterDone, BookedFirst, BookPhase, FilterPhase
<1> QED
  BY <1>2, <1>3, <1>5, <1>6, GoesOn

(* A step of an operation that leaves the cluster alone. *)
LEMMA StandStill ==
  ASSUME IInv, NEW step \in Commands, Goto(step), UNCHANGED <<state, history>>,
         CommandOfOperation', MeshDone', BookDone', FilterDone', BookedFirst', step # "idle"
  PROVE  IInv'
<1>1. UNCHANGED <<cluster, objects, pods, built, booked, ignored, op, result>> /\ pc' = step
  BY DEF state, history, Goto
<1>2. TypeOK'
  BY <1>1 DEF IInv, TypeOK
<1>3. PodsFollow' /\ FilterHasFile'
  BY <1>1 DEF IInv, PodsFollow, FilterHasFile, SidecarsFirst
<1> QED
  BY <1>1, <1>2, <1>3, GoesOn

LEMMA StartKeeps == ASSUME IInv, StartKubernetes PROVE IInv'
<1>1. /\ pc = "start" /\ pc' = "istio" /\ UNCHANGED <<op, result, objects, pods, built, booked>>
      /\ cluster' \in {cluster, TRUE} /\ ignored' \in {ignored, ignored \cup {"start"}}
  BY DEF StartKubernetes, Goto, Ignore, history
<1>2. TypeOK'
  <2>1. pc' \in Commands /\ ignored' \in SUBSET {"start", "replace", "stop"} /\ cluster' \in BOOLEAN
    BY <1>1, CommandsAre DEF IInv, TypeOK
  <2>2. cluster => cluster'
    BY <1>1
  <2> QED
    BY <1>1, <2>1, <2>2 DEF IInv, TypeOK
<1>3. PodsFollow' /\ FilterHasFile'
  BY <1>1 DEF IInv, PodsFollow, FilterHasFile, SidecarsFirst
<1>4. CommandOfOperation' /\ MeshDone' /\ BookDone' /\ FilterDone' /\ BookedFirst'
  BY <1>1 DEF IInv, CommandOfOperation, MeshDone, BookDone, FilterDone, BookedFirst,
              BookPhase, SetupPhase, FilterPhase
<1> QED
  BY <1>1, <1>2, <1>3, <1>4, GoesOn

(* What may be applied when, for the cluster to be left in order. *)
InTime(files) ==
  /\ files \in Seq(Objects)
  /\ Elements(files) \subseteq Objects \ {"mounts"}
  /\ "bookinfo" \in Elements(files) => pc = "book" /\ cluster
  /\ "filter" \in Elements(files) => "configmap" \in objects

LEMMA Applies ==
  ASSUME IInv, NEW files, InTime(files), ApplyAll(files), UNCHANGED history,
         op' \in Operations, pc' \in Commands \cup {"idle"}, result' \in Results
  PROVE  /\ Adds(files) /\ Elements(files) \subseteq objects'
         /\ TypeOK' /\ PodsFollow' /\ FilterHasFile'
<1>1. Adds(files) /\ Elements(files) \subseteq objects'
  BY ApplyAllAdds
<1>2. /\ objects' \in SUBSET Objects /\ pods' \in Pods
      /\ cluster' \in BOOLEAN /\ built' \in BOOLEAN
      /\ booked' \in BOOLEAN /\ ignored' \in SUBSET {"start", "replace", "stop"}
      /\ cluster' \/ (objects' = {} /\ pods' = "none")
      /\ PodsFollow' /\ FilterHasFile'
  BY <1>1, AddsKeeps DEF InTime
<1> QED
  BY <1>1, <1>2 DEF TypeOK

LEMMA FailsToApply ==
  ASSUME IInv, NEW files, InTime(files), ApplySome(files), UNCHANGED history,
         Return("failure")
  PROVE  IInv'
<1>1. Adds(files)
  BY ApplySomeAdds DEF InTime
<1>2. /\ objects' \in SUBSET Objects /\ pods' \in Pods
      /\ cluster' \in BOOLEAN /\ built' \in BOOLEAN
      /\ booked' \in BOOLEAN /\ ignored' \in SUBSET {"start", "replace", "stop"}
      /\ cluster' \/ (objects' = {} /\ pods' = "none")
      /\ PodsFollow' /\ FilterHasFile'
  BY <1>1, AddsKeeps DEF InTime
<1>3. op' \in Operations /\ pc' \in Commands \cup {"idle"} /\ result' \in Results
  BY ReturnTypes DEF Results
<1>4. TypeOK'
  BY <1>2, <1>3 DEF TypeOK
<1> QED
  BY <1>2, <1>4, ReturnKeeps DEF Results

LEMMA GotoTypes ==
  ASSUME IInv, NEW step \in Commands, Goto(step)
  PROVE  /\ op' \in Operations /\ pc' \in Commands \cup {"idle"} /\ result' \in Results
         /\ pc' = step /\ UNCHANGED <<op, result>>
BY DEF IInv, TypeOK, Goto

LEMMA InstallKeeps == ASSUME IInv, InstallIstio PROVE IInv'
<1>1. pc = "istio" /\ UNCHANGED history /\ Elements(<<"istio">>) = {"istio"}
  BY FilesAre DEF InstallIstio
<1>2. InTime(<<"istio">>)
  <2>1. <<"istio">> \in Seq(Objects)
    BY FilesListed, ObjectsAre
  <2> QED
    BY <1>1, <2>1, ObjectsAre DEF InTime
<1>3. CASE ApplyAll(<<"istio">>) /\ Goto("label")
  <2>1. pc' = "label" /\ UNCHANGED <<op, result>> /\ op' \in Operations
        /\ pc' \in Commands \cup {"idle"} /\ result' \in Results
    BY <1>3, GotoTypes, CommandsAre
  <2>2. /\ Adds(<<"istio">>) /\ "istio" \in objects'
        /\ TypeOK' /\ PodsFollow' /\ FilterHasFile'
    BY <1>1, <1>2, <1>3, <2>1, Applies
  <2>3. CommandOfOperation' /\ MeshDone' /\ BookDone' /\ FilterDone' /\ BookedFirst'
    BY <1>1, <2>1, <2>2 DEF IInv, CommandOfOperation, MeshDone, BookDone, FilterDone,
       BookedFirst, BookPhase, SetupPhase, FilterPhase
  <2> QED
    BY <2>1, <2>2, <2>3, GoesOn
<1>4. CASE ApplySome(<<"istio">>) /\ Return("failure")
  BY <1>1, <1>2, <1>4, FailsToApply
<1> QED
  BY <1>3, <1>4 DEF InstallIstio

LEMMA LabelKeeps == ASSUME IInv, LabelNamespace PROVE IInv'
<1>1. pc = "label" /\ UNCHANGED history /\ Elements(<<"label">>) = {"label"}
  BY FilesAre DEF LabelNamespace
<1>2. InTime(<<"label">>)
  <2>1. <<"label">> \in Seq(Objects)
    BY FilesListed, ObjectsAre
  <2> QED
    BY <1>1, <2>1, ObjectsAre DEF InTime
<1>3. CASE ApplyAll(<<"label">>) /\ Goto("status")
  <2>1. pc' = "status" /\ UNCHANGED <<op, result>> /\ op' \in Operations
        /\ pc' \in Commands \cup {"idle"} /\ result' \in Results
    BY <1>3, GotoTypes, CommandsAre
  <2>2. /\ Adds(<<"label">>) /\ "label" \in objects'
        /\ TypeOK' /\ PodsFollow' /\ FilterHasFile'
    BY <1>1, <1>2, <1>3, <2>1, Applies
  <2>3. CommandOfOperation' /\ MeshDone' /\ BookDone' /\ FilterDone' /\ BookedFirst'
    BY <1>1, <2>1, <2>2 DEF IInv, CommandOfOperation, MeshDone, BookDone, FilterDone,
       BookedFirst, BookPhase, SetupPhase, FilterPhase, Mesh, Adds
  <2> QED
    BY <2>1, <2>2, <2>3, GoesOn
<1>4. CASE ApplySome(<<"label">>) /\ Return("failure")
  BY <1>1, <1>2, <1>4, FailsToApply
<1> QED
  BY <1>3, <1>4 DEF LabelNamespace
LEMMA StatusKeeps == ASSUME IInv, CheckStatus PROVE IInv'
<1>1. pc = "status" /\ UNCHANGED <<state, history>>
  BY DEF CheckStatus
<1>2. CASE cluster /\ Goto("book")
  <2>1. pc' = "book" /\ UNCHANGED <<op, result, cluster, objects, pods, built, booked, ignored>>
    BY <1>1, <1>2 DEF Goto, state, history
  <2>2. CommandOfOperation' /\ MeshDone' /\ BookDone' /\ FilterDone' /\ BookedFirst'
    BY <1>1, <2>1 DEF IInv, CommandOfOperation, MeshDone, BookDone, FilterDone,
       BookedFirst, BookPhase, SetupPhase, FilterPhase
  <2> QED
    BY <1>1, <1>2, <2>2, StandStill, CommandsAre
<1>3. CASE Return("raised")
  BY <1>1, <1>3, GiveUp
<1> QED
  BY <1>2, <1>3 DEF CheckStatus

(* CheckStatus has seen the cluster, which only stop_kubernetes takes away. *)
LEMMA BookKeeps == ASSUME IInv, DeployBookinfo PROVE IInv'
<1>1. pc = "book" /\ UNCHANGED history
  BY DEF DeployBookinfo
<1>2. CASE ApplyAll(BookFiles) /\ Goto("wait_book")
  <2>1. pc' = "wait_book" /\ UNCHANGED <<op, result>> /\ op' \in Operations
        /\ pc' \in Commands \cup {"idle"} /\ result' \in Results
    BY <1>2, GotoTypes, CommandsAre
  <2>2. InTime(BookFiles)
    BY <1>1, <1>2, FilesAre, FilesListed, ObjectsAre DEF InTime, ApplyAll
  <2>3. /\ Adds(BookFiles) /\ Elements(BookFiles) \subseteq objects'
        /\ TypeOK' /\ PodsFollow' /\ FilterHasFile'
    BY <1>1, <1>2, <2>1, <2>2, Applies
  <2>4. CommandOfOperation' /\ MeshDone' /\ BookDone' /\ FilterDone' /\ BookedFirst'
    BY <1>1, <2>1, <2>3 DEF IInv, CommandOfOperation, MeshDone, BookDone, FilterDone,
       BookedFirst, BookPhase, SetupPhase, FilterPhase, Adds, history
  <2> QED
    BY <2>1, <2>3, <2>4, GoesOn
<1>3. CASE ApplySome(BookFiles) /\ Goto("wait_failed")
  <2>1. pc' = "wait_failed" /\ UNCHANGED <<op, result>> /\ op' \in Operations
        /\ pc' \in Commands \cup {"idle"} /\ result' \in Results
    BY <1>3, GotoTypes, CommandsAre
  <2>2. CASE cluster
    <3>1. InTime(BookFiles)
      BY <1>1, <2>2, FilesAre, FilesListed, ObjectsAre DEF InTime
    <3>2. Adds(BookFiles)
      BY <1>3, <3>1, ApplySomeAdds DEF InTime
    <3>3. /\ objects' \in SUBSET Objects /\ pods' \in Pods
          /\ cluster' \in BOOLEAN /\ built' \in BOOLEAN
          /\ booked' \in BOOLEAN /\ ignored' \in SUBSET {"start", "replace", "stop"}
          /\ cluster' \/ (objects' = {} /\ pods' = "none")
          /\ PodsFollow' /\ FilterHasFile'
      BY <1>1, <3>1, <3>2, AddsKeeps DEF InTime
    <3>4. TypeOK'
      BY <2>1, <3>3 DEF TypeOK
    <3>5. CommandOfOperation' /\ MeshDone' /\ BookDone' /\ FilterDone' /\ BookedFirst'
      BY <1>1, <2>1, <3>2 DEF IInv, CommandOfOperation, MeshDone, BookDone, FilterDone,
         BookedFirst, BookPhase, SetupPhase, FilterPhase, Adds, history
    <3> QED
      BY <2>1, <3>3, <3>4, <3>5, GoesOn
  <2>3. CASE ~cluster
    <3>1. UNCHANGED <<state, history>>
      BY <1>1, <1>3, <2>3 DEF ApplySome
    <3>2. CommandOfOperation' /\ MeshDone' /\ BookDone' /\ FilterDone' /\ BookedFirst'
      BY <1>1, <2>1, <3>1 DEF IInv, CommandOfOperation, MeshDone, BookDone, FilterDone,
         BookedFirst, BookPhase, SetupPhase, FilterPhase, state, history
    <3> QED
      BY <1>3, <3>1, <3>2, StandStill, CommandsAre
  <2> QED
    BY <2>2, <2>3
<1> QED
  BY <1>2, <1>3 DEF DeployBookinfo

LEMMA BookWaitKeeps == ASSUME IInv, BookinfoWait PROVE IInv'
<1>1. UNCHANGED <<state, history>>
  BY DEF BookinfoWait
<1>2. CASE pc = "wait_book" /\ ReturnTo({"setup", "full_run"}, "addons", "success")
  <2>1. CASE op \in {"setup", "full_run"}
    <3>1. Goto("addons")
      BY <1>2, <2>1 DEF ReturnTo
    <3>2. pc' = "addons" /\ UNCHANGED <<op, result, cluster, objects, pods, built, booked, ignored>>
      BY <1>1, <3>1 DEF Goto, state, history
    <3>3. CommandOfOperation' /\ MeshDone' /\ BookDone' /\ FilterDone' /\ BookedFirst'
      BY <1>2, <2>1, <3>2 DEF IInv, CommandOfOperation, MeshDone, BookDone, FilterDone,
         BookedFirst, BookPhase, SetupPhase, FilterPhase
    <3> QED
      BY <1>1, <3>1, <3>3, StandStill, CommandsAre
  <2>2. CASE op \notin {"setup", "full_run"}
    <3>1. Return("success") /\ op = "deploy_bookinfo"
      BY <1>2, <2>2 DEF ReturnTo, IInv, CommandOfOperation, BookPhase
    <3>2. UNCHANGED <<op, cluster, objects, pods, built, booked, ignored>>
      BY <1>1, <3>1 DEF Return, state, history
    <3>3. TypeOK'
      BY <3>1, <3>2, ReturnTypes DEF IInv, TypeOK, Results
    <3>4. PodsFollow' /\ FilterHasFile'
      BY <3>2 DEF IInv, PodsFollow, FilterHasFile, SidecarsFirst
    <3>5. Promised(op)'
      BY <1>2, <3>1, <3>2 DEF IInv, BookDone, Promised
    <3> QED
      BY <3>1, <3>3, <3>4, <3>5, ReturnKeeps DEF Results
  <2> QED
    BY <2>1, <2>2
<1>3. CASE Return("failure") \/ Return("raised")
  BY <1>1, <1>3, GiveUp
<1> QED
  BY <1>2, <1>3 DEF BookinfoWait

LEMMA AddonsKeep == ASSUME IInv, DeployAddons PROVE IInv'
<1>1. pc = "addons" /\ UNCHANGED history
  BY DEF DeployAddons
<1>2. InTime(AddonFiles)
  BY <1>1, FilesAre, FilesListed, ObjectsAre DEF InTime
<1>3. CASE ApplyAll(AddonFiles) /\ Goto("wait_addons")
  <2>1. pc' = "wait_addons" /\ UNCHANGED <<op, result>> /\ op' \in Operations
        /\ pc' \in Commands \cup {"idle"} /\ result' \in Results
    BY <1>3, GotoTypes, CommandsAre
  <2>2. /\ Adds(AddonFiles) /\ Elements(AddonFiles) \subseteq objects'
        /\ TypeOK' /\ PodsFollow' /\ FilterHasFile'
    BY <1>1, <1>2, <1>3, <2>1, Applies
  <2>3. CommandOfOperation' /\ MeshDone' /\ BookDone' /\ FilterDone' /\ BookedFirst'
    BY <1>1, <2>1, <2>2 DEF IInv, CommandOfOperation, MeshDone, BookDone, FilterDone,
       BookedFirst, BookPhase, SetupPhase, FilterPhase, Adds
  <2> QED
    BY <2>1, <2>2, <2>3, GoesOn
<1>4. CASE ApplySome(AddonFiles) /\ Return("failure")
  BY <1>1, <1>2, <1>4, FailsToApply
<1> QED
  BY <1>3, <1>4 DEF DeployAddons
LEMMA AddonsWaitKeeps == ASSUME IInv, AddonsWait PROVE IInv'
<1>1. pc = "wait_addons" /\ UNCHANGED <<state, history>>
  BY DEF AddonsWait
<1>2. op \in {"setup", "full_run"} /\ App \subseteq objects
  BY <1>1 DEF IInv, CommandOfOperation, MeshDone, BookDone, SetupPhase, BookPhase, App
<1>3. CASE ReturnTo({"full_run"}, "configmap", "success")
  <2>1. CASE op = "full_run"
    <3>1. Goto("configmap")
      BY <1>3, <2>1 DEF ReturnTo
    <3>2. pc' = "configmap" /\ UNCHANGED <<op, result, cluster, objects, pods, built, booked, ignored>>
      BY <1>1, <3>1 DEF Goto, state, history
    <3>3. CommandOfOperation' /\ MeshDone' /\ BookDone' /\ FilterDone' /\ BookedFirst'
      BY <1>1, <1>2, <2>1, <3>2 DEF IInv, CommandOfOperation, MeshDone, BookDone, FilterDone,
         BookedFirst, BookPhase, SetupPhase, FilterPhase
    <3> QED
      BY <1>1, <3>1, <3>3, StandStill, CommandsAre
  <2>2. CASE op = "setup"
    <3>1. Return("success")
      BY <1>3, <2>2 DEF ReturnTo
    <3>2. UNCHANGED <<op, cluster, objects, pods, built, booked, ignored>>
      BY <1>1, <3>1 DEF Return, state, history
    <3>3. TypeOK'
      BY <3>1, <3>2, ReturnTypes DEF IInv, TypeOK, Results
    <3>4. PodsFollow' /\ FilterHasFile'
      BY <3>2 DEF IInv, PodsFollow, FilterHasFile, SidecarsFirst
    <3>5. Promised(op)'
      BY <1>2, <2>2, <3>2 DEF Promised
    <3> QED
      BY <3>1, <3>3, <3>4, <3>5, ReturnKeeps DEF Results
  <2> QED
    BY <1>2, <2>1, <2>2
<1>4. CASE Return("raised")
  BY <1>1, <1>4, GiveUp
<1> QED
  BY <1>3, <1>4 DEF AddonsWait

LEMMA BuildKeeps == ASSUME IInv, BuildFilter PROVE IInv'
<1>1. pc = "build" /\ op = "build_filter" /\ UNCHANGED history
  BY DEF BuildFilter, IInv, CommandOfOperation
<1>2. CASE built' = TRUE /\ Return("success") /\ UNCHANGED <<cluster, objects, pods>>
  <2>1. UNCHANGED <<op, cluster, objects, pods, booked, ignored>> /\ built'
    BY <1>1, <1>2 DEF Return, history
  <2>2. TypeOK'
    BY <1>2, <2>1, ReturnTypes DEF IInv, TypeOK, Results
  <2>3. PodsFollow' /\ FilterHasFile'
    BY <2>1 DEF IInv, PodsFollow, FilterHasFile, SidecarsFirst
  <2>4. Promised(op)'
    BY <1>1, <2>1 DEF Promised
  <2> QED
    BY <1>2, <2>2, <2>3, <2>4, ReturnKeeps DEF Results
<1>3. CASE Return("failure") /\ UNCHANGED state
  BY <1>1, <1>3, GiveUp
<1> QED
  BY <1>2, <1>3 DEF BuildFilter

LEMMA ConfigmapKeeps == ASSUME IInv, CreateConfigmap PROVE IInv'
<1>1. pc = "configmap" /\ UNCHANGED history /\ Elements(<<"configmap">>) = {"configmap"}
  BY FilesAre DEF CreateConfigmap
<1>2. InTime(<<"configmap">>)
  <2>1. <<"configmap">> \in Seq(Objects)
    BY FilesListed, ObjectsAre
  <2> QED
    BY <1>1, <2>1, ObjectsAre DEF InTime
<1>3. CASE ApplyAll(<<"configmap">>) /\ Goto("replace")
  <2>1. pc' = "replace" /\ UNCHANGED <<op, result>> /\ op' \in Operations
        /\ pc' \in Commands \cup {"idle"} /\ result' \in Results
    BY <1>3, GotoTypes, CommandsAre
  <2>2. /\ Adds(<<"configmap">>) /\ "configmap" \in objects'
        /\ TypeOK' /\ PodsFollow' /\ FilterHasFile'
    BY <1>1, <1>2, <1>3, <2>1, Applies
  <2>3. CommandOfOperation' /\ MeshDone' /\ BookDone' /\ FilterDone' /\ BookedFirst'
    BY <1>1, <2>1, <2>2 DEF IInv, CommandOfOperation, MeshDone, BookDone, FilterDone,
       BookedFirst, BookPhase, SetupPhase, FilterPhase, Adds
  <2> QED
    BY <2>1, <2>2, <2>3, GoesOn
<1>4. CASE UNCHANGED state /\ Return("failure")
  BY <1>1, <1>4, GiveUp
<1> QED
  BY <1>3, <1>4 DEF CreateConfigmap

(* The deployments are there when they are replaced, and so are the mesh or *)
(* a deploy_bookinfo: whatever pods come of it have a reason.               *)
LEMMA ReplaceKeeps == ASSUME IInv, ReplaceDeployments PROVE IInv'
<1>1. pc = "replace" /\ pc' = "wait_filter" /\ UNCHANGED <<op, result, booked>>
  BY DEF ReplaceDeployments, Goto, Ignore, history
<1>2. \/ Mount /\ ignored' = ignored
      \/ (Mount \/ UNCHANGED state) /\ ignored' = ignored \cup {"replace"}
  BY DEF ReplaceDeployments, Ignore, history
<1>3. /\ \/ "bookinfo" \in objects /\ objects' = objects \cup {"mounts"}
         \/ objects' = objects /\ "replace" \in ignored'
      /\ \/ UNCHANGED pods
         \/ "bookinfo" \in objects /\ pods' = NewPods(objects)
      /\ UNCHANGED <<cluster, built>>
  BY <1>2 DEF Mount, state
<1>4. TypeOK'
  <2>1. /\ objects' \in SUBSET Objects /\ pods' \in Pods
        /\ ignored' \in SUBSET {"start", "replace", "stop"}
    BY <1>2, <1>3, ObjectsAre DEF IInv, TypeOK, NewPods, Pods
  <2>2. cluster \/ (objects' = {} /\ pods' = "none")
    BY <1>3 DEF IInv, TypeOK
  <2>3. pc' \in Commands
    BY <1>1, CommandsAre
  <2> QED
    BY <1>1, <1>3, <2>1, <2>2, <2>3 DEF IInv, TypeOK
<1>5. PodsFollow' /\ FilterHasFile'
  BY <1>1, <1>3 DEF IInv, PodsFollow, FilterHasFile, SidecarsFirst, NewPods
<1>6. CommandOfOperation' /\ MeshDone' /\ BookDone' /\ FilterDone' /\ BookedFirst'
  BY <1>1, <1>3 DEF IInv, CommandOfOperation, MeshDone, BookDone, FilterDone,
     BookedFirst, BookPhase, SetupPhase, FilterPhase
<1> QED
  BY <1>1, <1>4, <1>5, <1>6, GoesOn

LEMMA FilterWaitKeeps == ASSUME IInv, WaitForFilter PROVE IInv'
<1>1. pc = "wait_filter" /\ UNCHANGED <<state, history>>
  BY DEF WaitForFilter
<1>2. CASE Goto("activate")
  <2>1. pc' = "activate" /\ UNCHANGED <<op, result, cluster, objects, pods, built, booked, ignored>>
    BY <1>1, <1>2 DEF Goto, state, history
  <2>2. CommandOfOperation' /\ MeshDone' /\ BookDone' /\ FilterDone' /\ BookedFirst'
    BY <1>1, <2>1 DEF IInv, CommandOfOperation, MeshDone, BookDone, FilterDone,
       BookedFirst, BookPhase, SetupPhase, FilterPhase
  <2> QED
    BY <1>1, <1>2, <2>2, StandStill, CommandsAre
<1>3. CASE Return("raised")
  BY <1>1, <1>3, GiveUp
<1> QED
  BY <1>2, <1>3 DEF WaitForFilter

LEMMA ActivateKeeps == ASSUME IInv, ActivateFilter PROVE IInv'
<1>1. /\ pc = "activate" /\ UNCHANGED history /\ Elements(<<"filter">>) = {"filter"}
      /\ op \in {"deploy_filter", "full_run"} /\ "configmap" \in objects
      /\ "mounts" \in objects \/ "replace" \in ignored
  BY FilesAre DEF ActivateFilter, IInv, CommandOfOperation, FilterDone, FilterPhase
<1>2. InTime(<<"filter">>)
  <2>1. <<"filter">> \in Seq(Objects)
    BY FilesListed, ObjectsAre
  <2> QED
    BY <1>1, <2>1, ObjectsAre DEF InTime
<1>3. CASE ApplyAll(<<"filter">>) /\ ReturnTo({"full_run"}, "experiment", "success")
  <2>1. CASE op = "full_run"
    <3>1. Goto("experiment")
      BY <1>3, <2>1 DEF ReturnTo
    <3>2. pc' = "experiment" /\ UNCHANGED <<op, result>> /\ op' \in Operations
          /\ pc' \in Commands \cup {"idle"} /\ result' \in Results
      BY <3>1, GotoTypes, CommandsAre
    <3>3. /\ Adds(<<"filter">>) /\ "filter" \in objects'
          /\ TypeOK' /\ PodsFollow' /\ FilterHasFile'
      BY <1>1, <1>2, <1>3, <3>2, Applies
    <3>4. CommandOfOperation' /\ MeshDone' /\ BookDone' /\ FilterDone' /\ BookedFirst'
      BY <1>1, <2>1, <3>2, <3>3 DEF IInv, CommandOfOperation, MeshDone, BookDone, FilterDone,
         BookedFirst, BookPhase, SetupPhase, FilterPhase, Adds, history
    <3> QED
      BY <3>2, <3>3, <3>4, GoesOn
  <2>2. CASE op = "deploy_filter"
    <3>1. Return("success")
      BY <1>3, <2>2 DEF ReturnTo
    <3>2. op' \in Operations /\ pc' \in Commands \cup {"idle"} /\ result' \in Results /\ op' = op
      BY <3>1, ReturnTypes DEF Results, Return
    <3>3. /\ Adds(<<"filter">>) /\ "filter" \in objects'
          /\ TypeOK' /\ PodsFollow' /\ FilterHasFile'
      BY <1>1, <1>2, <1>3, <3>2, Applies
    <3>4. Promised(op)'
      BY <1>1, <2>2, <3>2, <3>3 DEF Promised, FilterInstalled, Adds, history
    <3> QED
      BY <3>1, <3>3, <3>4, ReturnKeeps DEF Results
  <2> QED
    BY <1>1, <2>1, <2>2
<1>4. CASE ApplySome(<<"filter">>) /\ Return("failure")
  BY <1>1, <1>2, <1>4, FailsToApply
<1> QED
  BY <1>3, <1>4 DEF ActivateFilter
LEMMA UndeployKeeps == ASSUME IInv, UndeployFilter PROVE IInv'
<1>1. pc = "undeploy" /\ op = "undeploy_filter" /\ UNCHANGED history
  BY DEF UndeployFilter, IInv, CommandOfOperation
<1>2. CASE /\ objects' = objects \ {"filter"} /\ Return("success")
           /\ UNCHANGED <<cluster, pods, built>>
  <2>1. UNCHANGED <<op, cluster, pods, built, booked, ignored>>
    BY <1>1, <1>2 DEF Return, history
  <2>2. TypeOK'
    BY <1>2, <2>1, ReturnTypes DEF IInv, TypeOK, Results
  <2>3. PodsFollow' /\ FilterHasFile'
    BY <1>2, <2>1 DEF IInv, PodsFollow, FilterHasFile, SidecarsFirst, Mesh
  <2>4. Promised(op)'
    BY <1>1, <1>2, <2>1 DEF Promised
  <2> QED
    BY <1>2, <2>2, <2>3, <2>4, ReturnKeeps DEF Results
<1>3. CASE Return("failure") /\ UNCHANGED state
  BY <1>1, <1>3, GiveUp
<1> QED
  BY <1>2, <1>3 DEF UndeployFilter

LEMMA RefreshKeeps == ASSUME IInv, RefreshFilter PROVE IInv'
<1>1. pc = "refresh" /\ op = "refresh_filter" /\ UNCHANGED history
  BY DEF RefreshFilter, IInv, CommandOfOperation
<1>2. CASE /\ cluster /\ Return("success") /\ UNCHANGED <<cluster, objects, built>>
           /\ pods' = IF "bookinfo" \in objects THEN NewPods(objects) ELSE pods
  <2>1. UNCHANGED <<op, cluster, objects, built, booked, ignored>>
    BY <1>1, <1>2 DEF Return, history
  <2>2. TypeOK'
    <3>1. pods' \in Pods
      BY <1>2 DEF NewPods, Pods, IInv, TypeOK
    <3> QED
      BY <1>2, <2>1, <3>1, ReturnTypes DEF IInv, TypeOK, Results
  <2>3. PodsFollow' /\ FilterHasFile'
    BY <1>2, <2>1 DEF IInv, PodsFollow, FilterHasFile, SidecarsFirst, NewPods
  <2>4. Promised(op)'
    BY <1>1, <1>2, <2>1 DEF Promised, NewPods
  <2> QED
    BY <1>2, <2>2, <2>3, <2>4, ReturnKeeps DEF Results
<1>3. CASE Return("failure") /\ UNCHANGED state
  BY <1>1, <1>3, GiveUp
<1> QED
  BY <1>2, <1>3 DEF RefreshFilter

LEMMA RemoveKeeps == ASSUME IInv, RemoveBookinfo PROVE IInv'
<1>1. pc = "cleanup" /\ op = "remove_bookinfo" /\ UNCHANGED <<cluster, built, booked, ignored>>
  BY DEF RemoveBookinfo, IInv, CommandOfOperation, history
<1>2. PICK n \in 0..3 :
        /\ objects' = objects \ (  (IF n > 0 THEN Cleaned ELSE {})
                              \cup (IF n > 1 THEN {"storage"} ELSE {})
                              \cup (IF n > 2 THEN {"entry"} ELSE {}))
        /\ pods' = IF n > 0 THEN "none" ELSE pods
        /\ Return(IF n = 3 THEN "success" ELSE "failure")
  BY DEF RemoveBookinfo
<1>3. /\ objects' \subseteq objects
      /\ {"istio", "label", "configmap"} \cap objects \subseteq objects'
      /\ "filter" \in objects' => "filter" \in objects
      /\ \/ "bookinfo" \notin objects' /\ pods' = "none"
         \/ pods' = pods /\ objects' = objects
  <2>1. CASE n = 0
    BY <1>2, <2>1
  <2>2. CASE n > 0
    BY <1>2, <2>2 DEF Cleaned
  <2> QED
    BY <2>1, <2>2
<1>4. PICK r \in {"success", "failure"} : Return(r) /\ (r = "success" => n = 3)
  BY <1>2
<1>5. TypeOK'
  <2>1. objects' \in SUBSET Objects /\ pods' \in Pods
        /\ (cluster \/ (objects' = {} /\ pods' = "none"))
    BY <1>3 DEF IInv, TypeOK, Pods
  <2> QED
    BY <1>1, <1>4, <2>1, ReturnTypes DEF IInv, TypeOK, Results
<1>6. PodsFollow' /\ FilterHasFile'
  BY <1>1, <1>3 DEF IInv, PodsFollow, FilterHasFile, SidecarsFirst, Mesh
<1>7. r = "success" => Promised(op)'
  <2> SUFFICES ASSUME r = "success" PROVE Promised(op)'
    OBVIOUS
  <2>1. n = 3
    BY <1>4
  <2>2. objects' = objects \ (Cleaned \cup {"storage"} \cup {"entry"}) /\ pods' = "none"
    BY <1>2, <2>1
  <2>3. objects' \cap Elements(BookFiles) = {}
    BY <2>2, FilesAre DEF Cleaned
  <2>4. op' = "remove_bookinfo"
    BY <1>1, <1>4 DEF Return
  <2> QED
    BY <2>2, <2>3, <2>4 DEF Promised
<1> QED
  BY <1>4, <1>5, <1>6, <1>7, ReturnKeeps DEF Results

LEMMA StopKeeps == ASSUME IInv, StopKubernetes PROVE IInv'
<1>1. pc = "stop" /\ op \in {"clean", "full_run"}
  BY DEF StopKubernetes, IInv, CommandOfOperation
<1>2. CASE /\ cluster' = FALSE /\ objects' = {} /\ pods' = "none" /\ booked' = FALSE
           /\ Return("success") /\ UNCHANGED <<built, ignored>>
  <2>1. op' = op
    BY <1>2 DEF Return
  <2>2. TypeOK'
    BY <1>2, ReturnTypes DEF IInv, TypeOK, Results, Pods
  <2>3. PodsFollow' /\ FilterHasFile'
    BY <1>2 DEF PodsFollow, FilterHasFile, SidecarsFirst
  <2>4. Promised(op)'
    BY <1>1, <1>2, <2>1 DEF Promised
  <2> QED
    BY <1>2, <2>2, <2>3, <2>4, ReturnKeeps DEF Results
<1>3. CASE op = "full_run" /\ Ignore("stop") /\ Return("success") /\ UNCHANGED state
  <2>1. UNCHANGED <<op, cluster, objects, pods, built, booked>>
        /\ ignored' = ignored \cup {"stop"}
    BY <1>3 DEF Return, Ignore, state
  <2>2. TypeOK'
    BY <1>3, <2>1, ReturnTypes DEF IInv, TypeOK, Results
  <2>3. PodsFollow' /\ FilterHasFile'
    BY <2>1 DEF IInv, PodsFollow, FilterHasFile, SidecarsFirst
  <2>4. Promised(op)'
    BY <1>3, <2>1 DEF Promised
  <2> QED
    BY <1>3, <2>2, <2>3, <2>4, ReturnKeeps DEF Results
<1>4. CASE UNCHANGED history /\ Return("failure") /\ UNCHANGED state
  BY <1>4, GiveUp
<1> QED
  BY <1>2, <1>3, <1>4 DEF StopKubernetes

LEMMA ExperimentKeeps == ASSUME IInv, DoExperiment PROVE IInv'
<1>1. pc = "experiment" /\ UNCHANGED <<state, history>>
  BY DEF DoExperiment
<1>2. CASE Goto("stop")
  <2>1. pc' = "stop" /\ UNCHANGED <<op, result, cluster, objects, pods, built, booked, ignored>>
    BY <1>1, <1>2 DEF Goto, state, history
  <2>2. CommandOfOperation' /\ MeshDone' /\ BookDone' /\ FilterDone' /\ BookedFirst'
    BY <1>1, <2>1 DEF IInv, CommandOfOperation, MeshDone, BookDone, FilterDone,
       BookedFirst, BookPhase, SetupPhase, FilterPhase
  <2> QED
    BY <1>1, <1>2, <2>2, StandStill, CommandsAre
<1>3. CASE Return("raised")
  BY <1>1, <1>3, GiveUp
<1> QED
  BY <1>2, <1>3 DEF DoExperiment

LEMMA NextInv == ASSUME IInv, [Next]_vars PROVE IInv'
<1>1. CASE UNCHANGED vars
  <2>1. UNCHANGED <<op, pc, result, cluster, objects, pods, built, booked, ignored>>
    BY <1>1 DEF vars, operation, state, history
  <2>2. TypeOK'
    BY <2>1 DEF IInv, TypeOK
  <2>3. CommandOfOperation' /\ MeshDone' /\ BookDone' /\ FilterDone' /\ BookedFirst'
    BY <2>1 DEF IInv, CommandOfOperation, MeshDone, BookDone, FilterDone, BookedFirst
  <2>4. PodsFollow' /\ FilterHasFile'
    BY <2>1 DEF IInv, PodsFollow, FilterHasFile, SidecarsFirst
  <2>5. SuccessMeans'
    <3>1. Promised(op)' <=> Promised(op)
      BY <2>1 DEF Promised, FilterInstalled
    <3> QED
      BY <2>1, <3>1 DEF IInv, SuccessMeans
  <2> QED
    BY <2>2, <2>3, <2>4, <2>5 DEF IInv
<1>2. ASSUME Interrupt PROVE IInv'
  BY <1>2, GiveUp DEF Interrupt
<1> QED
  BY <1>1, <1>2, BeginKeeps, StartKeeps, InstallKeeps, LabelKeeps, StatusKeeps, BookKeeps,
     BookWaitKeeps, AddonsKeep, AddonsWaitKeeps, BuildKeeps, ConfigmapKeeps, ReplaceKeeps,
     FilterWaitKeeps, ActivateKeeps, UndeployKeeps, RefreshKeeps, RemoveKeeps, StopKeeps,
     ExperimentKeeps DEF Next

LEMMA Invariant == Spec => []IInv
BY InitInv, NextInv, PTL DEF Spec

--------------------------------------------------------------------------------

(* Nothing is applied, and no pod runs, where there is no cluster.          *)
THEOREM Typing == Spec => []TypeOK
<1>1. IInv => TypeOK
  BY DEF IInv
<1> QED
  BY <1>1, Invariant, PTL

(* An operation that returns success has done all it is for, but for the    *)
(* commands whose failure it ignores.                                       *)
(* (kube_env.py:41-49, 86-104, 227-236, 256-274)                            *)
THEOREM Success == Spec => []SuccessMeans
<1>1. IInv => SuccessMeans
  BY DEF IInv
<1> QED
  BY <1>1, Invariant, PTL

(* The filter is never active without the config map its file comes from.   *)
(* (kube_env.py:256-274)                                                    *)
THEOREM FilterFile == Spec => []FilterHasFile
<1>1. IInv => FilterHasFile
  BY DEF IInv
<1> QED
  BY <1>1, Invariant, PTL

(* Pods of bookinfo run without a sidecar only if it was once deployed by   *)
(* itself. (kube_env.py:227-236)                                            *)
THEOREM Sidecars == Spec => []SidecarsFirst
<1>1. IInv => SidecarsFirst
  BY DEF IInv, PodsFollow
<1> QED
  BY <1>1, Invariant, PTL

(* A full run measures only where all that setup and deploy_filter deploy   *)
(* is there. (run_experiment.py:248-258)                                    *)
THEOREM Prepared == Spec => []ExperimentPrepared
<1>1. IInv => ExperimentPrepared
  <2> SUFFICES ASSUME IInv, pc = "experiment" PROVE ExperimentPrepared
    BY DEF ExperimentPrepared
  <2>1. App \subseteq objects
    BY DEF IInv, CommandOfOperation, BookDone
  <2>2. FilterInstalled
    BY DEF IInv, FilterDone, FilterInstalled
  <2>3. pods = "sidecar" \/ booked
    BY <2>1, ObjectsAre DEF IInv, PodsFollow, SidecarsFirst, TypeOK, Pods
  <2> QED
    BY <2>1, <2>2, <2>3 DEF ExperimentPrepared
<1> QED
  BY <1>1, Invariant, PTL
================================================================================
