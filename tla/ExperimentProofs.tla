---------------------------- MODULE ExperimentProofs ----------------------------
(* Theorems of Experiment, for every number of drivers, runs and folders. *)
EXTENDS Experiment, FiniteSetTheorems, TLAPS

InRun == {"inject", "remove", "open", "check", "terminate"}
Ended == {"leaving", "gone"}
Early == {"off", "folder"}

(* What the place a driver is at says of its runs, its folder and its end. *)
Sequence ==
  \A d \in Drivers :
    /\ outcome[d] = "none" <=> pc[d] \notin Ended
    /\ pc[d] \in Early => folder[d] = None /\ idx[d] = 0
    /\ AtWork(d) /\ pc[d] \notin Early => folder[d] \in folders
    /\ pc[d] \in InRun => idx[d] < Runs[d]
    /\ pc[d] \in {"kill_fortio", "kill_storage"} => idx[d] = Runs[d]
    /\ outcome[d] = "done" => idx[d] = Runs[d] /\ folder[d] # None

OneAtWork == \A d, e \in Drivers : AtWork(d) /\ AtWork(e) => d = e

Shape == TypeOK /\ Sequence /\ OneAtWork

LEMMA Numbers ==
  ASSUME TypeOK
  PROVE  IsFiniteSet(folders) /\ FolderNumber \in Nat
<1>1. IsFiniteSet(Folders)
  BY ExperimentAssumption, FS_Interval DEF Folders
<1>2. IsFiniteSet(folders)
  BY <1>1, FS_Subset DEF TypeOK
<1> QED
  BY <1>2, FS_CardinalityType DEF FolderNumber

LEMMA InitShape == Init => Shape
<1> SUFFICES ASSUME Init PROVE Shape
  OBVIOUS
<1> USE ExperimentAssumption DEF Init
<1>1. TypeOK
  <2>1. /\ pc \in [Drivers -> Steps] /\ outcome \in [Drivers -> Outcomes]
        /\ folder \in [Drivers -> Folders \cup {None}]
        /\ idx \in [Drivers -> Nat] /\ \A d \in Drivers : idx[d] <= Runs[d]
    BY DEF Steps, Outcomes
  <2>2. folders \in SUBSET Folders
    BY DEF Folders
  <2>3. NoStats \in [Indices -> Files] /\ EarlierStats \in [Indices -> Files]
    BY DEF NoStats, EarlierStats, Files
  <2>4. stats \in [Folders -> [Indices -> Files]]
    BY <2>3
  <2>5. /\ alive \in SUBSET (Drivers \X Kinds) /\ missed \in SUBSET (Drivers \X Forwards)
        /\ faulted \in BOOLEAN /\ stuck \in BOOLEAN
    OBVIOUS
  <2> QED
    BY <2>1, <2>2, <2>4, <2>5 DEF TypeOK
<1>2. Sequence /\ OneAtWork
  BY DEF Sequence, OneAtWork, AtWork, Ended, Early, InRun
<1> QED
  BY <1>1, <1>2 DEF Shape

(* A run's file is in the driver's folder, under one of its numbers. *)
LEMMA Place ==
  ASSUME Shape, NEW d \in Drivers, pc[d] \in InRun
  PROVE  folder[d] \in folders /\ folder[d] \in Folders /\ idx[d] \in Indices
         /\ idx[d] < Runs[d]
<1>1. folder[d] \in folders /\ idx[d] < Runs[d] /\ idx[d] \in Nat
  BY DEF Shape, TypeOK, Sequence, InRun, AtWork, Early
<1>2. idx[d] \in 0..(Runs[d] - 1)
  BY <1>1, ExperimentAssumption
<1>3. idx[d] \in Indices
  BY <1>2 DEF Indices
<1> QED
  BY <1>1, <1>3 DEF Shape, TypeOK

LEMMA Writing ==
  ASSUME Shape, NEW d \in Drivers, pc[d] \in InRun, NEW whole \in BOOLEAN, Write(d, whole)
  PROVE  /\ stats' \in [Folders -> [Indices -> Files]]
         /\ stats'[folder[d]][idx[d]] = [by |-> d, whole |-> whole]
         /\ \A f \in Folders, i \in Indices :
              f # folder[d] \/ i # idx[d] => stats'[f][i] = stats[f][i]
<1>1. [by |-> d, whole |-> whole] \in Files
  BY DEF Files
<1> QED
  BY <1>1, Place DEF Write, Shape, TypeOK

LEMMA NextTyping == ASSUME Shape, [Next]_vars PROVE TypeOK'
<1> USE ExperimentAssumption DEF Goto, Steps, history
<1>0. /\ pc \in [Drivers -> Steps] /\ idx \in [Drivers -> Nat]
      /\ \A d \in Drivers : idx[d] <= Runs[d]
      /\ folder \in [Drivers -> Folders \cup {None}]
      /\ alive \in SUBSET (Drivers \X Kinds)
      /\ faulted \in BOOLEAN /\ folders \in SUBSET Folders
      /\ stats \in [Folders -> [Indices -> Files]]
      /\ outcome \in [Drivers -> Outcomes] /\ stuck \in BOOLEAN
      /\ missed \in SUBSET (Drivers \X Forwards)
  BY DEF Shape, TypeOK
<1>1. ASSUME NEW d \in Drivers, DoExperiment(d) PROVE TypeOK'
  BY <1>0, <1>1 DEF TypeOK, DoExperiment, Outcomes
<1>2. ASSUME NEW d \in Drivers, CleanPorts(d) PROVE TypeOK'
  <2>1. \A p \in OnPorts : p \in Drivers \X Forwards
    BY <1>0 DEF OnPorts
  <2> QED
    BY <1>0, <1>2, <2>1 DEF TypeOK, CleanPorts
<1>3. ASSUME NEW d \in Drivers, GetGatewayInfo(d) PROVE TypeOK'
  BY <1>0, <1>3 DEF TypeOK, GetGatewayInfo
<1>4. ASSUME NEW d \in Drivers, LaunchStorageMon(d) PROVE TypeOK'
  BY <1>0, <1>4 DEF TypeOK, LaunchStorageMon, Start, Kinds, Forwards
<1>5. ASSUME NEW d \in Drivers, StartFortio(d) PROVE TypeOK'
  BY <1>0, <1>5 DEF TypeOK, StartFortio, Start, Kinds
<1>6. ASSUME NEW d \in Drivers, LaunchPrometheus(d) PROVE TypeOK'
  BY <1>0, <1>6 DEF TypeOK, LaunchPrometheus, Start, Kinds, Forwards
<1>7. ASSUME NEW d \in Drivers, BeginRun(d) PROVE TypeOK'
  BY <1>0, <1>7 DEF TypeOK, BeginRun, Start, Kinds
<1>8. ASSUME NEW d \in Drivers, InjectFailure(d) PROVE TypeOK'
  BY <1>0, <1>8 DEF TypeOK, InjectFailure
<1>9. ASSUME NEW d \in Drivers, RemoveFailure(d) PROVE TypeOK'
  BY <1>0, <1>9 DEF TypeOK, RemoveFailure
<1>10. ASSUME NEW d \in Drivers, KillPrometheus(d) PROVE TypeOK'
  BY <1>0, <1>10 DEF TypeOK, KillPrometheus, Kill
<1>11. ASSUME NEW d \in Drivers, KillFortio(d) PROVE TypeOK'
  BY <1>0, <1>11 DEF TypeOK, KillFortio, Kill
<1>12. ASSUME NEW d \in Drivers, KillStorage(d) PROVE TypeOK'
  BY <1>0, <1>12 DEF TypeOK, KillStorage, Kill, Outcomes
<1>13. ASSUME NEW d \in Drivers, Exit(d) PROVE TypeOK'
  BY <1>0, <1>13 DEF TypeOK, Exit
<1>14. ASSUME NEW d \in Drivers, Fail(d) PROVE TypeOK'
  BY <1>0, <1>14 DEF TypeOK, Fail, Outcomes
<1>15. ASSUME NEW d \in Drivers, Interrupt(d) PROVE TypeOK'
  BY <1>0, <1>15 DEF TypeOK, Interrupt, Kill, Outcomes
<1>16. ASSUME NEW d \in Drivers, QueryFails(d) PROVE TypeOK'
  BY <1>0, <1>16 DEF TypeOK, QueryFails, Kill
<1>17. ASSUME NEW d \in Drivers, GenerateTestfolder(d) PROVE TypeOK'
  <2>1. FolderNumber \in Folders
    BY <1>17, Numbers DEF GenerateTestfolder, Shape, Folders
  <2> QED
    BY <1>0, <1>17, <2>1 DEF TypeOK, GenerateTestfolder
<1>18. ASSUME NEW d \in Drivers, OpenStats(d) PROVE TypeOK'
  <2>1. stats' \in [Folders -> [Indices -> Files]]
    BY <1>18, Writing DEF OpenStats, InRun
  <2> QED
    BY <1>0, <1>18, <2>1 DEF TypeOK, OpenStats
<1>19. ASSUME NEW d \in Drivers, CheckCongestion(d) PROVE TypeOK'
  <2>1. stats' \in [Folders -> [Indices -> Files]]
    BY <1>19, Writing DEF CheckCongestion, InRun
  <2> QED
    BY <1>0, <1>19, <2>1 DEF TypeOK, CheckCongestion
<1>20. ASSUME NEW d \in Drivers, TerminateLoop(d) PROVE TypeOK'
  <2>1. idx[d] + 1 <= Runs[d]
    BY <1>0, <1>20, Place DEF TerminateLoop, InRun
  <2> QED
    BY <1>0, <1>20, <2>1 DEF TypeOK, TerminateLoop, Kill
<1>21. ASSUME NEW p \in alive, ChildEnds(p) PROVE TypeOK'
  BY <1>0, <1>21 DEF TypeOK, ChildEnds
<1>22. ASSUME NEW f \in folders, RemoveFolder(f) PROVE TypeOK'
  <2>1. NoStats \in [Indices -> Files]
    BY DEF NoStats, Files
  <2> QED
    BY <1>0, <1>22, <2>1 DEF TypeOK, RemoveFolder
<1>23. CASE UNCHANGED vars
  BY <1>0, <1>23 DEF TypeOK, vars
<1> QED
  BY <1>1, <1>2, <1>3, <1>4, <1>5, <1>6, <1>7, <1>8, <1>9, <1>10, <1>11, <1>12, <1>13, <1>14, <1>15, <1>16, <1>17, <1>18, <1>19, <1>20, <1>21, <1>22, <1>23 DEF Next, Step

LEMMA NextSequence == ASSUME Shape, TypeOK', [Next]_vars PROVE Sequence'
<1> USE ExperimentAssumption DEF Goto, Steps, AtWork, Ended, Early, InRun, Sequence, history
<1>0. /\ Sequence
      /\ pc \in [Drivers -> Steps] /\ idx \in [Drivers -> Nat]
      /\ folder \in [Drivers -> Folders \cup {None}] /\ folders \in SUBSET Folders
      /\ outcome \in [Drivers -> Outcomes]
      /\ None \notin Folders
  BY DEF Shape, TypeOK, Folders
<1>1. ASSUME NEW d \in Drivers, DoExperiment(d)
      PROVE  Sequence'
  BY <1>0, <1>1 DEF DoExperiment, Outcomes
<1>2. ASSUME NEW d \in Drivers, GenerateTestfolder(d) PROVE Sequence'
  <2>1. FolderNumber \in Folders
    BY <1>2, Numbers DEF GenerateTestfolder, Shape, Folders
  <2> QED
    BY <1>0, <1>2, <2>1 DEF GenerateTestfolder
<1>3. ASSUME NEW d \in Drivers, CleanPorts(d) \/ GetGatewayInfo(d)
      PROVE  Sequence'
  BY <1>0, <1>3 DEF CleanPorts, GetGatewayInfo
<1>4. ASSUME NEW d \in Drivers, LaunchStorageMon(d) \/ StartFortio(d)
      PROVE  Sequence'
  BY <1>0, <1>4 DEF LaunchStorageMon, StartFortio
<1>5. ASSUME NEW d \in Drivers, LaunchPrometheus(d) \/ BeginRun(d)
      PROVE  Sequence'
  BY <1>0, <1>5 DEF LaunchPrometheus, BeginRun
<1>6. ASSUME NEW d \in Drivers, InjectFailure(d) \/ RemoveFailure(d)
      PROVE  Sequence'
  BY <1>0, <1>6, ZenonT(60) DEF InjectFailure, RemoveFailure
<1>7. ASSUME NEW d \in Drivers, OpenStats(d) \/ CheckCongestion(d)
      PROVE  Sequence'
  BY <1>0, <1>7, ZenonT(60) DEF OpenStats, CheckCongestion
<1>8. ASSUME NEW d \in Drivers, TerminateLoop(d)
      PROVE  Sequence'
  BY <1>0, <1>8 DEF TerminateLoop
<1>9. ASSUME NEW d \in Drivers, KillPrometheus(d) \/ KillFortio(d)
      PROVE  Sequence'
  BY <1>0, <1>9 DEF KillPrometheus, KillFortio
<1>10. ASSUME NEW d \in Drivers, KillStorage(d)
      PROVE  Sequence'
  BY <1>0, <1>10 DEF KillStorage, Outcomes
<1>11. ASSUME NEW d \in Drivers, Exit(d)
      PROVE  Sequence'
  BY <1>0, <1>11 DEF Exit
<1>12. ASSUME NEW d \in Drivers, Fail(d)
      PROVE  Sequence'
  BY <1>0, <1>12 DEF Fail, Outcomes
<1>13. ASSUME NEW d \in Drivers, Interrupt(d)
      PROVE  Sequence'
  BY <1>0, <1>13 DEF Interrupt, Outcomes
<1>14. ASSUME NEW f \in folders, RemoveFolder(f) PROVE Sequence'
  BY <1>0, <1>14 DEF RemoveFolder
<1>15. CASE UNCHANGED <<pc, idx, folder, folders, outcome>>
  BY <1>0, <1>15
<1> QED
  BY <1>1, <1>2, <1>3, <1>4, <1>5, <1>6, <1>7, <1>8, <1>9, <1>10, <1>11, <1>12, <1>13, <1>14, <1>15 DEF Next, Step, QueryFails, ChildEnds, vars

LEMMA NextOneAtWork == ASSUME Shape, [Next]_vars PROVE OneAtWork'
<1> USE DEF AtWork
<1>0. OneAtWork /\ pc \in [Drivers -> Steps]
  BY DEF Shape, TypeOK
<1>1. ASSUME NEW d \in Drivers, DoExperiment(d) PROVE OneAtWork'
  BY <1>0, <1>1 DEF DoExperiment, OneAtWork, Goto
<1>2. ASSUME NEW d \in Drivers, AtWork(d) \/ ~AtWork(d)',
             \A e \in Drivers \ {d} : pc'[e] = pc[e]
      PROVE  OneAtWork'
  BY <1>0, <1>2 DEF OneAtWork
<1>3. ASSUME NEW d \in Drivers, Step(d) \/ Fail(d) \/ Interrupt(d), ~DoExperiment(d)
      PROVE  /\ AtWork(d) \/ ~AtWork(d)'
             /\ \A e \in Drivers \ {d} : pc'[e] = pc[e]
  BY <1>0, <1>3
     DEF Step, Goto, Fail, Interrupt, GenerateTestfolder, CleanPorts, GetGatewayInfo,
         LaunchStorageMon, StartFortio, LaunchPrometheus, BeginRun, InjectFailure,
         RemoveFailure, OpenStats, CheckCongestion, TerminateLoop, KillPrometheus,
         KillFortio, KillStorage, Exit
<1>4. CASE UNCHANGED pc
  BY <1>0, <1>4 DEF OneAtWork
<1> QED
  BY <1>1, <1>2, <1>3, <1>4 DEF Next, QueryFails, ChildEnds, RemoveFolder, vars

LEMMA AlwaysShape == Spec => []Shape
<1>1. Shape /\ [Next]_vars => Shape'
  BY NextTyping, NextSequence, NextOneAtWork DEF Shape
<1> QED
  BY <1>1, InitShape, PTL DEF Spec

(* Every reachable state is well typed; in particular no driver makes more  *)
(* runs than it was asked for. (run_experiment.py:186-214)                  *)
THEOREM Typing == Spec => []TypeOK
<1>1. Shape => TypeOK
  BY DEF Shape
<1> QED
  BY <1>1, AlwaysShape, PTL

--------------------------------------------------------------------------------

BeforeStorage == Early \cup {"ports", "gateway", "storage"}
BeforeFortio == BeforeStorage \cup {"fortio"}
BeforePrometheus == BeforeFortio \cup {"prometheus"}

(* Which children a driver can have where it is. *)
Children ==
  \A d \in Drivers :
    /\ <<d, "storage">> \in alive => pc[d] \notin BeforeStorage
    /\ <<d, "fortio">> \in alive => pc[d] \notin BeforeFortio \cup {"kill_storage"}
    /\ <<d, "prometheus">> \in alive =>
         pc[d] \notin BeforePrometheus \cup {"kill_fortio", "kill_storage"}
    /\ <<d, "query">> \in alive =>
         pc[d] \in InRun \/ (pc[d] = "leaving" /\ outcome[d] = "failed")
    /\ outcome[d] = "done" => \A k \in Kinds : <<d, k>> \notin alive

LEMMA NextChildren == ASSUME Shape, Children, [Next]_vars PROVE Children'
<1> USE DEF Goto, Steps, Children, Kinds, Forwards, history,
            BeforeStorage, BeforeFortio, BeforePrometheus, InRun, Ended, Early
<1>0. /\ pc \in [Drivers -> Steps] /\ outcome \in [Drivers -> Outcomes]
      /\ alive \in SUBSET (Drivers \X Kinds)
      /\ \A d \in Drivers : outcome[d] = "none" <=> pc[d] \notin Ended
  BY DEF Shape, TypeOK, Sequence
<1>1. ASSUME NEW d \in Drivers, DoExperiment(d)
      PROVE  Children'
  BY <1>0, <1>1, ZenonT(60) DEF DoExperiment
<1>2. ASSUME NEW d \in Drivers, GenerateTestfolder(d) \/ GetGatewayInfo(d)
      PROVE  Children'
  BY <1>0, <1>2, ZenonT(60) DEF GenerateTestfolder, GetGatewayInfo
<1>3. ASSUME NEW d \in Drivers, CleanPorts(d)
      PROVE  Children'
  <2>1. /\ alive' \in SUBSET alive /\ pc' = [pc EXCEPT ![d] = "gateway"]
        /\ pc[d] = "ports" /\ UNCHANGED outcome
    BY <1>3 DEF CleanPorts
  <2> QED
    BY <1>0, <2>1
<1>4. ASSUME NEW d \in Drivers, LaunchStorageMon(d)
      PROVE  Children'
  BY <1>0, <1>4 DEF LaunchStorageMon, Start
<1>5. ASSUME NEW d \in Drivers, StartFortio(d)
      PROVE  Children'
  BY <1>0, <1>5 DEF StartFortio, Start
<1>6. ASSUME NEW d \in Drivers, LaunchPrometheus(d)
      PROVE  Children'
  BY <1>0, <1>6 DEF LaunchPrometheus, Start
<1>7. ASSUME NEW d \in Drivers, BeginRun(d)
      PROVE  Children'
  BY <1>0, <1>7 DEF BeginRun, Start
<1>8. ASSUME NEW d \in Drivers, InjectFailure(d) \/ RemoveFailure(d)
      PROVE  Children'
  BY <1>0, <1>8, ZenonT(60) DEF InjectFailure, RemoveFailure
<1>9. ASSUME NEW d \in Drivers, OpenStats(d) \/ CheckCongestion(d)
      PROVE  Children'
  BY <1>0, <1>9, ZenonT(60) DEF OpenStats, CheckCongestion
<1>10. ASSUME NEW d \in Drivers, TerminateLoop(d)
      PROVE  Children'
  BY <1>0, <1>10 DEF TerminateLoop, Kill
<1>11. ASSUME NEW d \in Drivers, KillPrometheus(d)
      PROVE  Children'
  BY <1>0, <1>11 DEF KillPrometheus, Kill
<1>12. ASSUME NEW d \in Drivers, KillFortio(d)
      PROVE  Children'
  BY <1>0, <1>12 DEF KillFortio, Kill
<1>13. ASSUME NEW d \in Drivers, KillStorage(d)
      PROVE  Children'
  BY <1>0, <1>13 DEF KillStorage, Kill
<1>14. ASSUME NEW d \in Drivers, Exit(d)
      PROVE  Children'
  BY <1>0, <1>14 DEF Exit
<1>15. ASSUME NEW d \in Drivers, Fail(d)
      PROVE  Children'
  BY <1>0, <1>15 DEF Fail
<1>16. ASSUME NEW d \in Drivers, Interrupt(d)
      PROVE  Children'
  BY <1>0, <1>16 DEF Interrupt, Kill
<1>17. ASSUME NEW d \in Drivers, QueryFails(d)
      PROVE  Children'
  BY <1>0, <1>17 DEF QueryFails, Kill
<1>18. ASSUME NEW p \in alive, ChildEnds(p)
      PROVE  Children'
  BY <1>0, <1>18 DEF ChildEnds
<1>19. CASE UNCHANGED <<pc, alive, outcome>>
  BY <1>19
<1> QED
  BY <1>1, <1>2, <1>3, <1>4, <1>5, <1>6, <1>7, <1>8, <1>9, <1>10, <1>11, <1>12, <1>13, <1>14, <1>15, <1>16, <1>17, <1>18, <1>19 DEF Next, Step, RemoveFolder, vars

LEMMA AlwaysChildren == Spec => []Children
<1>1. Init => Children
  BY DEF Init, Children
<1> QED
  BY <1>1, NextChildren, AlwaysShape, PTL DEF Spec

(* A driver that reaches its end has no child left, whatever ended before.  *)
(* (run_experiment.py:188-214, 242-245)                                     *)
THEOREM NothingLeft == Spec => []CleanFinish
<1>1. Children => CleanFinish
  BY DEF Children, CleanFinish
<1> QED
  BY <1>1, AlwaysChildren, PTL

(* A driver that has cleared the ports. *)
Past(d) == AtWork(d) /\ pc[d] \notin {"folder", "ports"}

(* What starts no forward, clears no port and forgets no forward that is up *)
(* leaves OwnForwards as it is.                                             *)
LEMMA OwnForwardsKept ==
  ASSUME OwnForwards,
         \A d \in Drivers : Past(d)' => Past(d),
         \A e \in Drivers, k \in Forwards :
           <<e, k>> \in alive' =>
             <<e, k>> \in alive /\ (<<e, k>> \in missed => <<e, k>> \in missed')
  PROVE  OwnForwards'
BY DEF OwnForwards, Past, AtWork

LEMMA NextOwnForwards ==
  ASSUME Shape, Children, OwnForwards, [Next]_vars PROVE OwnForwards'
<1> USE DEF Goto, Steps, AtWork, history
<1>0. /\ pc \in [Drivers -> Steps] /\ alive \in SUBSET (Drivers \X Kinds)
      /\ \A d, e \in Drivers : AtWork(d) /\ AtWork(e) => d = e
  BY DEF Shape, TypeOK, OneAtWork
<1>1. ASSUME NEW d \in Drivers, CleanPorts(d) PROVE OwnForwards'
  <2>1. PICK ended \in SUBSET (OnPorts \cup {p \in alive : p[2] = "query"}) :
          alive' = alive \ ended /\ missed' = OnPorts \ ended
    BY <1>1 DEF CleanPorts
  <2>2. \A k \in Forwards : <<d, k>> \notin alive
    BY <1>1 DEF CleanPorts, Children, Forwards, BeforeStorage, BeforeFortio,
                BeforePrometheus
  <2>3. \A e \in Drivers \ {d} : ~AtWork(e)'
    BY <1>0, <1>1 DEF CleanPorts
  <2>4. \A e \in Drivers, k \in Forwards : <<e, k>> \in alive' => <<e, k>> \in missed'
    BY <2>1 DEF OnPorts
  <2> QED
    BY <2>1, <2>2, <2>3, <2>4 DEF OwnForwards
<1>2. ASSUME NEW d \in Drivers, NEW kind \in Forwards, Past(d), Start(d, kind),
             \A e \in Drivers \ {d} : pc'[e] = pc[e], UNCHANGED missed
      PROVE  OwnForwards'
  <2>1. \A e \in Drivers \ {d} : ~AtWork(e)'
    BY <1>0, <1>2 DEF Past
  <2>2. CASE ForwardUp(kind)
    BY <1>2, <2>1, <2>2 DEF OwnForwards, Start, Past
  <2>3. CASE ~ForwardUp(kind)
    <3>1. alive' = alive \cup {<<d, kind>>} /\ \A e \in Drivers : <<e, kind>> \notin alive
      BY <1>2, <2>3 DEF Start, ForwardUp
    <3> QED
      BY <1>2, <2>1, <3>1 DEF OwnForwards, Past
  <2> QED
    BY <2>2, <2>3
<1>3. ASSUME NEW d \in Drivers, LaunchStorageMon(d) \/ LaunchPrometheus(d)
      PROVE  OwnForwards'
  <2>1. \E kind \in Forwards : Start(d, kind)
    BY <1>3 DEF LaunchStorageMon, LaunchPrometheus, Forwards
  <2>2. Past(d) /\ (\A e \in Drivers \ {d} : pc'[e] = pc[e]) /\ UNCHANGED missed
    BY <1>0, <1>3 DEF LaunchStorageMon, LaunchPrometheus, Past
  <2> QED
    BY <1>2, <2>1, <2>2
<1>4. ASSUME NEW d \in Drivers,
             \/ DoExperiment(d) \/ GenerateTestfolder(d) \/ GetGatewayInfo(d)
             \/ InjectFailure(d) \/ RemoveFailure(d) \/ OpenStats(d) \/ CheckCongestion(d)
             \/ TerminateLoop(d) \/ KillPrometheus(d) \/ KillFortio(d) \/ KillStorage(d)
             \/ Exit(d) \/ Fail(d) \/ Interrupt(d) \/ QueryFails(d)
      PROVE  OwnForwards'
  <2>1. \A e \in Drivers : Past(e)' => Past(e)
    BY <1>0, <1>4
       DEF Past, DoExperiment, GenerateTestfolder, GetGatewayInfo, InjectFailure,
           RemoveFailure, OpenStats, CheckCongestion, TerminateLoop, KillPrometheus,
           KillFortio, KillStorage, Exit, Fail, Interrupt, QueryFails
  <2>2. alive' \in SUBSET alive /\ UNCHANGED missed
    BY <1>4
       DEF Kill, DoExperiment, GenerateTestfolder, GetGatewayInfo, InjectFailure,
           RemoveFailure, OpenStats, CheckCongestion, TerminateLoop, KillPrometheus,
           KillFortio, KillStorage, Exit, Fail, Interrupt, QueryFails
  <2> QED
    BY <2>1, <2>2, OwnForwardsKept
<1>5. ASSUME NEW d \in Drivers, StartFortio(d) \/ BeginRun(d) PROVE OwnForwards'
  <2>1. \A e \in Drivers : Past(e)' => Past(e)
    BY <1>0, <1>5 DEF Past, StartFortio, BeginRun
  <2>2. /\ \A e \in Drivers, k \in Forwards : <<e, k>> \in alive' => <<e, k>> \in alive
        /\ UNCHANGED missed
    BY <1>5 DEF StartFortio, BeginRun, Start, Forwards
  <2> QED
    BY <2>1, <2>2, OwnForwardsKept
<1>6. ASSUME NEW p \in alive, ChildEnds(p) PROVE OwnForwards'
  <2>1. alive' = alive \ {p} /\ missed' = missed \ {p} /\ UNCHANGED pc
    BY <1>6 DEF ChildEnds
  <2>2. \A d \in Drivers : Past(d)' => Past(d)
    BY <2>1 DEF Past
  <2> QED
    BY <2>1, <2>2, OwnForwardsKept
<1>7. CASE UNCHANGED <<pc, alive, missed>>
  BY <1>7 DEF OwnForwards
<1> QED
  BY <1>1, <1>3, <1>4, <1>5, <1>6, <1>7 DEF Next, Step, RemoveFolder, vars

(* Whatever earlier drivers left running, and however little of it the      *)
(* clearing of the ports ended, a foreign forward on which a driver works   *)
(* is one that this clearing missed, and its own forward of that port does  *)
(* not run beside it. (run_experiment.py:105, 121, 227-228, util.py:70-76,  *)
(* 105-107)                                                                 *)
THEOREM Isolation == Spec => []OwnForwards
<1>1. Init => OwnForwards
  BY DEF Init, OwnForwards
<1> QED
  BY <1>1, NextOwnForwards, AlwaysShape, AlwaysChildren, PTL DEF Spec

LEMMA NextNoStrayFault == ASSUME Shape, NoStrayFault, [Next]_vars PROVE NoStrayFault'
<1> USE DEF Goto, Steps, NoStrayFault, Ended, history
<1>0. /\ pc \in [Drivers -> Steps] /\ outcome \in [Drivers -> Outcomes]
      /\ faulted \in BOOLEAN /\ stuck \in BOOLEAN
      /\ \A d \in Drivers : outcome[d] = "none" <=> pc[d] \notin Ended
  BY DEF Shape, TypeOK, Sequence
<1>1. ASSUME NEW d \in Drivers, DoExperiment(d)
      PROVE  NoStrayFault'
  BY <1>0, <1>1 DEF DoExperiment
<1>2. ASSUME NEW d \in Drivers, InjectFailure(d)
      PROVE  NoStrayFault'
  BY <1>0, <1>2 DEF InjectFailure
<1>3. ASSUME NEW d \in Drivers, RemoveFailure(d)
      PROVE  NoStrayFault'
  BY <1>0, <1>3 DEF RemoveFailure
<1>4. ASSUME NEW d \in Drivers, Fail(d)
      PROVE  NoStrayFault'
  BY <1>0, <1>4 DEF Fail
<1>5. ASSUME NEW d \in Drivers, Interrupt(d)
      PROVE  NoStrayFault'
  BY <1>0, <1>5 DEF Interrupt
<1>6. ASSUME NEW d \in Drivers, KillStorage(d)
      PROVE  NoStrayFault'
  BY <1>0, <1>6 DEF KillStorage
<1>7. ASSUME NEW d \in Drivers, GenerateTestfolder(d) \/ CleanPorts(d) \/ GetGatewayInfo(d) \/ LaunchStorageMon(d) \/ StartFortio(d) \/ LaunchPrometheus(d)
      PROVE  NoStrayFault'
  BY <1>0, <1>7 DEF GenerateTestfolder, CleanPorts, GetGatewayInfo, LaunchStorageMon, StartFortio, LaunchPrometheus
<1>8. ASSUME NEW d \in Drivers, BeginRun(d) \/ OpenStats(d) \/ CheckCongestion(d) \/ TerminateLoop(d)
      PROVE  NoStrayFault'
  BY <1>0, <1>8 DEF BeginRun, OpenStats, CheckCongestion, TerminateLoop
<1>9. ASSUME NEW d \in Drivers, KillPrometheus(d) \/ KillFortio(d) \/ Exit(d)
      PROVE  NoStrayFault'
  BY <1>0, <1>9 DEF KillPrometheus, KillFortio, Exit
<1>10. CASE UNCHANGED <<pc, faulted, outcome, stuck>>
  BY <1>10
<1> QED
  BY <1>1, <1>2, <1>3, <1>4, <1>5, <1>6, <1>7, <1>8, <1>9, <1>10 DEF Next, Step, QueryFails, ChildEnds, RemoveFolder, vars

(* The injected failure is only left in the cluster by an interruption or a *)
(* removal that failed. (run_experiment.py:201-205)                         *)
THEOREM FaultRemoved == Spec => []NoStrayFault
<1>1. Init => NoStrayFault
  BY DEF Init, NoStrayFault
<1> QED
  BY <1>1, NextNoStrayFault, AlwaysShape, PTL DEF Spec

--------------------------------------------------------------------------------

(* The files: there are none without a folder, a driver that works has      *)
(* verdicts of its past runs only, and one that waits for its loop at the   *)
(* exit has none of the run it failed in.                                   *)
NoFiles == \A f \in Folders \ folders : \A i \in Indices : stats[f][i] = None

Verdict(d) == [by |-> d, whole |-> TRUE]

Unwritten ==
  \A d \in Drivers, f \in Folders, i \in Indices :
    stats[f][i] = Verdict(d) =>
      \/ i < idx[d]
      \/ i = idx[d] /\ pc[d] = "terminate"
      \/ pc[d] \in Ended

InCheck ==
  \A d \in Drivers :
    pc[d] = "leaving" /\ <<d, "query">> \in alive =>
      /\ idx[d] < Runs[d] /\ folder[d] \in Folders
      /\ stats[folder[d]][idx[d]] # Verdict(d)

LEMMA RunIndex ==
  ASSUME NEW d \in Drivers, NEW i \in Nat, i < Runs[d] PROVE i \in Indices
<1>1. i \in 0..(Runs[d] - 1)
  BY ExperimentAssumption
<1> QED
  BY <1>1 DEF Indices

LEMMA Verdicts ==
  ASSUME NEW d \in Drivers
  PROVE  Verdict(d) # None /\ Verdict(d) # [by |-> None, whole |-> TRUE]
<1>1. Verdict(d) \in [by : Drivers \cup {None}, whole : BOOLEAN]
  BY DEF Verdict
<1>2. Verdict(d).by # None
  BY ExperimentAssumption DEF Verdict
<1> QED
  BY <1>1, <1>2, ExperimentAssumption

LEMMA NextNoFiles == ASSUME Shape, NoFiles, [Next]_vars PROVE NoFiles'
<1> USE DEF NoFiles
<1>0. stats \in [Folders -> [Indices -> Files]] /\ folders \in SUBSET Folders
  BY DEF Shape, TypeOK
<1>1. ASSUME NEW d \in Drivers, GenerateTestfolder(d) PROVE NoFiles'
  BY <1>0, <1>1 DEF GenerateTestfolder
<1>w. ASSUME NEW d \in Drivers, NEW whole \in BOOLEAN, pc[d] \in InRun, Write(d, whole),
             UNCHANGED folders
      PROVE  NoFiles'
  <2>1. folder[d] \in folders
    BY <1>w, Place
  <2>2. \A f \in Folders, i \in Indices : f # folder[d] => stats'[f][i] = stats[f][i]
    BY <1>w, Writing
  <2> QED
    BY <1>w, <2>1, <2>2
<1>2. ASSUME NEW d \in Drivers, OpenStats(d) PROVE NoFiles'
  BY <1>2, <1>w DEF OpenStats, Goto, InRun
<1>3. ASSUME NEW d \in Drivers, CheckCongestion(d) PROVE NoFiles'
  BY <1>3, <1>w DEF CheckCongestion, Goto, InRun
<1>4. ASSUME NEW f \in folders, RemoveFolder(f) PROVE NoFiles'
  BY <1>0, <1>4 DEF RemoveFolder, NoStats
<1>5. CASE UNCHANGED <<stats, folders>>
  BY <1>5
<1> QED
  BY <1>1, <1>2, <1>3, <1>4, <1>5
     DEF Next, Step, DoExperiment, CleanPorts, GetGatewayInfo, LaunchStorageMon,
         StartFortio, LaunchPrometheus, BeginRun, InjectFailure, RemoveFailure,
         TerminateLoop, KillPrometheus, KillFortio, KillStorage, Exit, Fail,
         Interrupt, QueryFails, ChildEnds, vars

LEMMA NextUnwritten == ASSUME Shape, Unwritten, [Next]_vars PROVE Unwritten'
<1> USE DEF Goto, Unwritten, Verdict
<1>0. /\ pc \in [Drivers -> Steps] /\ idx \in [Drivers -> Nat]
      /\ stats \in [Folders -> [Indices -> Files]]
  BY DEF Shape, TypeOK
<1>1. ASSUME NEW d \in Drivers, OpenStats(d) \/ CheckCongestion(d) PROVE Unwritten'
  <2>1. PICK whole \in BOOLEAN : Write(d, whole) /\ (whole => pc'[d] = "terminate")
    BY <1>0, <1>1 DEF OpenStats, CheckCongestion
  <2>2. /\ pc[d] \in {"open", "check"} /\ UNCHANGED idx
        /\ \A e \in Drivers \ {d} : pc'[e] = pc[e]
    BY <1>0, <1>1 DEF OpenStats, CheckCongestion
  <2>3. /\ stats'[folder[d]][idx[d]] = [by |-> d, whole |-> whole]
        /\ \A f \in Folders, i \in Indices :
             f # folder[d] \/ i # idx[d] => stats'[f][i] = stats[f][i]
    BY <2>1, <2>2, Writing DEF InRun
  <2>4. ASSUME NEW e \in Drivers, NEW f \in Folders, NEW i \in Indices,
               stats'[f][i] = Verdict(e)
        PROVE  \/ i < idx[e]
               \/ i = idx[e] /\ pc'[e] = "terminate"
               \/ pc'[e] \in Ended
    <3>1. CASE f = folder[d] /\ i = idx[d]
      BY <2>1, <2>3, <2>4, <3>1
    <3>2. CASE f # folder[d] \/ i # idx[d]
      BY <2>2, <2>3, <2>4, <3>2 DEF Ended
    <3> QED
      BY <3>1, <3>2
  <2> QED
    BY <2>2, <2>4
<1>2. ASSUME NEW d \in Drivers, TerminateLoop(d) PROVE Unwritten'
  <2>1. /\ pc[d] = "terminate" /\ idx'[d] = idx[d] + 1 /\ UNCHANGED stats
        /\ \A e \in Drivers \ {d} : pc'[e] = pc[e] /\ idx'[e] = idx[e]
    BY <1>0, <1>2 DEF TerminateLoop
  <2>2. \A i \in Indices : i \in Int
    BY ExperimentAssumption DEF Indices
  <2> QED
    BY <1>0, <2>1, <2>2 DEF Ended
<1>3. ASSUME NEW f \in folders, RemoveFolder(f) PROVE Unwritten'
  <2>1. /\ \A g \in Folders, i \in Indices : stats'[g][i] \in {stats[g][i], None}
        /\ UNCHANGED <<pc, idx>>
    BY <1>0, <1>3 DEF RemoveFolder, NoStats
  <2>2. \A d \in Drivers : [by |-> d, whole |-> TRUE] # None
    BY Verdicts DEF Verdict
  <2> QED
    BY <1>0, <2>1, <2>2
<1>4. ASSUME UNCHANGED <<idx, stats>>,
             \A d \in Drivers : pc[d] \in Ended \cup {"terminate"} =>
                               pc'[d] = pc[d] \/ pc'[d] \in Ended
      PROVE  Unwritten'
  BY <1>4 DEF Ended
<1>5. ASSUME NEW d \in Drivers,
             \/ DoExperiment(d) \/ GenerateTestfolder(d) \/ CleanPorts(d)
             \/ GetGatewayInfo(d) \/ LaunchStorageMon(d) \/ StartFortio(d)
             \/ LaunchPrometheus(d) \/ BeginRun(d) \/ InjectFailure(d)
             \/ RemoveFailure(d) \/ KillPrometheus(d) \/ KillFortio(d)
             \/ KillStorage(d) \/ Exit(d) \/ Fail(d) \/ Interrupt(d) \/ QueryFails(d)
      PROVE  /\ UNCHANGED <<idx, stats>>
             /\ \A e \in Drivers : pc[e] \in Ended \cup {"terminate"} =>
                                  pc'[e] = pc[e] \/ pc'[e] \in Ended
  BY <1>0, <1>5
     DEF Ended, DoExperiment, GenerateTestfolder, CleanPorts, GetGatewayInfo,
         LaunchStorageMon, StartFortio, LaunchPrometheus, BeginRun, InjectFailure,
         RemoveFailure, KillPrometheus, KillFortio, KillStorage, Exit, Fail,
         Interrupt, QueryFails
<1>6. CASE UNCHANGED <<pc, idx, stats>>
  BY <1>6
<1> QED
  BY <1>1, <1>2, <1>3, <1>4, <1>5, <1>6 DEF Next, Step, ChildEnds, vars

(* What lets no driver fail and writes no file leaves InCheck as it is.     *)
LEMMA InCheckKept ==
  ASSUME InCheck, UNCHANGED stats,
         \A d \in Drivers : pc'[d] = "leaving" /\ <<d, "query">> \in alive' =>
           /\ pc[d] = "leaving" /\ <<d, "query">> \in alive
           /\ idx'[d] = idx[d] /\ folder'[d] = folder[d]
  PROVE  InCheck'
BY DEF InCheck, Verdict

LEMMA NextInCheck == ASSUME Shape, Children, Unwritten, InCheck, [Next]_vars PROVE InCheck'
<1> USE DEF Goto
<1>0. /\ pc \in [Drivers -> Steps] /\ idx \in [Drivers -> Nat]
      /\ folder \in [Drivers -> Folders \cup {None}]
      /\ stats \in [Folders -> [Indices -> Files]]
  BY DEF Shape, TypeOK
<1>1. ASSUME NEW d \in Drivers,
             \/ DoExperiment(d) \/ GenerateTestfolder(d) \/ CleanPorts(d)
             \/ GetGatewayInfo(d) \/ LaunchStorageMon(d) \/ StartFortio(d)
             \/ LaunchPrometheus(d) \/ BeginRun(d) \/ InjectFailure(d)
             \/ RemoveFailure(d) \/ TerminateLoop(d) \/ KillPrometheus(d)
             \/ KillFortio(d)
      PROVE  InCheck'
  <2>1. /\ UNCHANGED stats /\ pc'[d] # "leaving"
        /\ \A e \in Drivers \ {d} : /\ pc'[e] = pc[e] /\ idx'[e] = idx[e]
                                   /\ folder'[e] = folder[e]
    BY <1>0, <1>1
       DEF DoExperiment, GenerateTestfolder, CleanPorts, GetGatewayInfo,
           LaunchStorageMon, StartFortio, LaunchPrometheus, BeginRun, InjectFailure,
           RemoveFailure, TerminateLoop, KillPrometheus, KillFortio
  <2>2. \A e \in Drivers \ {d} : <<e, "query">> \in alive' => <<e, "query">> \in alive
    <3>1. CASE CleanPorts(d)
      BY <3>1 DEF CleanPorts
    <3>2. CASE LaunchStorageMon(d) \/ StartFortio(d) \/ LaunchPrometheus(d) \/ BeginRun(d)
      <4>1. \E k \in Kinds : Start(d, k)
        BY <3>2 DEF LaunchStorageMon, StartFortio, LaunchPrometheus, BeginRun, Kinds, Forwards
      <4> QED
        BY <4>1 DEF Start
    <3>3. CASE \/ DoExperiment(d) \/ GenerateTestfolder(d) \/ GetGatewayInfo(d)
               \/ InjectFailure(d) \/ RemoveFailure(d)
               \/ TerminateLoop(d) \/ KillPrometheus(d) \/ KillFortio(d)
      BY <3>3 DEF DoExperiment, GenerateTestfolder, GetGatewayInfo, InjectFailure,
                  RemoveFailure, TerminateLoop, KillPrometheus, KillFortio, Kill
    <3> QED
      BY <1>1, <3>1, <3>2, <3>3
  <2> QED
    BY <2>1, <2>2, InCheckKept
<1>2. ASSUME NEW d \in Drivers, OpenStats(d) \/ CheckCongestion(d) PROVE InCheck'
  <2>1. PICK whole \in BOOLEAN : Write(d, whole)
    BY <1>2 DEF OpenStats, CheckCongestion
  <2>2. /\ pc[d] \in {"open", "check"} /\ pc'[d] # "leaving"
        /\ UNCHANGED <<idx, folder, alive>> /\ \A e \in Drivers \ {d} : pc'[e] = pc[e]
    BY <1>0, <1>2 DEF OpenStats, CheckCongestion
  <2>3. /\ stats'[folder[d]][idx[d]] = [by |-> d, whole |-> whole]
        /\ \A f \in Folders, i \in Indices :
             f # folder[d] \/ i # idx[d] => stats'[f][i] = stats[f][i]
    BY <2>1, <2>2, Writing DEF InRun
  <2>4. ASSUME NEW e \in Drivers \ {d}, pc[e] = "leaving", <<e, "query">> \in alive
        PROVE  /\ idx[e] < Runs[e] /\ folder[e] \in Folders
               /\ stats'[folder[e]][idx[e]] # Verdict(e)
    <3>1. /\ folder[e] \in Folders /\ idx[e] \in Indices /\ idx[e] < Runs[e]
          /\ stats[folder[e]][idx[e]] # Verdict(e)
      BY <1>0, <2>4, RunIndex DEF InCheck
    <3> QED
      BY <2>3, <3>1 DEF Verdict
  <2> QED
    BY <2>2, <2>4 DEF InCheck, Verdict
<1>3. ASSUME NEW d \in Drivers, Fail(d) PROVE InCheck'
  <2>1. <<d, "query">> \in alive => pc[d] \in {"open", "check"}
    BY <1>3 DEF Fail, Children, InRun
  <2>2. /\ pc'[d] = "leaving" /\ \A e \in Drivers \ {d} : pc'[e] = pc[e]
        /\ UNCHANGED <<idx, folder, alive, stats>>
    BY <1>0, <1>3 DEF Fail
  <2>3. ASSUME <<d, "query">> \in alive
        PROVE  /\ idx[d] < Runs[d] /\ folder[d] \in Folders
               /\ stats[folder[d]][idx[d]] # Verdict(d)
    <3>1. folder[d] \in Folders /\ idx[d] \in Indices /\ idx[d] < Runs[d]
      BY <2>1, <2>3, Place DEF InRun
    <3>2. pc[d] \notin Ended /\ pc[d] # "terminate"
      BY <2>1, <2>3 DEF Ended
    <3> QED
      BY <1>0, <3>1, <3>2 DEF Unwritten
  <2> QED
    BY <2>2, <2>3 DEF InCheck, Verdict
<1>4. ASSUME NEW d \in Drivers,
             KillStorage(d) \/ Exit(d) \/ Interrupt(d) \/ QueryFails(d)
      PROVE  InCheck'
  <2>1. alive' \in SUBSET alive /\ UNCHANGED <<idx, folder, stats>>
    BY <1>4 DEF KillStorage, Exit, Interrupt, QueryFails, Kill
  <2>2. \A e \in Drivers : pc'[e] = "leaving" /\ <<e, "query">> \in alive =>
                           pc[e] = "leaving"
    BY <1>0, <1>4 DEF KillStorage, Exit, Interrupt, QueryFails, Children, InRun
  <2> QED
    BY <2>1, <2>2, InCheckKept
<1>5. ASSUME NEW p \in alive, ChildEnds(p) PROVE InCheck'
  BY <1>5, InCheckKept DEF ChildEnds
<1>6. ASSUME NEW f \in folders, RemoveFolder(f) PROVE InCheck'
  <2>1. /\ \A g \in Folders, i \in Indices : stats'[g][i] \in {stats[g][i], None}
        /\ UNCHANGED <<pc, idx, folder, alive>>
    BY <1>0, <1>6 DEF RemoveFolder, NoStats
  <2>2. ASSUME NEW d \in Drivers, pc[d] = "leaving", <<d, "query">> \in alive
        PROVE  /\ idx[d] < Runs[d] /\ folder[d] \in Folders
               /\ stats'[folder[d]][idx[d]] # Verdict(d)
    <3>1. /\ folder[d] \in Folders /\ idx[d] \in Indices /\ idx[d] < Runs[d]
          /\ stats[folder[d]][idx[d]] # Verdict(d)
      BY <1>0, <2>2, RunIndex DEF InCheck
    <3>2. Verdict(d) # None
      BY Verdicts
    <3> QED
      BY <2>1, <3>1, <3>2
  <2> QED
    BY <2>1, <2>2 DEF InCheck, Verdict
<1>7. CASE UNCHANGED vars
  BY <1>7, InCheckKept DEF vars
<1> QED
  BY <1>1, <1>2, <1>3, <1>4, <1>5, <1>6, <1>7 DEF Next, Step

LEMMA AlwaysInCheck == Spec => [](NoFiles /\ Unwritten /\ InCheck)
<1>1. Init => NoFiles /\ Unwritten /\ InCheck
  <2> SUFFICES ASSUME Init PROVE NoFiles /\ Unwritten /\ InCheck
    OBVIOUS
  <2>1. \A f \in Folders, i \in Indices :
          /\ stats[f][i] \in {None, [by |-> None, whole |-> TRUE]}
          /\ f \notin folders => stats[f][i] = None
    BY DEF Init, NoStats, EarlierStats
  <2>2. \A d \in Drivers : Verdict(d) \notin {None, [by |-> None, whole |-> TRUE]}
    BY Verdicts
  <2> QED
    BY <2>1, <2>2 DEF Init, NoFiles, Unwritten, InCheck
<1> QED
  BY <1>1, NextNoFiles, NextUnwritten, NextInCheck, AlwaysShape, AlwaysChildren, PTL DEF Spec

(* The exit only waits for the query loop of a driver that failed in a run  *)
(* whose verdict it never wrote. (run_experiment.py:38-41, 210-213)         *)
THEOREM HangsInCheck == Spec => []HangsOnlyInCheck
<1>1. Children /\ InCheck => HangsOnlyInCheck
  BY DEF Children, InCheck, InRun, HangsOnlyInCheck, Verdict
<1> QED
  BY <1>1, AlwaysChildren, AlwaysInCheck, PTL

--------------------------------------------------------------------------------

(* A folder no other driver was given keeps the verdicts of its driver. *)
Alone(d) == folder[d] \in folders /\ \A e \in Drivers \ {d} : folder[e] # folder[d]

Recorded ==
  \A d \in Drivers : Alone(d) =>
    /\ \A i \in 0..(idx[d] - 1) : stats[folder[d]][i] = Verdict(d)
    /\ pc[d] = "terminate" => stats[folder[d]][idx[d]] = Verdict(d)

LEMMA WrittenRecorded ==
  ASSUME Shape, Recorded, NEW d \in Drivers, NEW whole \in BOOLEAN, pc[d] \in InRun,
         Write(d, whole), UNCHANGED <<idx, folder, folders>>,
         \A e \in Drivers \ {d} : pc'[e] = pc[e],
         whole \/ pc'[d] # "terminate"
  PROVE  Recorded'
<1> USE DEF Recorded, Alone
<1>0. /\ folders \in SUBSET Folders
      /\ \A e \in Drivers : idx[e] \in Nat /\ idx[e] <= Runs[e] /\ Runs[e] \in Nat
  BY ExperimentAssumption DEF Shape, TypeOK
<1>1. /\ stats'[folder[d]][idx[d]] = [by |-> d, whole |-> whole]
      /\ \A f \in Folders, i \in Indices :
           f # folder[d] \/ i # idx[d] => stats'[f][i] = stats[f][i]
  BY Writing
<1>2. ASSUME NEW e \in Drivers, Alone(e), NEW i \in 0..(idx[e] - 1)
      PROVE  stats'[folder[e]][i] = Verdict(e)
  <2>1. i \in Indices /\ folder[e] \in Folders
    BY <1>0, <1>2, RunIndex
  <2>2. folder[e] # folder[d] \/ i # idx[d]
    BY <1>0, <1>2
  <2> QED
    BY <1>1, <1>2, <2>1, <2>2
<1>3. ASSUME NEW e \in Drivers, Alone(e), pc'[e] = "terminate"
      PROVE  stats'[folder[e]][idx[e]] = Verdict(e)
  <2>1. CASE e = d
    BY <1>1, <1>3, <2>1 DEF Verdict
  <2>2. CASE e # d
    <3>1. folder[e] \in Folders /\ idx[e] \in Indices /\ folder[e] # folder[d]
      BY <1>3, <2>2, Place DEF InRun
    <3> QED
      BY <1>1, <1>3, <2>2, <3>1
  <2> QED
    BY <2>1, <2>2
<1> QED
  BY <1>2, <1>3

LEMMA NextRecorded == ASSUME Shape, Recorded, [Next]_vars PROVE Recorded'
<1> USE DEF Recorded, Alone, Goto
<1>0. /\ pc \in [Drivers -> Steps] /\ idx \in [Drivers -> Nat]
      /\ folder \in [Drivers -> Folders \cup {None}]
      /\ folders \in SUBSET Folders /\ None \notin Folders
      /\ stats \in [Folders -> [Indices -> Files]]
  BY ExperimentAssumption DEF Shape, TypeOK, Folders
<1>1. ASSUME NEW d \in Drivers, GenerateTestfolder(d) PROVE Recorded'
  <2>1. folder[d] = None /\ idx[d] = 0 /\ FolderNumber # None
    BY <1>1, Numbers, ExperimentAssumption
       DEF GenerateTestfolder, Shape, Sequence, Early
  <2>2. ASSUME NEW e \in Drivers \ {d}, Alone(e)' PROVE Alone(e)
    BY <1>0, <1>1, <2>1, <2>2 DEF GenerateTestfolder
  <2> QED
    BY <1>0, <1>1, <2>1, <2>2 DEF GenerateTestfolder
<1>2. ASSUME NEW d \in Drivers, OpenStats(d) PROVE Recorded'
  BY <1>0, <1>2, WrittenRecorded DEF OpenStats, InRun
<1>3. ASSUME NEW d \in Drivers, CheckCongestion(d) PROVE Recorded'
  BY <1>0, <1>3, WrittenRecorded DEF CheckCongestion, InRun
<1>4. ASSUME NEW d \in Drivers, TerminateLoop(d) PROVE Recorded'
  <2>1. /\ pc[d] = "terminate" /\ pc' = [pc EXCEPT ![d] = "run"]
        /\ idx' = [idx EXCEPT ![d] = idx[d] + 1]
        /\ UNCHANGED <<folder, folders, stats>>
    BY <1>4 DEF TerminateLoop
  <2>2. ASSUME NEW e \in Drivers, Alone(e), NEW i \in 0..(idx'[e] - 1)
        PROVE  stats[folder[e]][i] = Verdict(e)
    <3>1. i \in 0..(idx[e] - 1) \/ (e = d /\ i = idx[d])
      BY <1>0, <2>1
    <3> QED
      BY <2>1, <2>2, <3>1
  <2>3. ASSUME NEW e \in Drivers, Alone(e), pc'[e] = "terminate"
        PROVE  stats[folder[e]][idx'[e]] = Verdict(e)
    BY <1>0, <2>1, <2>3
  <2> QED
    BY <2>1, <2>2, <2>3
<1>5. ASSUME NEW f \in folders, RemoveFolder(f) PROVE Recorded'
  <2>1. /\ folders' = folders \ {f} /\ UNCHANGED <<pc, idx, folder>>
        /\ \A g \in Folders \ {f} : stats'[g] = stats[g]
    BY <1>0, <1>5 DEF RemoveFolder
  <2> QED
    BY <1>0, <2>1
<1>6. ASSUME UNCHANGED <<idx, folder, folders, stats>>,
             \A d \in Drivers : pc'[d] = "terminate" => pc[d] = "terminate"
      PROVE  Recorded'
  BY <1>6
<1>7. ASSUME NEW d \in Drivers,
             \/ DoExperiment(d) \/ CleanPorts(d) \/ GetGatewayInfo(d)
             \/ LaunchStorageMon(d) \/ StartFortio(d) \/ LaunchPrometheus(d)
             \/ BeginRun(d) \/ InjectFailure(d) \/ RemoveFailure(d)
             \/ KillPrometheus(d) \/ KillFortio(d) \/ KillStorage(d) \/ Exit(d)
             \/ Fail(d) \/ Interrupt(d) \/ QueryFails(d)
      PROVE  /\ UNCHANGED <<idx, folder, folders, stats>>
             /\ \A e \in Drivers : pc'[e] = "terminate" => pc[e] = "terminate"
  BY <1>0, <1>7
     DEF DoExperiment, CleanPorts, GetGatewayInfo, LaunchStorageMon, StartFortio,
         LaunchPrometheus, BeginRun, InjectFailure, RemoveFailure, KillPrometheus,
         KillFortio, KillStorage, Exit, Fail, Interrupt, QueryFails
<1> QED
  BY <1>1, <1>2, <1>3, <1>4, <1>5, <1>6, <1>7 DEF Next, Step, ChildEnds, vars

(* A driver that reached its end left the verdict of each of its runs in    *)
(* its folder, if the folder is still there and was given to no other.      *)
(* (run_experiment.py:150-155, 161, 181-183)                                *)
THEOREM Completeness == Spec => []CompleteResults
<1>1. Init => Recorded
  BY DEF Init, Recorded
<1>2. Shape /\ Recorded => CompleteResults
  BY DEF Shape, Sequence, Recorded, Alone, CompleteResults, Verdict
<1> QED
  BY <1>1, <1>2, NextRecorded, AlwaysShape, PTL DEF Spec

--------------------------------------------------------------------------------

(* If the number of folders is that of an existing one, a smaller number is *)
(* free: somebody removed that folder.                                      *)
Gap(n) == \E g \in Folders : g < n /\ g \notin folders

LEMMA Pigeonhole ==
  ASSUME TypeOK, FolderNumber \in folders
  PROVE  Gap(FolderNumber)
<1> DEFINE n == FolderNumber
<1>0. n \in Nat /\ n \in Folders /\ IsFiniteSet(folders)
  BY Numbers DEF TypeOK
<1>1. SUFFICES ASSUME \A g \in Folders : g < n => g \in folders PROVE FALSE
  BY DEF Gap
<1>2. \A g \in 0..n : g \in Folders
  BY <1>0, ExperimentAssumption DEF Folders
<1>3. \A g \in 0..n : g < n \/ g = n
  BY <1>0
<1>4. 0..n \in SUBSET folders
  BY <1>1, <1>2, <1>3
<1>5. Cardinality(0..n) <= Cardinality(folders)
  BY <1>0, <1>4, FS_Subset
<1>6. Cardinality(0..n) = n + 1
  BY <1>0, FS_Interval
<1> QED
  BY <1>0, <1>5, <1>6 DEF FolderNumber

(* What a driver finds in its folder is its own, or there was a gap below.  *)
Own(d) ==
  \A i \in Indices : stats[folder[d]][i] = None \/ stats[folder[d]][i].by = d

Claims ==
  \A d \in Drivers :
    AtWork(d) /\ pc[d] \notin Early => Gap(folder[d]) \/ Own(d)

LEMMA NextClaims == ASSUME Shape, NoFiles, Claims, [Next]_vars PROVE Claims'
<1> USE DEF Goto, Early
<1>0. /\ pc \in [Drivers -> Steps]
      /\ folder \in [Drivers -> Folders \cup {None}]
      /\ folders \in SUBSET Folders /\ None \notin Folders
      /\ stats \in [Folders -> [Indices -> Files]]
      /\ \A d, e \in Drivers : AtWork(d) /\ AtWork(e) => d = e
  BY ExperimentAssumption DEF Shape, TypeOK, Folders, OneAtWork
<1>1. ASSUME NEW d \in Drivers, GenerateTestfolder(d) PROVE Claims'
  <2>1. \A e \in Drivers \ {d} : ~AtWork(e)'
    BY <1>0, <1>1 DEF GenerateTestfolder, AtWork
  <2>2. CASE FolderNumber \in folders
    <3>1. Gap(FolderNumber)
      BY <2>2, Pigeonhole DEF Shape
    <3>2. folder'[d] = FolderNumber /\ folders' = folders
      BY <1>0, <1>1, <2>2 DEF GenerateTestfolder
    <3> QED
      BY <2>1, <3>1, <3>2 DEF Claims, Gap
  <2>3. CASE FolderNumber \notin folders
    <3>1. FolderNumber \in Folders
      <4>1. FolderNumber \in Nat /\ FolderNumber < MaxFolders
        BY <1>1, Numbers DEF GenerateTestfolder, Shape
      <4> QED
        BY <4>1, ExperimentAssumption DEF Folders
    <3>2. folder'[d] = FolderNumber /\ stats' = stats
      BY <1>0, <1>1 DEF GenerateTestfolder
    <3>3. Own(d)'
      BY <2>3, <3>1, <3>2 DEF Own, NoFiles
    <3> QED
      BY <2>1, <3>3 DEF Claims
  <2> QED
    BY <2>2, <2>3
<1>2. ASSUME NEW d \in Drivers, NEW whole \in BOOLEAN, pc[d] \in InRun, Write(d, whole),
             UNCHANGED <<idx, folder, folders>>,
             \A e \in Drivers \ {d} : pc'[e] = pc[e]
      PROVE  Claims'
  <2>1. AtWork(d) /\ \A e \in Drivers \ {d} : ~AtWork(e)'
    BY <1>0, <1>2 DEF AtWork, InRun
  <2>2. Gap(folder[d]) \/ Own(d)
    BY <1>2, <2>1 DEF Claims, InRun
  <2>3. Own(d) => Own(d)'
    <3>1. /\ folder[d] \in Folders
          /\ stats'[folder[d]][idx[d]] = [by |-> d, whole |-> whole]
          /\ \A i \in Indices \ {idx[d]} : stats'[folder[d]][i] = stats[folder[d]][i]
      BY <1>2, Writing, Place
    <3> QED
      BY <1>2, <3>1 DEF Own
  <2>4. Gap(folder[d]) => Gap(folder[d])'
    BY <1>2 DEF Gap
  <2> QED
    BY <2>1, <2>2, <2>3, <2>4 DEF Claims
<1>3. ASSUME NEW d \in Drivers, OpenStats(d) PROVE Claims'
  BY <1>0, <1>2, <1>3 DEF OpenStats, InRun
<1>4. ASSUME NEW d \in Drivers, CheckCongestion(d) PROVE Claims'
  BY <1>0, <1>2, <1>4 DEF CheckCongestion, InRun
<1>5. ASSUME NEW f \in folders, RemoveFolder(f) PROVE Claims'
  <2>1. /\ folders' = folders \ {f} /\ UNCHANGED <<pc, folder>>
        /\ \A g \in Folders \ {f} : stats'[g] = stats[g]
        /\ \A d \in Drivers : AtWork(d) => folder[d] # f
    BY <1>0, <1>5 DEF RemoveFolder
  <2>2. \A d \in Drivers : AtWork(d) /\ pc[d] \notin Early => folder[d] \in Folders
    BY <1>0 DEF Shape, Sequence
  <2>3. \A d \in Drivers : AtWork(d)' <=> AtWork(d)
    BY <2>1 DEF AtWork
  <2> QED
    BY <2>1, <2>2, <2>3 DEF Claims, Gap, Own
<1>6. ASSUME UNCHANGED <<folder, folders, stats>>,
             \A d \in Drivers : AtWork(d)' /\ pc'[d] \notin Early
                                  => AtWork(d) /\ pc[d] \notin Early
      PROVE  Claims'
  BY <1>6 DEF Claims, Gap, Own
<1>7. ASSUME NEW d \in Drivers,
             \/ DoExperiment(d) \/ CleanPorts(d) \/ GetGatewayInfo(d)
             \/ LaunchStorageMon(d) \/ StartFortio(d) \/ LaunchPrometheus(d)
             \/ BeginRun(d) \/ InjectFailure(d) \/ RemoveFailure(d) \/ TerminateLoop(d)
             \/ KillPrometheus(d) \/ KillFortio(d) \/ KillStorage(d) \/ Exit(d)
             \/ Fail(d) \/ Interrupt(d) \/ QueryFails(d)
      PROVE  /\ UNCHANGED <<folder, folders, stats>>
             /\ \A e \in Drivers : AtWork(e)' /\ pc'[e] \notin Early
                                     => AtWork(e) /\ pc[e] \notin Early
  BY <1>0, <1>7
     DEF AtWork, DoExperiment, CleanPorts, GetGatewayInfo, LaunchStorageMon,
         StartFortio, LaunchPrometheus, BeginRun, InjectFailure, RemoveFailure,
         TerminateLoop, KillPrometheus, KillFortio, KillStorage, Exit, Fail,
         Interrupt, QueryFails
<1>8. CASE UNCHANGED <<pc, folder, folders, stats>>
  BY <1>6, <1>8 DEF AtWork
<1> QED
  BY <1>1, <1>3, <1>4, <1>5, <1>6, <1>7, <1>8 DEF Next, Step, ChildEnds, vars

(* A file only gets another author in a folder whose number was given twice *)
(* because a folder with a smaller number had been removed.                 *)
(* (run_experiment.py:27-34, 154)                                           *)
THEOREM Preservation == Spec => ResultsKept
<1> DEFINE Kept == \A f \in Folders, i \in Indices :
                     /\ stats[f][i] # None /\ stats'[f][i] # None
                     /\ stats'[f][i].by # stats[f][i].by
                     => \E g \in Folders : g < f /\ g \notin folders
<1>1. Shape /\ Claims /\ [Next]_vars => [Kept]_vars
  <2> SUFFICES ASSUME Shape, Claims, [Next]_vars PROVE Kept
    OBVIOUS
  <2>0. stats \in [Folders -> [Indices -> Files]]
    BY DEF Shape, TypeOK
  <2>1. ASSUME NEW d \in Drivers, NEW whole \in BOOLEAN, pc[d] \in InRun, Write(d, whole)
        PROVE  Kept
    <3>1. Gap(folder[d]) \/ Own(d)
      BY <2>1 DEF Claims, InRun, AtWork, Early
    <3>2. /\ stats'[folder[d]][idx[d]] = [by |-> d, whole |-> whole]
          /\ \A f \in Folders, i \in Indices :
               f # folder[d] \/ i # idx[d] => stats'[f][i] = stats[f][i]
      BY <2>1, Writing
    <3>3. CASE Gap(folder[d])
      BY <3>2, <3>3 DEF Gap
    <3>4. CASE Own(d)
      BY <3>2, <3>4 DEF Own
    <3> QED
      BY <3>1, <3>3, <3>4
  <2>2. ASSUME NEW d \in Drivers, OpenStats(d) \/ CheckCongestion(d) PROVE Kept
    BY <2>1, <2>2 DEF OpenStats, CheckCongestion, Goto, InRun
  <2>3. ASSUME NEW f \in folders, RemoveFolder(f) PROVE Kept
    <3>1. \A g \in Folders, i \in Indices : stats'[g][i] \in {stats[g][i], None}
      BY <2>0, <2>3 DEF RemoveFolder, NoStats
    <3> QED
      BY <3>1
  <2>4. CASE UNCHANGED stats
    BY <2>4
  <2> QED
    BY <2>2, <2>3, <2>4
       DEF Next, Step, DoExperiment, GenerateTestfolder, CleanPorts, GetGatewayInfo,
           LaunchStorageMon, StartFortio, LaunchPrometheus, BeginRun, InjectFailure,
           RemoveFailure, TerminateLoop, KillPrometheus, KillFortio, KillStorage,
           Exit, Fail, Interrupt, QueryFails, ChildEnds, vars
<1>2. Init => Claims
  BY DEF Init, Claims, AtWork
<1> QED
  BY <1>1, <1>2, NextClaims, AlwaysShape, AlwaysInCheck, PTL DEF Spec, ResultsKept
=================================================================================
