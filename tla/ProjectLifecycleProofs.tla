----------------------- MODULE ProjectLifecycleProofs -----------------------
(***************************************************************************)
(* What TLAPS proves of ProjectLifecycle, for any number of instances,     *)
(* projects and faults.                                                    *)
(*                                                                         *)
(* The argument: a lock has one holder and is held at certain steps        *)
(* (LockInv), so of two who would move a project one is not at such a      *)
(* step; hence each step still finds the document and the workspace where  *)
(* the step before it left them (PlaceInv).  Where the workspace is while  *)
(* a project is listed depends on recoveries that do not run in the middle *)
(* of an operation: WholeInv, and what rests on it, is proved for          *)
(* instances that start one at a time (~ Overlap).                         *)
(***************************************************************************)
EXTENDS ProjectLifecycle, TLAPS

\* The names the actions use are the names TypeOK lists.
LEMMA Names ==
    /\ "down" \in Steps /\ "idle" \in Steps /\ "create" \in Steps /\ "ensure" \in Steps
    /\ "load" \in Steps /\ "unlist" \in Steps /\ "clear" \in Steps
    /\ "delete_meta" \in Steps /\ "delete_ws" \in Steps /\ "delete_back" \in Steps
    /\ "restore_ws" \in Steps /\ "restore_meta" \in Steps /\ "restore_back" \in Steps
    /\ "purge_ws" \in Steps /\ "purge_meta" \in Steps /\ "purge_back" \in Steps
    /\ "purge_rmws" \in Steps /\ "purge_rmmeta" \in Steps /\ "mark" \in Steps
    /\ "moves" \in Steps /\ "move" \in Steps /\ "wipes" \in Steps /\ "wipe" \in Steps
    /\ "wiping" \in Steps /\ "metas" \in Steps /\ "metawipe" \in Steps
    /\ "delete" \in Steps /\ "restore" \in Steps /\ "purge" \in Steps
    /\ "live" \in MetaPlaces /\ "trash" \in MetaPlaces /\ "purging" \in MetaPlaces
    /\ "gone" \in MetaPlaces /\ "absent" \in MetaPlaces /\ "absent" \in WsPlaces
    /\ "undone" \in MetaPlaces /\ "undone" \in WsPlaces
    /\ "home" \in WsPlaces /\ "trash" \in WsPlaces /\ "purging" \in WsPlaces
    /\ "partial" \in WsPlaces /\ "gone" \in WsPlaces /\ "off" \in RunSteps
    /\ "checked" \in RunSteps /\ "ready" \in RunSteps /\ "locked" \in RunSteps
    /\ "on" \in RunSteps /\ "store" \in Roles /\ "pipeline" \in Roles
  BY DEF Steps, CreateSteps, FreshSteps, Recovering, Operations, MovingSteps, DeleteSteps,
         RestoreSteps, PurgeSteps, MetaPlaces, WsPlaces, RunSteps, Roles

\* Going to one of the steps keeps the type of pc.
LEMMA GotoType ==
    ASSUME TypeOK, NEW i \in Instances, NEW s \in Steps, Goto(i, s)
    PROVE  pc' \in [Instances -> Steps]
  BY DEF TypeOK, Goto

\* Every variable keeps its type, whatever step is taken.
LEMMA TypeStep == TypeOK /\ [Next]_vars => TypeOK'
<1> SUFFICES ASSUME TypeOK, [Next]_vars PROVE TypeOK'
  OBVIOUS
<1> USE FaultsAssumption, IsolatedAssumption, Names
<1>0. CASE UNCHANGED vars
  BY <1>0 DEF vars, TypeOK
<1>1. ASSUME NEW i \in Instances, Start(i) PROVE TypeOK'
  <2> USE <1>1 DEF Start
  <2>0. UNCHANGED <<meta, ws, skeleton, status, delLock, runLock, tgt, run, faults>>
    OBVIOUS
  <2>1. pc' \in [Instances -> Steps]
    BY DEF TypeOK, Goto
  <2>2. todo' \in [Instances -> SUBSET Projects]
    BY DEF TypeOK
  <2> QED
    BY <2>0, <2>1, <2>2 DEF TypeOK
<1>2. ASSUME NEW i \in Instances, NEW p \in Projects, RecoverProject(i, p) PROVE TypeOK'
  <2> USE <1>2 DEF RecoverProject, MarkInterrupted, InspectEntry, InspectQuarantine, InspectMetadata
  <2>0. UNCHANGED <<meta, ws, skeleton, delLock, runLock, run, faults>>
    OBVIOUS
  <2>1. pc' \in [Instances -> Steps]
    BY DEF TypeOK, Goto
  <2>2. tgt' \in [Instances -> Projects]
    BY DEF TypeOK
  <2>3. todo' \in [Instances -> SUBSET Projects]
    BY DEF TypeOK
  <2>4. status' \in [Projects -> {"idle", "running"}]
    BY DEF TypeOK
  <2> QED
    BY <2>0, <2>1, <2>2, <2>3, <2>4 DEF TypeOK
<1>3. ASSUME NEW i \in Instances, MarkDone(i) \/ MovesDone(i) \/ WipesDone(i) \/ RecoveryDone(i) PROVE TypeOK'
  <2> USE <1>3 DEF MarkDone, MovesDone, WipesDone, RecoveryDone
  <2>0. UNCHANGED <<meta, ws, skeleton, status, delLock, runLock, tgt, run, faults>>
    OBVIOUS
  <2>1. pc' \in [Instances -> Steps]
    BY DEF TypeOK, Goto
  <2>2. todo' \in [Instances -> SUBSET Projects]
    BY DEF TypeOK
  <2> QED
    BY <2>0, <2>1, <2>2 DEF TypeOK
<1>4. ASSUME NEW i \in Instances, FinishSoftDelete(i) \/ RemoveMetadata(i) PROVE TypeOK'
  <2> USE <1>4 DEF FinishSoftDelete, RemoveMetadata
  <2>0. UNCHANGED <<skeleton, status, delLock, runLock, tgt, run>>
    OBVIOUS
  <2>1. meta' \in [Projects -> MetaPlaces]
    BY DEF TypeOK
  <2>2. ws' \in [Projects -> WsPlaces]
    BY DEF TypeOK
  <2>3. pc' \in [Instances -> Steps]
    BY DEF TypeOK, Goto
  <2>4. todo' \in [Instances -> SUBSET Projects]
    BY DEF TypeOK
  <2>5. faults' \in 0..MaxFaults
    BY DEF TypeOK, Fault
  <2> QED
    BY <2>0, <2>1, <2>2, <2>3, <2>4, <2>5 DEF TypeOK
<1>5. ASSUME NEW i \in Instances, LockQuarantine(i) \/ RemoveQuarantine(i) PROVE TypeOK'
  <2> USE <1>5 DEF LockQuarantine, RemoveQuarantine
  <2>0. UNCHANGED <<meta, skeleton, status, tgt, run>>
    OBVIOUS
  <2>1. ws' \in [Projects -> WsPlaces]
    BY DEF TypeOK, RemoveMarker, RemoveRest
  <2>2. delLock' \in [Projects -> SUBSET Instances]
    BY DEF TypeOK, Finish, Release
  <2>3. runLock' \in [Projects -> SUBSET (Instances \X Roles)]
    BY DEF TypeOK, Finish, Release
  <2>4. pc' \in [Instances -> Steps]
    <3>1. UNCHANGED pc \/ Goto(i, "idle") \/ Goto(i, "wipes") \/ Goto(i, "wiping")
      BY DEF Finish
    <3> QED
      BY <3>1, GotoType DEF TypeOK
  <2>5. todo' \in [Instances -> SUBSET Projects]
    BY DEF TypeOK
  <2>6. faults' \in 0..MaxFaults
    BY DEF TypeOK, Fault
  <2> QED
    BY <2>0, <2>1, <2>2, <2>3, <2>4, <2>5, <2>6 DEF TypeOK
<1>6. ASSUME NEW i \in Instances, Create(i) PROVE TypeOK'
  <2> USE <1>6 DEF Create, DoCreate, CreateMetadata, CreateEnsure, CreateLoad, CreateUnlist,
                   CreateClear, CreateWorkspace
  <2>0. UNCHANGED <<status, delLock, runLock, todo, run>>
    OBVIOUS
  <2>a. skeleton' \subseteq Projects
    BY DEF TypeOK
  <2>1. meta' \in [Projects -> MetaPlaces]
    BY DEF TypeOK
  <2>2. ws' \in [Projects -> WsPlaces]
    BY DEF TypeOK
  <2>3. pc' \in [Instances -> Steps]
    BY DEF TypeOK, Goto
  <2>4. tgt' \in [Instances -> Projects]
    BY DEF TypeOK
  <2>5. faults' \in 0..MaxFaults
    BY DEF TypeOK, Fault
  <2> QED
    BY <2>0, <2>a, <2>1, <2>2, <2>3, <2>4, <2>5 DEF TypeOK
<1>7. ASSUME NEW i \in Instances, NEW p \in Projects, NEW o \in Operations, Begin(i, p, o) PROVE TypeOK'
  <2> USE <1>7 DEF Begin
  <2>0. UNCHANGED <<meta, ws, skeleton, status, runLock, todo, run, faults>>
    OBVIOUS
  <2>1. delLock' \in [Projects -> SUBSET Instances]
    BY DEF TypeOK, Finish, Release
  <2>2. pc' \in [Instances -> Steps]
    BY DEF TypeOK, Goto, Finish, Operations
  <2>3. tgt' \in [Instances -> Projects]
    BY DEF TypeOK
  <2> QED
    BY <2>0, <2>1, <2>2, <2>3 DEF TypeOK
<1>8. ASSUME NEW i \in Instances, TakeRunLock(i) PROVE TypeOK'
  <2> DEFINE p == tgt[i]
  <2>0. UNCHANGED <<meta, ws, skeleton, status, tgt, todo, run, faults>>
    BY <1>8 DEF TakeRunLock
  <2>1. CASE runLock[p] = {} /\ Allowed(pc[i], p)
    <3>1. /\ runLock' = [runLock EXCEPT ![p] = {<<i, "store">>}]
          /\ Goto(i, FirstStep(pc[i], p))
          /\ UNCHANGED delLock
      BY <1>8, <2>1 DEF TakeRunLock
    <3>2. FirstStep(pc[i], p) \in Steps
      BY <1>8 DEF TakeRunLock, FirstStep, Operations
    <3> QED
      BY <2>0, <3>1, <3>2 DEF TypeOK, Goto
  <2>2. CASE ~ (runLock[p] = {} /\ Allowed(pc[i], p))
    <3>1. Finish(i)
      BY <1>8, <2>2 DEF TakeRunLock
    <3> QED
      BY <2>0, <3>1 DEF TypeOK, Finish, Release, Goto
  <2> QED
    BY <2>1, <2>2
<1>9. ASSUME NEW i \in Instances, DoDelete(i) PROVE TypeOK'
  <2> USE <1>9 DEF DoDelete, DeleteMetadata, DeleteWorkspace, DeleteRollback
  <2>0. UNCHANGED <<skeleton, status, tgt, todo, run>>
    OBVIOUS
  <2>1. meta' \in [Projects -> MetaPlaces]
    BY DEF TypeOK
  <2>2. ws' \in [Projects -> WsPlaces]
    BY DEF TypeOK
  <2>3. delLock' \in [Projects -> SUBSET Instances]
    BY DEF TypeOK, Finish, Release
  <2>4. runLock' \in [Projects -> SUBSET (Instances \X Roles)]
    BY DEF TypeOK, Finish, Release
  <2>5. pc' \in [Instances -> Steps]
    <3>1. Goto(i, "idle") \/ Goto(i, "delete_ws") \/ Goto(i, "delete_back")
      BY DEF Finish
    <3> QED
      BY <3>1, GotoType
  <2>6. faults' \in 0..MaxFaults
    BY DEF TypeOK, Fault
  <2> QED
    BY <2>0, <2>1, <2>2, <2>3, <2>4, <2>5, <2>6 DEF TypeOK
<1>10. ASSUME NEW i \in Instances, DoRestore(i) PROVE TypeOK'
  <2> USE <1>10 DEF DoRestore, RestoreWorkspace, RestoreMetadata, RestoreRollback
  <2>0. UNCHANGED <<skeleton, status, tgt, todo, run>>
    OBVIOUS
  <2>1. meta' \in [Projects -> MetaPlaces]
    BY DEF TypeOK
  <2>2. ws' \in [Projects -> WsPlaces]
    BY DEF TypeOK
  <2>3. delLock' \in [Projects -> SUBSET Instances]
    BY DEF TypeOK, Finish, Release
  <2>4. runLock' \in [Projects -> SUBSET (Instances \X Roles)]
    BY DEF TypeOK, Finish, Release
  <2>5. pc' \in [Instances -> Steps]
    <3>1. Goto(i, "idle") \/ Goto(i, "restore_meta") \/ Goto(i, "restore_back")
      BY DEF Finish
    <3> QED
      BY <3>1, GotoType
  <2>6. faults' \in 0..MaxFaults
    BY DEF TypeOK, Fault
  <2> QED
    BY <2>0, <2>1, <2>2, <2>3, <2>4, <2>5, <2>6 DEF TypeOK
<1>11. ASSUME NEW i \in Instances, DoPurge(i) PROVE TypeOK'
  <2> USE <1>11 DEF DoPurge, PurgeWorkspace, PurgeMetadata, PurgeRollback, PurgeRemoveWorkspace, PurgeRemoveMetadata
  <2>0. UNCHANGED <<skeleton, status, tgt, todo, run>>
    OBVIOUS
  <2>1. meta' \in [Projects -> MetaPlaces]
    BY DEF TypeOK
  <2>2. ws' \in [Projects -> WsPlaces]
    BY DEF TypeOK, RemoveMarker, RemoveRest
  <2>3. delLock' \in [Projects -> SUBSET Instances]
    BY DEF TypeOK, Finish, Release
  <2>4. runLock' \in [Projects -> SUBSET (Instances \X Roles)]
    BY DEF TypeOK, Finish, Release
  <2>5. pc' \in [Instances -> Steps]
    <3>1. \/ UNCHANGED pc \/ Goto(i, "idle") \/ Goto(i, "purge_meta") \/ Goto(i, "purge_back")
          \/ Goto(i, "purge_rmws") \/ Goto(i, "purge_rmmeta")
      BY DEF Finish
    <3> QED
      BY <3>1, GotoType DEF TypeOK
  <2>6. faults' \in 0..MaxFaults
    BY DEF TypeOK, Fault
  <2> QED
    BY <2>0, <2>1, <2>2, <2>3, <2>4, <2>5, <2>6 DEF TypeOK
<1>12. ASSUME NEW i \in Instances, NEW p \in Projects, Pipeline(i, p) PROVE TypeOK'
  <2> USE <1>12 DEF Pipeline, RunCheck, RunEnsure, RunLock, RunBegin, RunEnd, RunUnlock, SetRun
  <2>0. UNCHANGED <<meta, ws, delLock, pc, tgt, todo, faults>>
    OBVIOUS
  <2>1. skeleton' \subseteq Projects
    BY DEF TypeOK
  <2>2. status' \in [Projects -> {"idle", "running"}]
    BY DEF TypeOK
  <2>3. runLock' \in [Projects -> SUBSET (Instances \X Roles)]
    <3>1. \/ UNCHANGED runLock
          \/ runLock' = [runLock EXCEPT ![p] = {<<i, "pipeline">>}]
          \/ runLock' = [runLock EXCEPT ![p] = @ \ {<<i, "pipeline">>}]
      OBVIOUS
    <3> QED
      BY <3>1 DEF TypeOK
  <2>4. run' \in [Instances -> [Projects -> RunSteps]]
    <3>1. PICK s \in RunSteps : run' = [run EXCEPT ![i][p] = s]
      BY Zenon
    <3> QED
      BY <3>1 DEF TypeOK
  <2> QED
    BY <2>0, <2>1, <2>2, <2>3, <2>4 DEF TypeOK
<1>13. ASSUME NEW i \in Instances, Crash(i) \/ Quit(i) PROVE TypeOK'
  <2> USE <1>13 DEF Crash, Quit, Die
  <2>0. UNCHANGED <<meta, ws, skeleton, status, tgt>>
    OBVIOUS
  <2>1. delLock' \in [Projects -> SUBSET Instances]
    BY DEF TypeOK, Finish, Release
  <2>2. runLock' \in [Projects -> SUBSET (Instances \X Roles)]
    BY DEF TypeOK, Finish, Release
  <2>3. pc' \in [Instances -> Steps]
    BY DEF TypeOK, Goto, Finish
  <2>4. todo' \in [Instances -> SUBSET Projects]
    BY DEF TypeOK
  <2>5. run' \in [Instances -> [Projects -> RunSteps]]
    BY DEF TypeOK
  <2>6. faults' \in 0..MaxFaults
    BY DEF TypeOK, Fault
  <2> QED
    BY <2>0, <2>1, <2>2, <2>3, <2>4, <2>5, <2>6 DEF TypeOK
<1> QED
  BY <1>0, <1>1, <1>2, <1>3, <1>4, <1>5, <1>6, <1>7, <1>8, <1>9, <1>10, <1>11, <1>12, <1>13
  DEF Next, Recover

\* The type invariant of the project lifecycle.
THEOREM TypeCorrect == Spec => []TypeOK
<1>1. Init => TypeOK
  BY FaultsAssumption, IsolatedAssumption, Names DEF Init, TypeOK
<1>2. QED
  BY <1>1, TypeStep, PTL DEF Spec

-----------------------------------------------------------------------------
(* The locks *)

\* The end of an operation gives back exactly the locks it held.
LEMMA FinishLocks ==
    ASSUME TypeOK, LockInv, NEW i \in Instances, Finish(i), UNCHANGED <<run, tgt>>
    PROVE  LockInv'
  BY DEF TypeOK, LockInv, Finish, Release, Goto, Operations, MovingSteps, DeleteSteps,
         RestoreSteps, PurgeSteps

\* A step from one place inside an operation to another keeps both locks.
LEMMA MoveOnLocks ==
    ASSUME TypeOK, LockInv, NEW i \in Instances, NEW s \in MovingSteps,
           pc[i] \in MovingSteps, Goto(i, s), UNCHANGED <<delLock, runLock, run, tgt>>
    PROVE  LockInv'
  BY DEF TypeOK, LockInv, Goto

\* So does a step of the recovery outside its locked sections.
LEMMA FreeLocks ==
    ASSUME TypeOK, LockInv, NEW i \in Instances,
           NEW s \in Steps \ (Operations \cup MovingSteps \cup {"wiping"}),
           pc[i] \notin Operations \cup MovingSteps \cup {"wiping"}, Goto(i, s),
           \A j \in Instances : j # i => tgt'[j] = tgt[j],
           UNCHANGED <<delLock, runLock, run>>
    PROVE  LockInv'
  BY DEF TypeOK, LockInv, Goto

\* The lock discipline is kept by every step.
LEMMA LockStep == TypeOK /\ LockInv /\ [Next]_vars => LockInv'
<1> SUFFICES ASSUME TypeOK, LockInv, [Next]_vars PROVE LockInv'
  OBVIOUS
<1> USE Names
<1> DEFINE Held == Operations \cup MovingSteps \cup {"wiping"}
<1>a. /\ \A s \in {"down", "idle", "create", "ensure", "load", "unlist", "clear", "mark", "moves", "move", "wipes", "wipe", "metas",
                   "metawipe"} : s \in Steps \ Held
      /\ \A s \in {"delete_meta", "delete_ws", "delete_back", "restore_ws", "restore_meta",
                   "restore_back", "purge_ws", "purge_meta", "purge_back", "purge_rmws",
                   "purge_rmmeta"} : s \in MovingSteps
  BY DEF Operations, MovingSteps, DeleteSteps, RestoreSteps, PurgeSteps
<1>0. CASE UNCHANGED vars
  BY <1>0 DEF vars, LockInv
<1>1. ASSUME NEW i \in Instances, Start(i) PROVE LockInv'
  BY <1>1, <1>a, FreeLocks DEF Start
<1>2. ASSUME NEW i \in Instances, NEW p \in Projects, RecoverProject(i, p) PROVE LockInv'
  <2>1. CASE MarkInterrupted(i, p)
    BY <2>1 DEF MarkInterrupted, LockInv
  <2>a. ASSUME UNCHANGED <<delLock, runLock, run, pc, tgt>> PROVE LockInv'
    BY <2>a DEF LockInv
  <2>b. ASSUME tgt' = [tgt EXCEPT ![i] = p] PROVE \A j \in Instances : j # i => tgt'[j] = tgt[j]
    BY <2>b DEF TypeOK
  <2>2. CASE InspectEntry(i, p)
    BY <2>2, <2>a, <2>b, <1>a, FreeLocks DEF InspectEntry
  <2>3. CASE InspectQuarantine(i, p)
    BY <2>3, <2>a, <2>b, <1>a, FreeLocks DEF InspectQuarantine
  <2>4. CASE InspectMetadata(i, p)
    BY <2>4, <2>a, <2>b, <1>a, FreeLocks DEF InspectMetadata
  <2> QED
    BY <1>2, <2>1, <2>2, <2>3, <2>4 DEF RecoverProject
<1>3. ASSUME NEW i \in Instances, MarkDone(i) \/ MovesDone(i) \/ WipesDone(i) \/ RecoveryDone(i)
      PROVE  LockInv'
  BY <1>3, <1>a, FreeLocks DEF MarkDone, MovesDone, WipesDone, RecoveryDone
<1>4. ASSUME NEW i \in Instances, FinishSoftDelete(i) \/ RemoveMetadata(i) PROVE LockInv'
  BY <1>4, <1>a, FreeLocks DEF FinishSoftDelete, RemoveMetadata
<1>5. ASSUME NEW i \in Instances, LockQuarantine(i) PROVE LockInv'
  BY <1>5 DEF TypeOK, LockInv, LockQuarantine, Goto, Operations, MovingSteps, DeleteSteps,
              RestoreSteps, PurgeSteps
<1>6. ASSUME NEW i \in Instances, RemoveQuarantine(i) PROVE LockInv'
  <2>1. CASE UNCHANGED <<pc, delLock, runLock, run, tgt>>
    BY <2>1 DEF LockInv
  <2>2. CASE Finish(i) /\ UNCHANGED <<run, tgt>>
    BY <2>2, FinishLocks
  <2>3. CASE Goto(i, "wipes") /\ Release(i, tgt[i]) /\ UNCHANGED <<run, tgt>>
    BY <2>3 DEF TypeOK, LockInv, Release, Goto, Operations, MovingSteps, DeleteSteps,
                RestoreSteps, PurgeSteps
  <2> QED
    BY <1>6, <2>1, <2>2, <2>3 DEF RemoveQuarantine
<1>7. ASSUME NEW i \in Instances, Create(i) PROVE LockInv'
  <2>1. CASE DoCreate(i)
    <3>1. /\ pc[i] \in {"create", "ensure", "load", "unlist", "clear"}
          /\ UNCHANGED <<delLock, runLock, run, tgt>>
      BY <2>1 DEF DoCreate, CreateMetadata, CreateEnsure, CreateLoad, CreateUnlist, CreateClear
    <3>2. UNCHANGED pc \/ \E s \in {"ensure", "load", "unlist", "clear", "idle"} : Goto(i, s)
      BY <2>1 DEF DoCreate, CreateMetadata, CreateEnsure, CreateLoad, CreateUnlist, CreateClear
    <3>3. CASE UNCHANGED pc
      BY <3>1, <3>3 DEF LockInv
    <3> QED
      BY <3>1, <3>2, <3>3, <1>a, FreeLocks
  <2>2. ASSUME NEW p \in Projects, CreateWorkspace(i, p) PROVE LockInv'
    BY <2>2, <1>a, FreeLocks DEF CreateWorkspace, TypeOK
  <2> QED
    BY <1>7, <2>1, <2>2 DEF Create
<1>8. ASSUME NEW i \in Instances, NEW p \in Projects, NEW o \in Operations, Begin(i, p, o)
      PROVE  LockInv'
  BY <1>8 DEF TypeOK, LockInv, Begin, Goto, Operations, MovingSteps, DeleteSteps, RestoreSteps,
              PurgeSteps
<1>9. ASSUME NEW i \in Instances, TakeRunLock(i) PROVE LockInv'
  <2> DEFINE p == tgt[i]
  <2>1. CASE runLock[p] = {} /\ Allowed(pc[i], p)
    <3>1. PICK s \in MovingSteps : Goto(i, s)
      BY <1>9, <2>1, <1>a DEF TakeRunLock, FirstStep, Operations
    <3>2. /\ pc[i] \in Operations /\ runLock' = [runLock EXCEPT ![p] = {<<i, "store">>}]
          /\ UNCHANGED <<delLock, run, tgt>>
      BY <1>9, <2>1 DEF TakeRunLock
    <3>3. pc[i] \notin MovingSteps
      BY <3>2 DEF Operations, MovingSteps, DeleteSteps, RestoreSteps, PurgeSteps
    <3>4. /\ \A j \in Instances : pc'[j] = IF j = i THEN s ELSE pc[j]
          /\ \A q \in Projects : runLock'[q] = IF q = p THEN {<<i, "store">>} ELSE runLock[q]
          /\ p \in Projects
      BY <3>1, <3>2 DEF TypeOK, Goto
    <3>5. pc[i] \notin MovingSteps \cup {"wiping"} /\ s \notin Operations
      BY <3>2, <3>3 DEF Operations, MovingSteps, DeleteSteps, RestoreSteps, PurgeSteps
    <3> QED
      BY <2>1, <3>2, <3>4, <3>5 DEF LockInv
  <2>2. CASE ~ (runLock[p] = {} /\ Allowed(pc[i], p))
    BY <1>9, <2>2, FinishLocks DEF TakeRunLock
  <2> QED
    BY <2>1, <2>2
<1>10. ASSUME NEW i \in Instances, DoDelete(i) PROVE LockInv'
  BY <1>10, <1>a, FinishLocks, MoveOnLocks
  DEF DoDelete, DeleteMetadata, DeleteWorkspace, DeleteRollback
<1>11. ASSUME NEW i \in Instances, DoRestore(i) PROVE LockInv'
  BY <1>11, <1>a, FinishLocks, MoveOnLocks
  DEF DoRestore, RestoreWorkspace, RestoreMetadata, RestoreRollback
<1>12. ASSUME NEW i \in Instances, DoPurge(i) PROVE LockInv'
  <2>1. CASE PurgeWorkspace(i) \/ PurgeMetadata(i) \/ PurgeRollback(i) \/ PurgeRemoveMetadata(i)
    BY <2>1, <1>a, FinishLocks, MoveOnLocks
    DEF PurgeWorkspace, PurgeMetadata, PurgeRollback, PurgeRemoveMetadata
  <2>2. CASE PurgeRemoveWorkspace(i)
    <3>1. CASE UNCHANGED <<pc, delLock, runLock, run, tgt>>
      BY <3>1 DEF LockInv
    <3> QED
      BY <2>2, <3>1, <1>a, FinishLocks, MoveOnLocks DEF PurgeRemoveWorkspace
  <2> QED
    BY <1>12, <2>1, <2>2 DEF DoPurge
<1>13. ASSUME NEW i \in Instances, NEW p \in Projects, Pipeline(i, p) PROVE LockInv'
  <2>0. UNCHANGED <<delLock, pc, tgt>>
    BY <1>13 DEF Pipeline, RunCheck, RunEnsure, RunLock, RunBegin, RunEnd
  <2> DEFINE Owns(s) == s \in {"locked", "on"}
  <2>1. ASSUME NEW s \in RunSteps, SetRun(i, p, s)
        PROVE  \A j \in Instances, q \in Projects :
                   run'[j][q] = IF j = i /\ q = p THEN s ELSE run[j][q]
    BY <2>1 DEF SetRun, TypeOK
  <2>2. ASSUME UNCHANGED runLock, NEW s \in RunSteps, SetRun(i, p, s), Owns(s) <=> Owns(run[i][p])
        PROVE  LockInv'
    BY <2>0, <2>1, <2>2 DEF LockInv
  <2>3. ASSUME runLock[p] = {}, runLock' = [runLock EXCEPT ![p] = {<<i, "pipeline">>}],
               SetRun(i, p, "locked")
        PROVE  LockInv'
    BY <2>0, <2>1, <2>3 DEF LockInv, TypeOK
  <2>4. ASSUME RunUnlock(i, p) PROVE LockInv'
    BY <2>0, <2>1, <2>4 DEF LockInv, TypeOK, RunUnlock
  <2> QED
    BY <1>13, <2>2, <2>3, <2>4 DEF Pipeline, RunCheck, RunEnsure, RunLock, RunBegin, RunEnd
<1>14. ASSUME NEW i \in Instances, Crash(i) \/ Quit(i) PROVE LockInv'
  BY <1>14 DEF TypeOK, LockInv, Crash, Quit, Die, Goto, Roles, Operations, MovingSteps,
               DeleteSteps, RestoreSteps, PurgeSteps
<1> QED
  BY <1>0, <1>1, <1>2, <1>3, <1>4, <1>5, <1>6, <1>7, <1>8, <1>9, <1>10, <1>11, <1>12, <1>13, <1>14
  DEF Next, Recover

\* While a run is in progress nobody moves its project, and no project is
\* moved, or run, twice at a time: TLC checks RunExcludesMoves on two
\* instances, this is every number of them, whenever they start.
THEOREM Exclusion == Spec => []RunExcludesMoves
<1>1. Init => LockInv
  BY DEF Init, LockInv, Operations, MovingSteps, DeleteSteps, RestoreSteps, PurgeSteps
<1>2. TypeOK /\ LockInv => RunExcludesMoves
  <2> SUFFICES ASSUME TypeOK, LockInv, NEW p \in Projects, NEW i \in Instances, NEW j \in Instances
               PROVE  /\ run[i][p] = "on" => ~ (pc[j] \in MovingSteps /\ tgt[j] = p)
                      /\ run[i][p] = "on" /\ run[j][p] = "on" => i = j
                      /\ pc[i] \in MovingSteps /\ pc[j] \in MovingSteps /\ tgt[i] = p /\ tgt[j] = p => i = j
    BY DEF RunExcludesMoves
  <2>1. /\ \A a, b \in runLock[p] : a = b
        /\ <<j, "store">> \in runLock[p] <=> pc[j] \in MovingSteps /\ tgt[j] = p
        /\ <<i, "store">> \in runLock[p] <=> pc[i] \in MovingSteps /\ tgt[i] = p
        /\ run[i][p] = "on" => <<i, "pipeline">> \in runLock[p]
        /\ run[j][p] = "on" => <<j, "pipeline">> \in runLock[p]
    BY DEF LockInv
  <2> QED
    BY <2>1
<1>3. QED
  BY <1>1, <1>2, LockStep, TypeCorrect, PTL DEF Spec

-----------------------------------------------------------------------------
(* Where the two halves are *)

\* A thread that moves a project is alone with it: it holds both locks, and
\* the project has been created.
LEMMA MovesAlone ==
    ASSUME LockInv, PlaceInv, NEW i \in Instances, pc[i] \in MovingSteps, tgt[i] \in Projects
    PROVE  /\ meta[tgt[i]] # "absent"
           /\ \A j \in Instances : j # i /\ tgt[j] = tgt[i] =>
                  pc[j] \notin MovingSteps \cup {"create", "wiping"}
           /\ \A j \in Instances : run[j][tgt[i]] # "on"
<1>1. meta[tgt[i]] # "absent"
  BY DEF PlaceInv, StepPlace, Listed, MovingSteps, DeleteSteps, RestoreSteps, PurgeSteps
<1>2. /\ \A a, b \in delLock[tgt[i]] : a = b
      /\ \A a, b \in runLock[tgt[i]] : a = b
      /\ i \in delLock[tgt[i]] /\ <<i, "store">> \in runLock[tgt[i]]
  BY DEF LockInv
<1>3. ASSUME NEW j \in Instances, j # i, tgt[j] = tgt[i] PROVE pc[j] \notin MovingSteps \cup {"wiping"}
  <2> j \notin delLock[tgt[i]]
    BY <1>2, <1>3
  <2> QED
    BY <1>3 DEF LockInv
<1>4. \A j \in Instances : tgt[j] = tgt[i] => pc[j] # "create"
  BY <1>1 DEF PlaceInv, StepPlace
<1>5. ASSUME NEW j \in Instances PROVE run[j][tgt[i]] # "on"
  <2> <<j, "pipeline">> \notin runLock[tgt[i]]
    BY <1>2
  <2> QED
    BY DEF LockInv
<1> QED
  BY <1>1, <1>3, <1>4, <1>5

\* A step of such a thread touches the halves of its own project only: it is
\* enough that it leaves them where its next step expects them.
LEMMA MovePlace ==
    ASSUME TypeOK, LockInv, PlaceInv, NEW i \in Instances, pc[i] \in MovingSteps,
           NEW s \in Steps \ CreateSteps, Goto(i, s), UNCHANGED <<tgt, run>>,
           \A q \in Projects : q # tgt[i] => meta'[q] = meta[q] /\ ws'[q] = ws[q],
           meta'[tgt[i]] # "absent", StepPlace(i)'
    PROVE  PlaceInv'
<1> tgt[i] \in Projects
  BY DEF TypeOK
<1>1. /\ \A j \in Instances : j # i => pc'[j] = pc[j]
      /\ pc'[i] \notin CreateSteps
  BY DEF TypeOK, Goto
<1>2. ASSUME NEW j \in Instances, j # i PROVE StepPlace(j)'
  <2> StepPlace(j) /\ tgt[j] \in Projects
    BY DEF PlaceInv, TypeOK
  <2>1. CASE tgt[j] = tgt[i]
    <3>1. pc[j] \notin MovingSteps \cup {"create", "wiping"}
      BY <1>2, <2>1, MovesAlone
    <3> QED
      BY <1>1, <1>2, <2>1, <3>1 DEF StepPlace, MovingSteps, DeleteSteps, RestoreSteps, PurgeSteps
  <2>2. CASE tgt[j] # tgt[i]
    BY <1>1, <1>2, <2>2 DEF StepPlace, Listed
  <2> QED
    BY <2>1, <2>2
<1>3. ASSUME NEW q \in Projects PROVE ProjectPlace(q)'
  <2> ProjectPlace(q)
    BY DEF PlaceInv
  <2>1. CASE q = tgt[i]
    BY <1>1, <2>1, MovesAlone DEF ProjectPlace
  <2>2. CASE q # tgt[i]
    BY <1>1, <2>2 DEF ProjectPlace
  <2> QED
    BY <2>1, <2>2
<1> QED
  BY <1>2, <1>3 DEF PlaceInv

\* A step that leaves both halves of every project alone.
LEMMA StillPlace ==
    ASSUME TypeOK, PlaceInv, NEW i \in Instances, NEW s \in Steps, Goto(i, s),
           s \in CreateSteps => pc[i] \in CreateSteps /\ tgt'[i] = tgt[i],
           \A j \in Instances : j # i => tgt'[j] = tgt[j], UNCHANGED <<meta, ws, run>>,
           StepPlace(i)'
    PROVE  PlaceInv'
<1>1. \A j \in Instances : pc'[j] = IF j = i THEN s ELSE pc[j]
  BY DEF TypeOK, Goto
<1>2. ASSUME NEW j \in Instances, j # i PROVE StepPlace(j)'
  BY <1>1, <1>2 DEF PlaceInv, StepPlace, Listed
<1>3. ASSUME NEW q \in Projects PROVE ProjectPlace(q)'
  BY <1>1 DEF PlaceInv, ProjectPlace
<1> QED
  BY <1>2, <1>3 DEF PlaceInv

\* The halves of a project are where the steps that move it expect them.
LEMMA PlaceStep == TypeOK /\ LockInv /\ PlaceInv /\ [Next]_vars => PlaceInv'
<1> SUFFICES ASSUME TypeOK, LockInv, PlaceInv, [Next]_vars PROVE PlaceInv'
  OBVIOUS
<1> USE Names
<1>t. TypeOK'
  BY TypeStep
<1>m. \A s \in {"delete_meta", "delete_ws", "delete_back", "restore_ws", "restore_meta",
                "restore_back", "purge_ws", "purge_meta", "purge_back", "purge_rmws",
                "purge_rmmeta"} : s \in MovingSteps
  BY DEF MovingSteps, DeleteSteps, RestoreSteps, PurgeSteps
<1>c. /\ {"down", "idle", "mark", "moves", "move", "wipes", "wipe", "wiping", "metas", "metawipe"}
             \cap CreateSteps = {}
      /\ (Operations \cup MovingSteps) \cap CreateSteps = {}
      /\ CreateSteps = {"create", "ensure", "load", "unlist", "clear"}
      /\ FreshSteps = {"ensure", "load", "unlist"}
  BY DEF CreateSteps, FreshSteps, Operations, MovingSteps, DeleteSteps, RestoreSteps, PurgeSteps
<1>0. CASE UNCHANGED vars
  BY <1>0 DEF vars, PlaceInv, StepPlace, ProjectPlace, Listed
<1>i. ASSUME NEW i \in Instances, Goto(i, "idle") PROVE StepPlace(i)'
  BY <1>i, <1>c DEF TypeOK, Goto, StepPlace, RestoreSteps
<1>1. ASSUME NEW i \in Instances, Start(i) PROVE PlaceInv'
  <2> StepPlace(i)'
    BY <1>1, <1>c DEF Start, TypeOK, Goto, StepPlace, RestoreSteps
  <2> QED
    BY <1>1, <1>c, StillPlace DEF Start
<1>2. ASSUME NEW i \in Instances, NEW p \in Projects, RecoverProject(i, p) PROVE PlaceInv'
  <2>1. CASE MarkInterrupted(i, p)
    BY <2>1 DEF MarkInterrupted, PlaceInv, StepPlace, ProjectPlace, Listed
  <2>a. ASSUME UNCHANGED <<meta, ws, run, pc, tgt>> PROVE PlaceInv'
    BY <2>a DEF PlaceInv, StepPlace, ProjectPlace, Listed
  <2>b. ASSUME NEW s \in {"move", "wipe", "metawipe"}, Goto(i, s), tgt' = [tgt EXCEPT ![i] = p],
               UNCHANGED <<meta, ws, run>>, meta[p] # "absent"
        PROVE  PlaceInv'
    <3>1. StepPlace(i)'
      BY <2>b, <1>c DEF TypeOK, Goto, StepPlace, RestoreSteps
    <3>2. \A j \in Instances : j # i => tgt'[j] = tgt[j]
      BY <2>b DEF TypeOK
    <3> QED
      BY <2>b, <3>1, <3>2, <1>c, StillPlace
  <2>2. CASE InspectEntry(i, p)
    BY <2>2, <2>a, <2>b DEF InspectEntry, Listed
  <2>3. CASE InspectQuarantine(i, p)
    <3> ws[p] = "purging" => meta[p] # "absent"
      BY DEF PlaceInv, ProjectPlace
    <3> QED
      BY <2>3, <2>a, <2>b DEF InspectQuarantine
  <2>4. CASE InspectMetadata(i, p)
    BY <2>4, <2>a, <2>b DEF InspectMetadata
  <2> QED
    BY <1>2, <2>1, <2>2, <2>3, <2>4 DEF RecoverProject
<1>3. ASSUME NEW i \in Instances, MarkDone(i) \/ MovesDone(i) \/ WipesDone(i) \/ RecoveryDone(i)
      PROVE  PlaceInv'
  <2> USE <1>3 DEF MarkDone, MovesDone, WipesDone, RecoveryDone
  <2>1. PICK s \in {"moves", "metas", "wipes", "idle"} : Goto(i, s)
    OBVIOUS
  <2>2. StepPlace(i)'
    BY <2>1, <1>c DEF TypeOK, Goto, StepPlace, RestoreSteps
  <2> QED
    BY <2>1, <2>2, <1>c, StillPlace
<1>4. ASSUME NEW i \in Instances, FinishSoftDelete(i) PROVE PlaceInv'
  <2>1. CASE UNCHANGED ws
    <3>1. PICK s \in {"moves", "idle"} : Goto(i, s)
      BY <1>4 DEF FinishSoftDelete
    <3>2. StepPlace(i)'
      BY <3>1, <1>c DEF TypeOK, Goto, StepPlace, RestoreSteps
    <3> QED
      BY <1>4, <2>1, <3>1, <3>2, <1>c, StillPlace DEF FinishSoftDelete
  <2>2. CASE delLock[tgt[i]] = {} /\ ws' = [ws EXCEPT ![tgt[i]] = "trash"] /\ Goto(i, "moves")
    <3>1. /\ UNCHANGED <<meta, tgt, run>> /\ meta[tgt[i]] # "absent" /\ tgt[i] \in Projects
          /\ pc[i] = "move"
      BY <1>4 DEF FinishSoftDelete, PlaceInv, StepPlace, TypeOK
    <3>2. \A j \in Instances : pc'[j] = IF j = i THEN "moves" ELSE pc[j]
      BY <2>2 DEF Goto, TypeOK
    <3>3. \A q \in Projects : ws'[q] = IF q = tgt[i] THEN "trash" ELSE ws[q]
      BY <2>2 DEF TypeOK
    <3>4. ASSUME NEW j \in Instances PROVE StepPlace(j)'
      <4> StepPlace(j) /\ tgt[j] \in Projects
        BY DEF PlaceInv, TypeOK
      <4> QED
        BY <1>c, <3>1, <3>2, <3>3 DEF StepPlace, Listed, RestoreSteps
    <3>5. ASSUME NEW q \in Projects PROVE ProjectPlace(q)'
      BY <1>c, <3>1, <3>2, <3>3 DEF PlaceInv, ProjectPlace
    <3> QED
      BY <3>4, <3>5 DEF PlaceInv
  <2> QED
    BY <1>4, <2>1, <2>2 DEF FinishSoftDelete
<1>5. ASSUME NEW i \in Instances, RemoveMetadata(i) PROVE PlaceInv'
  <2> tgt[i] \in Projects
    BY DEF TypeOK
  <2>1. CASE UNCHANGED meta
    <3>1. PICK s \in {"metas", "idle"} : Goto(i, s)
      BY <1>5 DEF RemoveMetadata
    <3>2. StepPlace(i)'
      BY <3>1, <1>c DEF TypeOK, Goto, StepPlace, RestoreSteps
    <3> QED
      BY <1>5, <2>1, <3>1, <3>2, <1>c, StillPlace DEF RemoveMetadata
  <2>2. CASE /\ delLock[tgt[i]] = {} /\ meta[tgt[i]] = "purging"
             /\ meta' = [meta EXCEPT ![tgt[i]] = "gone"] /\ Goto(i, "metas")
    <3>1. UNCHANGED <<ws, tgt, run>>
      BY <1>5 DEF RemoveMetadata
    <3>2. \A j \in Instances : pc'[j] = IF j = i THEN "metas" ELSE pc[j]
      BY <2>2 DEF Goto, TypeOK
    <3>3. \A q \in Projects : meta'[q] = IF q = tgt[i] THEN "gone" ELSE meta[q]
      BY <2>2 DEF TypeOK
    <3>4. \A j \in Instances : tgt[j] = tgt[i] => pc[j] \notin MovingSteps
      BY <2>2 DEF LockInv
    <3>5. ASSUME NEW j \in Instances PROVE StepPlace(j)'
      <4> StepPlace(j) /\ tgt[j] \in Projects
        BY DEF PlaceInv, TypeOK
      <4>1. CASE tgt[j] = tgt[i]
        BY <1>c, <2>2, <3>1, <3>2, <3>3, <3>4, <4>1
        DEF StepPlace, MovingSteps, DeleteSteps, RestoreSteps, PurgeSteps
      <4>2. CASE tgt[j] # tgt[i]
        BY <3>1, <3>2, <3>3, <4>2 DEF StepPlace, Listed, RestoreSteps
      <4> QED
        BY <4>1, <4>2
    <3>6. ASSUME NEW q \in Projects PROVE ProjectPlace(q)'
      BY <1>c, <2>2, <3>1, <3>2, <3>3 DEF PlaceInv, ProjectPlace
    <3> QED
      BY <3>5, <3>6 DEF PlaceInv
  <2> QED
    BY <1>5, <2>1, <2>2 DEF RemoveMetadata
<1>6. ASSUME NEW i \in Instances, LockQuarantine(i) PROVE PlaceInv'
  <2>1. PICK s \in {"wiping", "wipes"} : Goto(i, s)
    BY <1>6 DEF LockQuarantine
  <2>2. StepPlace(i)'
    BY <1>c, <1>6, <2>1 DEF LockQuarantine, TypeOK, Goto, PlaceInv, StepPlace, RestoreSteps
  <2> QED
    BY <1>6, <2>1, <2>2, <1>c, StillPlace DEF LockQuarantine
<1>7. ASSUME NEW i \in Instances, RemoveQuarantine(i) PROVE PlaceInv'
  <2>1. /\ UNCHANGED <<meta, tgt, run>> /\ meta[tgt[i]] # "absent" /\ tgt[i] \in Projects
        /\ pc[i] = "wiping"
    BY <1>7 DEF RemoveQuarantine, PlaceInv, StepPlace, TypeOK
  <2>2. PICK s \in {"wiping", "wipes", "idle"} :
            \A j \in Instances : pc'[j] = IF j = i THEN s ELSE pc[j]
    BY <1>7, <2>1 DEF RemoveQuarantine, Goto, Finish, TypeOK
  <2>3. \A q \in Projects : q # tgt[i] => ws'[q] = ws[q]
    BY <1>7 DEF RemoveQuarantine, RemoveMarker, RemoveRest, TypeOK
  <2>4. \A j \in Instances : j # i /\ tgt[j] = tgt[i] => pc[j] \notin MovingSteps
    <3> \A a, b \in delLock[tgt[i]] : a = b
      BY <2>1 DEF LockInv
    <3> i \in delLock[tgt[i]]
      BY <2>1 DEF LockInv
    <3> QED
      BY <2>1 DEF LockInv
  <2>5. ASSUME NEW j \in Instances PROVE StepPlace(j)'
    <3> StepPlace(j) /\ tgt[j] \in Projects
      BY DEF PlaceInv, TypeOK
    <3>1. CASE tgt[j] = tgt[i]
      BY <1>c, <2>1, <2>2, <2>4, <3>1
      DEF StepPlace, MovingSteps, DeleteSteps, RestoreSteps, PurgeSteps
    <3>2. CASE tgt[j] # tgt[i]
      BY <2>1, <2>2, <2>3, <3>2 DEF StepPlace, Listed, RestoreSteps
    <3> QED
      BY <3>1, <3>2
  <2>6. ASSUME NEW q \in Projects PROVE ProjectPlace(q)'
    <3> ProjectPlace(q)
      BY DEF PlaceInv
    <3> QED
      BY <1>c, <2>1, <2>2, <2>3 DEF ProjectPlace
  <2> QED
    BY <2>5, <2>6 DEF PlaceInv
<1>8. ASSUME NEW i \in Instances, DoCreate(i) PROVE PlaceInv'
  <2> DEFINE p == tgt[i]
  <2>1. /\ UNCHANGED <<tgt, run>> /\ pc[i] \in CreateSteps /\ p \in Projects /\ p \in Isolated
        /\ pc[i] = "create" => meta[p] = "absent" /\ ws[p] = "home"
        /\ pc[i] # "create" => meta[p] # "absent"
    BY <1>8, <1>c DEF DoCreate, CreateMetadata, CreateEnsure, CreateLoad, CreateUnlist, CreateClear,
                      PlaceInv, StepPlace, TypeOK
  <2>2. PICK s \in CreateSteps \cup {"idle"} : \A j \in Instances : pc'[j] = IF j = i THEN s ELSE pc[j]
    <3>1. CASE UNCHANGED pc
      BY <2>1, <3>1 DEF TypeOK
    <3>2. CASE ~ UNCHANGED pc
      <4>1. PICK s \in {"ensure", "load", "unlist", "clear", "idle"} : Goto(i, s)
        BY <1>8, <3>2 DEF DoCreate, CreateMetadata, CreateEnsure, CreateLoad, CreateUnlist, CreateClear
      <4> QED
        BY <1>c, <4>1 DEF Goto, TypeOK
    <3> QED
      BY <3>1, <3>2
  <2>3. \A q \in Projects : q # p => meta'[q] = meta[q] /\ ws'[q] = ws[q]
    BY <1>8 DEF DoCreate, CreateMetadata, CreateEnsure, CreateLoad, CreateUnlist, CreateClear, TypeOK
  <2>4. /\ meta'[p] # meta[p] => \/ meta[p] = "absent" /\ meta'[p] = "live"
                                 \/ meta[p] = "live" /\ meta'[p] = "undone"
        /\ ws'[p] # ws[p] => ws'[p] \in {"absent", "undone"} /\ (ws'[p] = "undone" => meta'[p] # "absent")
        /\ s # "idle" => s # "create" /\ meta'[p] # "absent"
    <3>1. CASE CreateMetadata(i)
      BY <2>1, <2>2, <3>1 DEF CreateMetadata, Goto, TypeOK
    <3>2. CASE CreateEnsure(i) \/ CreateLoad(i)
      BY <2>1, <2>2, <3>2 DEF CreateEnsure, CreateLoad, Goto, TypeOK
    <3>3. CASE CreateUnlist(i)
      BY <2>1, <2>2, <3>3 DEF CreateUnlist, Goto, TypeOK
    <3>4. CASE CreateClear(i)
      BY <2>1, <2>2, <3>4 DEF CreateClear, Goto, TypeOK
    <3> QED
      BY <1>8, <3>1, <3>2, <3>3, <3>4 DEF DoCreate
  <2>5. ASSUME NEW j \in Instances, j # i PROVE StepPlace(j)'
    <3> StepPlace(j) /\ tgt[j] \in Projects
      BY DEF PlaceInv, TypeOK
    <3>1. CASE tgt[j] = p
      <4>1. pc[j] # "create"
        BY <1>c, <2>1, <2>5, <3>1 DEF PlaceInv, ProjectPlace
      <4> QED
        BY <1>c, <2>1, <2>2, <2>4, <2>5, <3>1, <4>1 DEF StepPlace, Listed
    <3>2. CASE tgt[j] # p
      BY <2>1, <2>2, <2>3, <2>5, <3>2 DEF StepPlace, Listed
    <3> QED
      BY <3>1, <3>2
  <2>6. StepPlace(i)'
    BY <1>c, <2>1, <2>2, <2>4 DEF StepPlace, RestoreSteps
  <2>7. ASSUME NEW q \in Projects PROVE ProjectPlace(q)'
    <3>1. ProjectPlace(q)
      BY DEF PlaceInv
    <3>2. CASE q = p
      BY <1>c, <2>1, <2>2, <2>4, <3>1, <3>2 DEF ProjectPlace
    <3>3. CASE q # p
      BY <1>c, <2>1, <2>2, <2>3, <3>1, <3>3 DEF ProjectPlace
    <3> QED
      BY <3>2, <3>3
  <2> QED
    BY <2>5, <2>6, <2>7 DEF PlaceInv
<1>9. ASSUME NEW i \in Instances, NEW p \in Projects, CreateWorkspace(i, p) PROVE PlaceInv'
  <2>1. /\ UNCHANGED <<meta, run>> /\ p \in Isolated /\ meta[p] = "absent" /\ ws[p] = "absent"
        /\ pc[i] = "idle"
    BY <1>9 DEF CreateWorkspace
  <2>2. \A j \in Instances : /\ pc'[j] = IF j = i THEN "create" ELSE pc[j]
                             /\ tgt'[j] = IF j = i THEN p ELSE tgt[j]
    BY <1>9 DEF CreateWorkspace, Goto, TypeOK
  <2>3. \A q \in Projects : ws'[q] = IF q = p THEN "home" ELSE ws[q]
    BY <1>9 DEF CreateWorkspace, TypeOK
  <2>4. ASSUME NEW j \in Instances PROVE StepPlace(j)'
    <3> StepPlace(j) /\ tgt[j] \in Projects
      BY DEF PlaceInv, TypeOK
    <3>1. CASE j = i
      BY <1>c, <2>1, <2>2, <2>3, <3>1 DEF StepPlace, RestoreSteps
    <3>2. CASE j # i
      BY <1>c, <2>1, <2>2, <2>3, <3>2 DEF StepPlace, Listed
    <3> QED
      BY <3>1, <3>2
  <2>5. ASSUME NEW q \in Projects PROVE ProjectPlace(q)'
    <3>1. ProjectPlace(q)
      BY DEF PlaceInv
    <3>2. \A j \in Instances : pc[j] \in CreateSteps => tgt[j] # p
      BY <1>c, <2>1 DEF PlaceInv, StepPlace
    <3> QED
      BY <1>c, <2>1, <2>2, <2>3, <3>1, <3>2 DEF ProjectPlace
  <2> QED
    BY <2>4, <2>5 DEF PlaceInv
<1>10. ASSUME NEW i \in Instances, NEW p \in Projects, NEW o \in Operations, Begin(i, p, o)
       PROVE  PlaceInv'
  <2>1. o \in Steps \ CreateSteps
    BY <1>c DEF Steps, Operations
  <2>2. StepPlace(i)'
    BY <1>10, <1>c DEF Begin, TypeOK, Goto, StepPlace, RestoreSteps, Operations
  <2>3. \A j \in Instances : j # i => tgt'[j] = tgt[j]
    BY <1>10 DEF Begin, TypeOK
  <2> QED
    BY <1>10, <2>1, <2>2, <2>3, <1>c, StillPlace DEF Begin
<1>11. ASSUME NEW i \in Instances, TakeRunLock(i) PROVE PlaceInv'
  <2> DEFINE p == tgt[i]
  <2>0. UNCHANGED <<meta, ws, tgt, run>> /\ p \in Projects
    BY <1>11 DEF TakeRunLock, TypeOK
  <2>1. CASE Finish(i)
    BY <2>0, <2>1, <1>i, <1>c, StillPlace DEF Finish
  <2>2. CASE ~ Finish(i)
    <3>1. /\ Goto(i, FirstStep(pc[i], p)) /\ Allowed(pc[i], p) /\ pc[i] \in Operations
      BY <1>11, <2>2 DEF TakeRunLock
    <3>2. /\ FirstStep(pc[i], p) \in Steps \ CreateSteps
          /\ pc'[i] = FirstStep(pc[i], p)
      BY <1>c, <3>1 DEF FirstStep, Operations, Goto, TypeOK
    <3>3. StepPlace(i)'
      BY <1>c, <2>0, <3>1, <3>2 DEF FirstStep, Allowed, Operations, StepPlace, RestoreSteps, Listed
    <3> QED
      BY <2>0, <3>1, <3>2, <3>3, <1>c, StillPlace
  <2> QED
    BY <2>1, <2>2
<1>12. ASSUME NEW i \in Instances, DoDelete(i) PROVE PlaceInv'
  <2> USE DEF DoDelete, DeleteMetadata, DeleteWorkspace, DeleteRollback
  <2>1. UNCHANGED <<tgt, run>> /\ tgt[i] \in Projects /\ pc[i] \in MovingSteps
    BY <1>12, <1>m DEF TypeOK
  <2>2. \A q \in Projects : q # tgt[i] => meta'[q] = meta[q] /\ ws'[q] = ws[q]
    BY <1>12 DEF TypeOK
  <2>3. meta[tgt[i]] # "absent" /\ meta'[tgt[i]] # "absent"
    BY <1>12, <2>1, MovesAlone DEF TypeOK
  <2>4. CASE Finish(i)
    BY <2>1, <2>2, <2>3, <2>4, <1>i, <1>c, MovePlace DEF Finish
  <2>5. CASE Goto(i, "delete_ws") /\ tgt[i] \in Isolated /\ meta'[tgt[i]] = "trash"
    <3> StepPlace(i)'
      BY <2>1, <2>5, <1>c DEF StepPlace, Goto, TypeOK, RestoreSteps
    <3> QED
      BY <2>1, <2>2, <2>3, <2>5, <1>c, MovePlace
  <2>6. CASE Goto(i, "delete_back") /\ pc[i] = "delete_ws" /\ UNCHANGED meta
    <3> StepPlace(i)'
      BY <2>1, <2>6, <1>c DEF PlaceInv, StepPlace, Goto, TypeOK, RestoreSteps
    <3> QED
      BY <2>1, <2>2, <2>3, <2>6, <1>c, MovePlace
  <2> QED
    BY <1>12, <2>1, <2>4, <2>5, <2>6 DEF TypeOK
<1>13. ASSUME NEW i \in Instances, DoRestore(i) PROVE PlaceInv'
  <2> USE DEF DoRestore, RestoreWorkspace, RestoreMetadata, RestoreRollback
  <2>1. UNCHANGED <<tgt, run>> /\ tgt[i] \in Projects /\ pc[i] \in MovingSteps
    BY <1>13, <1>m DEF TypeOK
  <2>2. \A q \in Projects : q # tgt[i] => meta'[q] = meta[q] /\ ws'[q] = ws[q]
    BY <1>13 DEF TypeOK
  <2>3. meta[tgt[i]] # "absent" /\ meta'[tgt[i]] # "absent"
    BY <1>13, <2>1, MovesAlone DEF TypeOK
  <2>4. CASE Finish(i)
    BY <2>1, <2>2, <2>3, <2>4, <1>i, <1>c, MovePlace DEF Finish
  <2>5. CASE Goto(i, "restore_meta") /\ pc[i] = "restore_ws" /\ UNCHANGED meta
    <3> StepPlace(i)'
      BY <2>1, <2>5, <1>c DEF PlaceInv, StepPlace, Goto, TypeOK, RestoreSteps, Listed
    <3> QED
      BY <2>1, <2>2, <2>3, <2>5, <1>c, MovePlace
  <2>6. CASE Goto(i, "restore_back") /\ pc[i] = "restore_meta" /\ tgt[i] \in Isolated /\ UNCHANGED meta
    <3> StepPlace(i)'
      BY <2>1, <2>6, <1>c DEF PlaceInv, StepPlace, Goto, TypeOK, RestoreSteps, Listed
    <3> QED
      BY <2>1, <2>2, <2>3, <2>6, <1>c, MovePlace
  <2> QED
    BY <1>13, <2>4, <2>5, <2>6
<1>14. ASSUME NEW i \in Instances, DoPurge(i) PROVE PlaceInv'
  <2> USE DEF DoPurge, PurgeWorkspace, PurgeMetadata, PurgeRollback, PurgeRemoveWorkspace,
              PurgeRemoveMetadata
  <2>1. UNCHANGED <<tgt, run>> /\ tgt[i] \in Projects /\ pc[i] \in MovingSteps
    BY <1>14, <1>m DEF TypeOK
  <2>2. \A q \in Projects : q # tgt[i] => meta'[q] = meta[q] /\ ws'[q] = ws[q]
    BY <1>14 DEF TypeOK, RemoveMarker, RemoveRest
  <2>3. meta[tgt[i]] # "absent" /\ meta'[tgt[i]] # "absent"
    BY <1>14, <2>1, MovesAlone DEF TypeOK
  <2>4. CASE Finish(i)
    BY <2>1, <2>2, <2>3, <2>4, <1>i, <1>c, MovePlace DEF Finish
  <2>5. CASE Goto(i, "purge_meta") /\ pc[i] = "purge_ws" /\ UNCHANGED meta
    <3> StepPlace(i)'
      BY <2>1, <2>5, <1>c DEF PlaceInv, StepPlace, Goto, TypeOK, RestoreSteps, Listed
    <3> QED
      BY <2>1, <2>2, <2>3, <2>5, <1>c, MovePlace
  <2>6. CASE Goto(i, "purge_back") /\ pc[i] = "purge_meta" /\ tgt[i] \in Isolated /\ UNCHANGED meta
    <3> StepPlace(i)'
      BY <2>1, <2>6, <1>c DEF PlaceInv, StepPlace, Goto, TypeOK, RestoreSteps, Listed
    <3> QED
      BY <2>1, <2>2, <2>3, <2>6, <1>c, MovePlace
  <2>7. CASE /\ Goto(i, IF tgt[i] \in Isolated THEN "purge_rmws" ELSE "purge_rmmeta")
             /\ meta' = [meta EXCEPT ![tgt[i]] = "purging"]
    <3> StepPlace(i)'
      BY <2>1, <2>7, <1>c DEF StepPlace, Goto, TypeOK, RestoreSteps
    <3> QED
      BY <2>1, <2>2, <2>3, <2>7, <1>c, MovePlace
  <2>8. CASE Goto(i, "purge_rmmeta") /\ pc[i] = "purge_rmws" /\ UNCHANGED meta
    <3> StepPlace(i)'
      BY <2>1, <2>8, <1>c DEF PlaceInv, StepPlace, Goto, TypeOK, RestoreSteps
    <3> QED
      BY <2>1, <2>2, <2>3, <2>8, <1>c, MovePlace
  <2>9. CASE pc[i] = "purge_rmws" /\ RemoveMarker(tgt[i]) /\ UNCHANGED <<pc, meta>>
    <3>1. Goto(i, "purge_rmws")
      BY <2>9 DEF Goto, TypeOK
    <3>2. StepPlace(i)'
      BY <2>1, <2>9 DEF PlaceInv, StepPlace, RestoreSteps
    <3> QED
      BY <2>1, <2>2, <2>3, <3>1, <3>2, <1>c, MovePlace
  <2> QED
    BY <1>14, <2>4, <2>5, <2>6, <2>7, <2>8, <2>9
<1>15. ASSUME NEW i \in Instances, NEW p \in Projects, Pipeline(i, p) PROVE PlaceInv'
  <2> USE DEF Pipeline, RunCheck, RunEnsure, RunLock, RunBegin, RunEnd, RunUnlock, SetRun
  <2>1. UNCHANGED <<meta, ws, pc, tgt>>
    BY <1>15
  <2>2. ASSUME NEW j \in Instances, NEW q \in Projects, run'[j][q] = "on"
        PROVE  run[j][q] = "on" \/ (q = p /\ meta[p] = "live")
    <3>1. ASSUME NEW s \in RunSteps, SetRun(i, p, s), s = "on" => meta[p] = "live"
          PROVE  run[j][q] = "on" \/ (q = p /\ meta[p] = "live")
      BY <2>2, <3>1 DEF TypeOK
    <3>2. CASE RunBegin(i, p)
      BY <3>1, <3>2
    <3>3. CASE RunCheck(i, p) \/ RunEnsure(i, p) \/ RunLock(i, p) \/ RunEnd(i, p)
      BY <3>1, <3>3
    <3> QED
      BY <1>15, <3>2, <3>3
  <2>3. \A j \in Instances : StepPlace(j)'
    BY <2>1 DEF PlaceInv, StepPlace, Listed
  <2>4. \A q \in Projects : ProjectPlace(q)'
    BY <2>1, <2>2 DEF PlaceInv, ProjectPlace
  <2> QED
    BY <2>3, <2>4 DEF PlaceInv
<1>16. ASSUME NEW i \in Instances, Crash(i) \/ Quit(i) PROVE PlaceInv'
  <2> USE DEF Crash, Quit, Die
  <2>1. UNCHANGED <<meta, ws, tgt>>
    BY <1>16
  <2>2. \A j \in Instances : pc'[j] = IF j = i THEN "down" ELSE pc[j]
    BY <1>16 DEF Goto, TypeOK
  <2>3. ASSUME NEW j \in Instances, NEW q \in Projects, run'[j][q] = "on"
        PROVE  run[j][q] = "on"
    <3>1. run' = [run EXCEPT ![i] = [r \in Projects |-> "off"]]
      BY <1>16
    <3> QED
      BY <2>3, <3>1 DEF TypeOK
  <2>4. \A j \in Instances : StepPlace(j)'
    BY <1>c, <2>1, <2>2 DEF PlaceInv, StepPlace, Listed, RestoreSteps
  <2>5. \A q \in Projects : ProjectPlace(q)'
    BY <1>c, <2>1, <2>2, <2>3 DEF PlaceInv, ProjectPlace
  <2> QED
    BY <2>4, <2>5 DEF PlaceInv
<1> QED
  BY <1>0, <1>1, <1>2, <1>3, <1>4, <1>5, <1>6, <1>7, <1>8, <1>9, <1>10, <1>11, <1>12, <1>13, <1>14,
     <1>15, <1>16
  DEF Next, Recover, Create

\* The inductive invariant of the project lifecycle: types, locks and the
\* places of the documents, for instances that start whenever they like.  A
\* run in progress has its document listed, unless a create that failed late
\* took it back.
THEOREM LifecycleCorrect == Spec => []LifecycleInv
<1>1. Init => LockInv /\ PlaceInv
  BY DEF Init, LockInv, PlaceInv, StepPlace, ProjectPlace, CreateSteps,
         FreshSteps, Operations, MovingSteps, DeleteSteps, RestoreSteps, PurgeSteps
<1>2. QED
  BY <1>1, LockStep, PlaceStep, TypeCorrect, PTL DEF Spec, LifecycleInv

-----------------------------------------------------------------------------
(* Legacy workspaces *)

\* No step takes a legacy workspace from its place, and no recovery has one
\* on its list.
LEMMA LegacyStep == TypeOK /\ PlaceInv /\ LegacyInv /\ [Next]_vars => LegacyInv'
<1> SUFFICES ASSUME TypeOK, PlaceInv, LegacyInv, [Next]_vars PROVE LegacyInv'
  OBVIOUS
<1> USE IsolatedAssumption
<1>0. CASE UNCHANGED vars
  BY <1>0 DEF vars, LegacyInv, LegacyStays
<1>a. ASSUME NEW i \in Instances, NEW s, Goto(i, s), s \notin {"moves", "move"},
             \A j \in Instances : j # i => todo'[j] = todo[j] /\ tgt'[j] = tgt[j],
             LegacyStays'
      PROVE  LegacyInv'
  BY <1>a DEF LegacyInv, TypeOK, Goto
<1>h. ASSUME NEW i \in Instances, tgt[i] \in Isolated \/ ws[tgt[i]] # "home",
             NEW w, ws' = [ws EXCEPT ![tgt[i]] = w]
      PROVE  LegacyStays'
  BY <1>h DEF LegacyInv, LegacyStays, TypeOK
<1>u. ASSUME UNCHANGED ws PROVE LegacyStays'
  BY <1>u DEF LegacyInv, LegacyStays
<1>1. ASSUME NEW i \in Instances, Start(i) PROVE LegacyInv'
  BY <1>1, <1>a, <1>u DEF Start, TypeOK
<1>2. ASSUME NEW i \in Instances, NEW p \in Projects, RecoverProject(i, p) PROVE LegacyInv'
  <2>1. CASE MarkInterrupted(i, p)
    BY <2>1, <1>u DEF MarkInterrupted, LegacyInv, TypeOK
  <2>2. CASE InspectEntry(i, p)
    BY <2>2, <1>u DEF InspectEntry, LegacyInv, TypeOK, Goto
  <2>3. CASE InspectQuarantine(i, p) \/ InspectMetadata(i, p)
    <3> USE <2>3 DEF InspectQuarantine, InspectMetadata
    <3>1. pc'[i] \notin {"moves", "move"} /\ \A j \in Instances : j # i => pc'[j] = pc[j]
      BY DEF TypeOK, Goto
    <3>2. \A j \in Instances : j # i => todo'[j] = todo[j] /\ tgt'[j] = tgt[j]
      BY DEF TypeOK
    <3> QED
      BY <3>1, <3>2, <1>u DEF LegacyInv
  <2> QED
    BY <1>2, <2>1, <2>2, <2>3 DEF RecoverProject
<1>3. ASSUME NEW i \in Instances, MarkDone(i) PROVE LegacyInv'
  BY <1>3, <1>u DEF MarkDone, LegacyInv, TypeOK, Goto
<1>4. ASSUME NEW i \in Instances, MovesDone(i) \/ WipesDone(i) \/ RecoveryDone(i) PROVE LegacyInv'
  <2>1. /\ UNCHANGED <<ws, tgt>>
        /\ \A j \in Instances : j # i => todo'[j] = todo[j]
    BY <1>4 DEF MovesDone, WipesDone, RecoveryDone, TypeOK
  <2>2. PICK s \in {"wipes", "metas", "idle"} : Goto(i, s)
    BY <1>4 DEF MovesDone, WipesDone, RecoveryDone
  <2> QED
    BY <2>1, <2>2, <1>a, <1>u
<1>5. ASSUME NEW i \in Instances, FinishSoftDelete(i) PROVE LegacyInv'
  <2>1. pc[i] = "move" /\ tgt[i] \in Isolated
    BY <1>5 DEF FinishSoftDelete, LegacyInv
  <2>2. LegacyStays'
    BY <1>5, <2>1, <1>h, <1>u DEF FinishSoftDelete
  <2>3. UNCHANGED tgt /\ \A j \in Instances : j # i => pc'[j] = pc[j] /\ todo'[j] = todo[j]
    BY <1>5 DEF FinishSoftDelete, Goto, TypeOK
  <2>4. pc'[i] \in {"moves", "idle"} /\ todo'[i] \subseteq todo[i]
    BY <1>5 DEF FinishSoftDelete, Goto, TypeOK
  <2> QED
    BY <2>1, <2>2, <2>3, <2>4 DEF LegacyInv
<1>6. ASSUME NEW i \in Instances, LockQuarantine(i) PROVE LegacyInv'
  BY <1>6, <1>a, <1>u DEF LockQuarantine
<1>7. ASSUME NEW i \in Instances, RemoveQuarantine(i) PROVE LegacyInv'
  <2>1. LegacyStays'
    BY <1>7, <1>h, <1>u DEF RemoveQuarantine, RemoveMarker, RemoveRest
  <2>2. UNCHANGED tgt /\ \A j \in Instances : j # i => pc'[j] = pc[j] /\ todo'[j] = todo[j]
    BY <1>7 DEF RemoveQuarantine, Goto, Finish, TypeOK
  <2>3. pc'[i] \notin {"moves", "move"}
    BY <1>7 DEF RemoveQuarantine, Goto, Finish, TypeOK
  <2> QED
    BY <2>1, <2>2, <2>3 DEF LegacyInv
<1>8. ASSUME NEW i \in Instances, RemoveMetadata(i) PROVE LegacyInv'
  <2>1. /\ UNCHANGED <<ws, tgt>>
        /\ \A j \in Instances : j # i => todo'[j] = todo[j]
    BY <1>8 DEF RemoveMetadata, TypeOK
  <2>2. PICK s \in {"metas", "idle"} : Goto(i, s)
    BY <1>8 DEF RemoveMetadata
  <2> QED
    BY <2>1, <2>2, <1>a, <1>u
<1>9. ASSUME NEW i \in Instances, DoCreate(i) PROVE LegacyInv'
  <2> USE DEF DoCreate, CreateMetadata, CreateEnsure, CreateLoad, CreateUnlist, CreateClear
  <2>1. tgt[i] \in Isolated
    BY <1>9 DEF PlaceInv, StepPlace, FreshSteps
  <2>2. LegacyStays'
    <3> \A q \in Projects : q # tgt[i] => ws'[q] = ws[q]
      BY <1>9 DEF TypeOK
    <3> QED
      BY <2>1 DEF LegacyInv, LegacyStays
  <2>3. UNCHANGED <<tgt, todo>> /\ \A j \in Instances : j # i => pc'[j] = pc[j]
    BY <1>9 DEF Goto, TypeOK
  <2>4. pc'[i] \notin {"moves", "move"}
    BY <1>9 DEF Goto, TypeOK
  <2> QED
    BY <2>2, <2>3, <2>4 DEF LegacyInv
<1>10. ASSUME NEW i \in Instances, NEW p \in Projects, CreateWorkspace(i, p) PROVE LegacyInv'
  BY <1>10, <1>a DEF CreateWorkspace, LegacyInv, LegacyStays, TypeOK
<1>11. ASSUME NEW i \in Instances, NEW p \in Projects, NEW o \in Operations, Begin(i, p, o)
       PROVE  LegacyInv'
  BY <1>11, <1>a, <1>u DEF Begin, Operations, TypeOK
<1>12. ASSUME NEW i \in Instances, TakeRunLock(i) PROVE LegacyInv'
  <2> FirstStep(pc[i], tgt[i]) \notin {"moves", "move"}
    BY <1>12 DEF TakeRunLock, FirstStep, Operations
  <2> QED
    BY <1>12, <1>a, <1>u DEF TakeRunLock, Finish
<1>13. ASSUME NEW i \in Instances, DoDelete(i) \/ DoRestore(i) \/ DoPurge(i) PROVE LegacyInv'
  <2> USE DEF DoDelete, DeleteMetadata, DeleteWorkspace, DeleteRollback,
              DoRestore, RestoreWorkspace, RestoreMetadata, RestoreRollback,
              DoPurge, PurgeWorkspace, PurgeMetadata, PurgeRollback, PurgeRemoveWorkspace,
              PurgeRemoveMetadata
  <2>1. UNCHANGED <<tgt, todo>>
    BY <1>13
  <2>2. \A j \in Instances : pc'[j] # pc[j] => j = i /\ pc'[j] \notin {"moves", "move"}
    BY <1>13 DEF Goto, Finish, TypeOK
  <2>3. LegacyStays'
    <3>1. CASE UNCHANGED ws
      BY <3>1, <1>u
    <3>2. CASE ~ UNCHANGED ws
      <4>1. pc[i] \in {"delete_ws", "restore_ws", "restore_back", "purge_ws", "purge_back",
                       "purge_rmws"}
        BY <1>13, <3>2
      <4>2. tgt[i] \in Isolated
        BY <4>1 DEF PlaceInv, StepPlace
      <4>3. \A q \in Projects : q # tgt[i] => ws'[q] = ws[q]
        BY <1>13 DEF RemoveMarker, RemoveRest, TypeOK
      <4> QED
        BY <4>2, <4>3 DEF LegacyInv, LegacyStays
    <3> QED
      BY <3>1, <3>2
  <2> QED
    BY <2>1, <2>2, <2>3 DEF LegacyInv
<1>14. ASSUME NEW i \in Instances, NEW p \in Projects, Pipeline(i, p) PROVE LegacyInv'
  <2> UNCHANGED <<ws, pc, tgt, todo>>
    BY <1>14 DEF Pipeline, RunCheck, RunEnsure, RunLock, RunBegin, RunEnd
  <2> QED
    BY <1>u DEF LegacyInv
<1>15. ASSUME NEW i \in Instances, Crash(i) \/ Quit(i) PROVE LegacyInv'
  BY <1>15, <1>a, <1>u DEF Crash, Quit, Die, TypeOK
<1> QED
  BY <1>0, <1>1, <1>2, <1>3, <1>4, <1>5, <1>6, <1>7, <1>8, <1>9, <1>10, <1>11, <1>12, <1>13, <1>14,
     <1>15
  DEF Next, Recover, Create

\* A legacy workspace never leaves its place, whatever is deleted, restored,
\* purged or recovered, by any number of instances started at any time.
THEOREM Legacy == Spec => []LegacyStays
<1>1. Init => LegacyInv
  BY IsolatedAssumption DEF Init, LegacyInv, LegacyStays
<1>2. LegacyInv => LegacyStays
  BY DEF LegacyInv
<1>3. LifecycleInv => TypeOK /\ PlaceInv
  BY DEF LifecycleInv
<1>4. QED
  BY <1>1, <1>2, <1>3, LegacyStep, LifecycleCorrect, PTL DEF Spec

-----------------------------------------------------------------------------
(* Instances that start one at a time *)

\* While one instance recovers, the others have not begun, or have nothing in
\* hand, provided nobody starts while somebody is inside an operation.
LEMMA AloneStep == ~ Overlap /\ TypeOK /\ AloneInv /\ [Next]_vars => AloneInv'
<1> SUFFICES ASSUME ~ Overlap, TypeOK, AloneInv, [Next]_vars PROVE AloneInv'
  OBVIOUS
<1> DEFINE Rest == {"down", "idle"}
<1> DEFINE Busy == CreateSteps \cup Operations \cup MovingSteps
<1>a. Recovering \cap (Rest \cup Busy) = {}
  BY DEF Recovering, CreateSteps, FreshSteps, Operations, MovingSteps, DeleteSteps, RestoreSteps,
         PurgeSteps
<1>b. Busy \cap Rest = {}
  BY DEF CreateSteps, FreshSteps, Operations, MovingSteps, DeleteSteps, RestoreSteps, PurgeSteps
<1>0. CASE UNCHANGED pc
  BY <1>0 DEF AloneInv
<1>r. ASSUME NEW i \in Instances, NEW s \in Rest, Goto(i, s) PROVE AloneInv'
  BY <1>a, <1>r DEF AloneInv, TypeOK, Goto
<1>s. ASSUME NEW i \in Instances, NEW s \in Recovering, Goto(i, s), pc[i] \in Recovering
      PROVE  AloneInv'
  BY <1>a, <1>s DEF AloneInv, TypeOK, Goto
<1>m. ASSUME NEW i \in Instances, NEW s \in Busy, Goto(i, s), pc[i] \in Busy PROVE AloneInv'
  BY <1>a, <1>b, <1>m DEF AloneInv, TypeOK, Goto
<1>q. ASSUME NEW i \in Instances, NEW s \in Operations \cup {"create"}, Goto(i, s), Quiet
      PROVE  AloneInv'
  BY <1>a, <1>q DEF AloneInv, TypeOK, Goto, Quiet, CreateSteps
<1>1. ASSUME NEW i \in Instances, Start(i) PROVE AloneInv'
  BY <1>1, <1>a DEF Start, AloneInv, TypeOK, Goto
<1>2. ASSUME NEW i \in Instances, Recover(i) PROVE AloneInv'
  <2> USE DEF Recover, RecoverProject, MarkInterrupted, InspectEntry, InspectQuarantine,
              InspectMetadata, MarkDone, FinishSoftDelete, MovesDone, LockQuarantine,
              RemoveQuarantine, WipesDone, RemoveMetadata, RecoveryDone, Finish
  <2>1. pc[i] \in Recovering
    BY <1>2 DEF Recovering
  <2>2. \/ UNCHANGED pc
        \/ \E s \in Recovering \cup {"idle"} : Goto(i, s)
    BY <1>2 DEF Recovering
  <2> QED
    BY <2>1, <2>2, <1>0, <1>r, <1>s
<1>3. ASSUME NEW i \in Instances, Create(i) PROVE AloneInv'
  <2>1. ASSUME NEW p \in Projects, CreateWorkspace(i, p) PROVE AloneInv'
    BY <2>1, <1>q DEF CreateWorkspace
  <2>2. CASE DoCreate(i)
    <3> USE DEF DoCreate, CreateMetadata, CreateEnsure, CreateLoad, CreateUnlist, CreateClear
    <3>1. pc[i] \in CreateSteps
      BY <2>2 DEF CreateSteps, FreshSteps
    <3>2. \/ UNCHANGED pc
          \/ \E s \in CreateSteps \cup {"idle"} : Goto(i, s)
      BY <2>2 DEF CreateSteps, FreshSteps
    <3> QED
      BY <3>1, <3>2, <1>0, <1>r, <1>m
  <2> QED
    BY <1>3, <2>1, <2>2 DEF Create
<1>4. ASSUME NEW i \in Instances, NEW p \in Projects, NEW o \in Operations, Begin(i, p, o)
      PROVE  AloneInv'
  BY <1>4, <1>q DEF Begin
<1>5. ASSUME NEW i \in Instances, TakeRunLock(i) PROVE AloneInv'
  <2> FirstStep(pc[i], tgt[i]) \in MovingSteps /\ pc[i] \in Operations
    BY <1>5 DEF TakeRunLock, FirstStep, Operations, MovingSteps, DeleteSteps, RestoreSteps, PurgeSteps
  <2> QED
    BY <1>5, <1>r, <1>m DEF TakeRunLock, Finish
<1>6. ASSUME NEW i \in Instances, DoDelete(i) \/ DoRestore(i) \/ DoPurge(i) PROVE AloneInv'
  <2> USE DEF DoDelete, DeleteMetadata, DeleteWorkspace, DeleteRollback,
              DoRestore, RestoreWorkspace, RestoreMetadata, RestoreRollback,
              DoPurge, PurgeWorkspace, PurgeMetadata, PurgeRollback, PurgeRemoveWorkspace,
              PurgeRemoveMetadata, Finish
  <2>1. pc[i] \in MovingSteps
    BY <1>6 DEF MovingSteps, DeleteSteps, RestoreSteps, PurgeSteps
  <2>2. \/ UNCHANGED pc
        \/ \E s \in MovingSteps \cup {"idle"} : Goto(i, s)
    BY <1>6 DEF MovingSteps, DeleteSteps, RestoreSteps, PurgeSteps
  <2> QED
    BY <2>1, <2>2, <1>0, <1>r, <1>m
<1>7. ASSUME NEW i \in Instances, NEW p \in Projects, Pipeline(i, p) PROVE AloneInv'
  BY <1>7, <1>0 DEF Pipeline, RunCheck, RunEnsure, RunLock, RunBegin, RunEnd
<1>8. ASSUME NEW i \in Instances, Crash(i) \/ Quit(i) PROVE AloneInv'
  BY <1>8, <1>r DEF Crash, Quit, Die
<1> QED
  BY <1>0, <1>1, <1>2, <1>3, <1>4, <1>5, <1>6, <1>7, <1>8 DEF Next, vars

\* Each project that is listed, or whose creation is being rolled back, has
\* its workspace, and each thread finds the one it is
\* about to rename.
HalvesInv == LiveIsWhole /\ UndoneIsWhole /\ \A i \in Instances : StepWhole(i)

\* A thread that moves a project disturbs no other project.
LEMMA MoveWhole ==
    ASSUME LifecycleInv, AloneInv, HalvesInv, NEW i \in Instances, pc[i] \in MovingSteps,
           NEW s, s # "move", Goto(i, s), UNCHANGED tgt,
           \A q \in Projects : q # tgt[i] => meta'[q] = meta[q] /\ ws'[q] = ws[q],
           meta'[tgt[i]] \in {"live", "undone"} => Whole(tgt[i])',
           s \in DeleteSteps \cup {"restore_meta"} => Whole(tgt[i])'
    PROVE  HalvesInv'
<1> TypeOK /\ LockInv /\ PlaceInv
  BY DEF LifecycleInv
<1>1. \A j \in Instances : pc'[j] = IF j = i THEN s ELSE pc[j]
  BY DEF TypeOK, Goto
<1>2. \A j \in Instances : j # i => pc[j] # "move"
  BY DEF AloneInv, Recovering, MovingSteps, DeleteSteps, RestoreSteps, PurgeSteps
<1>3. LiveIsWhole' /\ UndoneIsWhole'
  BY DEF HalvesInv, LiveIsWhole, UndoneIsWhole, Whole, MarkerAtHome
<1>4. ASSUME NEW j \in Instances, j # i PROVE StepWhole(j)'
  <2>1. StepWhole(j) /\ tgt[j] \in Projects /\ tgt[i] \in Projects
    BY DEF HalvesInv, TypeOK
  <2>2. tgt[j] = tgt[i] => pc[j] \notin MovingSteps
    BY <1>4, <2>1, MovesAlone
  <2> QED
    BY <1>1, <1>2, <1>4, <2>1, <2>2
    DEF StepWhole, Whole, MarkerAtHome, MovingSteps, DeleteSteps, RestoreSteps
<1>5. StepWhole(i)'
  BY <1>1 DEF StepWhole
<1> QED
  BY <1>3, <1>4, <1>5 DEF HalvesInv

\* So does a step that leaves both halves of every project alone.
LEMMA StillWhole ==
    ASSUME TypeOK, HalvesInv, NEW i \in Instances, NEW s, Goto(i, s), UNCHANGED <<meta, ws>>,
           \A j \in Instances : j # i => tgt'[j] = tgt[j], StepWhole(i)'
    PROVE  HalvesInv'
<1>1. \A j \in Instances : j # i => pc'[j] = pc[j]
  BY DEF TypeOK, Goto
<1>2. \A j \in Instances : j # i => StepWhole(j)'
  BY <1>1 DEF HalvesInv, StepWhole, Whole, MarkerAtHome, Listed
<1> QED
  BY <1>2 DEF HalvesInv, LiveIsWhole, UndoneIsWhole, Whole, MarkerAtHome

\* Delete moves the document away before the workspace, restore brings it
\* back after the workspace, and only entries of the trash are recovered.
LEMMA HalvesStep == LifecycleInv /\ AloneInv /\ HalvesInv /\ [Next]_vars => HalvesInv'
<1> SUFFICES ASSUME LifecycleInv, AloneInv, HalvesInv, [Next]_vars PROVE HalvesInv'
  OBVIOUS
<1> TypeOK /\ LockInv /\ PlaceInv
  BY DEF LifecycleInv
<1>m. \A s \in {"delete_meta", "delete_ws", "delete_back", "restore_ws", "restore_meta",
                "restore_back", "purge_ws", "purge_meta", "purge_back", "purge_rmws",
                "purge_rmmeta"} : s \in MovingSteps
  BY DEF MovingSteps, DeleteSteps, RestoreSteps, PurgeSteps
<1>s. ASSUME NEW i \in Instances, NEW s, Goto(i, s),
             s \notin DeleteSteps \cup {"restore_meta", "move"}
      PROVE  StepWhole(i)'
  BY <1>s DEF StepWhole, TypeOK, Goto
<1>0. CASE UNCHANGED <<meta, ws, pc, tgt>>
  BY <1>0 DEF HalvesInv, LiveIsWhole, UndoneIsWhole, StepWhole, Whole, MarkerAtHome, Listed
<1>1. ASSUME NEW i \in Instances, Start(i) PROVE HalvesInv'
  BY <1>1, <1>s, StillWhole DEF Start, DeleteSteps
<1>2. ASSUME NEW i \in Instances, NEW p \in Projects, RecoverProject(i, p) PROVE HalvesInv'
  <2>a. tgt' = [tgt EXCEPT ![i] = p] => \A j \in Instances : j # i => tgt'[j] = tgt[j]
    BY DEF TypeOK
  <2>1. CASE MarkInterrupted(i, p)
    BY <2>1, <1>0 DEF MarkInterrupted
  <2>2. CASE InspectEntry(i, p)
    <3>1. CASE Listed(p) /\ ws[p] = "home"
      <4>1. StepWhole(i)'
        BY <2>2, <3>1 DEF InspectEntry, StepWhole, Listed, TypeOK, Goto, DeleteSteps
      <4> QED
        BY <2>2, <2>a, <3>1, <4>1, StillWhole DEF InspectEntry
    <3> QED
      BY <2>2, <3>1, <1>0 DEF InspectEntry
  <2>3. CASE InspectQuarantine(i, p)
    BY <2>3, <2>a, <1>0, <1>s, StillWhole DEF InspectQuarantine, DeleteSteps
  <2>4. CASE InspectMetadata(i, p)
    BY <2>4, <2>a, <1>0, <1>s, StillWhole DEF InspectMetadata, DeleteSteps
  <2> QED
    BY <1>2, <2>1, <2>2, <2>3, <2>4 DEF RecoverProject
<1>3. ASSUME NEW i \in Instances,
             MarkDone(i) \/ MovesDone(i) \/ WipesDone(i) \/ RecoveryDone(i) \/ LockQuarantine(i)
      PROVE  HalvesInv'
  <2>1. PICK s \in {"moves", "metas", "wipes", "idle", "wiping"} : Goto(i, s)
    BY <1>3 DEF MarkDone, MovesDone, WipesDone, RecoveryDone, LockQuarantine
  <2>2. UNCHANGED <<meta, ws, tgt>>
    BY <1>3 DEF MarkDone, MovesDone, WipesDone, RecoveryDone, LockQuarantine
  <2> QED
    BY <2>1, <2>2, <1>s, StillWhole DEF DeleteSteps
<1>4. ASSUME NEW i \in Instances, FinishSoftDelete(i) \/ RemoveQuarantine(i) \/ RemoveMetadata(i)
      PROVE  HalvesInv'
  <2> USE DEF FinishSoftDelete, RemoveQuarantine, RemoveMetadata
  <2>1. /\ UNCHANGED tgt /\ tgt[i] \in Projects
        /\ pc[i] \in Recovering /\ pc[i] \notin DeleteSteps \cup {"restore_meta"}
    BY <1>4 DEF TypeOK, Recovering, DeleteSteps
  <2>2. \A j \in Instances : j # i => pc'[j] = pc[j] /\ pc[j] \in {"down", "idle"}
    BY <1>4, <2>1 DEF AloneInv, TypeOK, Goto, Finish
  <2>3. pc'[i] \in {"moves", "idle", "wiping", "wipes", "metas"}
    BY <1>4 DEF TypeOK, Goto, Finish
  <2>4. \A j \in Instances : StepWhole(j)'
    BY <2>2, <2>3 DEF StepWhole, DeleteSteps
  <2>5. \A q \in Projects : \/ meta'[q] = meta[q] /\ ws'[q] = ws[q]
                            \/ meta'[q] = "gone"
                            \/ meta'[q] = meta[q] /\ meta[q] \notin {"live", "undone"}
                            \/ meta'[q] = meta[q] /\ ws[q] \notin {"home", "undone"}
    BY <1>4 DEF RemoveMarker, RemoveRest, TypeOK, HalvesInv, StepWhole, Listed
  <2>6. LiveIsWhole' /\ UndoneIsWhole'
    <3> SUFFICES ASSUME NEW q \in Projects, meta'[q] \in {"live", "undone"} PROVE Whole(q)'
      BY DEF LiveIsWhole, UndoneIsWhole
    <3>1. CASE q \notin Isolated
      BY <3>1 DEF Whole, MarkerAtHome
    <3>2. CASE q \in Isolated
      BY <2>5, <3>2 DEF HalvesInv, LiveIsWhole, UndoneIsWhole, Whole, MarkerAtHome
    <3> QED
      BY <3>1, <3>2
  <2> QED
    BY <2>4, <2>6 DEF HalvesInv
<1>5. ASSUME NEW i \in Instances, DoCreate(i) PROVE HalvesInv'
  <2> DEFINE p == tgt[i]
  <2>1. /\ UNCHANGED tgt /\ p \in Projects /\ p \in Isolated
        /\ pc[i] = "create" => meta[p] = "absent" /\ ws[p] = "home"
        /\ pc[i] # "create" => meta[p] # "absent"
    BY <1>5 DEF DoCreate, CreateMetadata, CreateEnsure, CreateLoad, CreateUnlist, CreateClear,
                PlaceInv, StepPlace, FreshSteps, TypeOK
  <2>2. /\ \A j \in Instances : j # i => pc'[j] = pc[j]
        /\ pc'[i] \in {"ensure", "load", "unlist", "clear", "idle"}
    <3>1. \/ UNCHANGED pc /\ pc[i] = "clear"
          \/ \E s \in {"ensure", "load", "unlist", "clear", "idle"} : Goto(i, s)
      BY <1>5 DEF DoCreate, CreateMetadata, CreateEnsure, CreateLoad, CreateUnlist, CreateClear
    <3> QED
      BY <3>1 DEF Goto, TypeOK
  <2>3. \A q \in Projects : q # p => meta'[q] = meta[q] /\ ws'[q] = ws[q]
    BY <1>5 DEF DoCreate, CreateMetadata, CreateEnsure, CreateLoad, CreateUnlist, CreateClear, TypeOK
  <2>4. \/ /\ meta[p] = "absent"
           /\ \/ meta'[p] = "live" /\ ws'[p] = "home"
              \/ meta'[p] = "absent"
        \/ /\ meta[p] # "absent" /\ ws'[p] \in {ws[p], "undone"}
           /\ \/ meta'[p] = meta[p]
              \/ meta[p] = "live" /\ meta'[p] = "undone"
    <3>1. CASE CreateMetadata(i)
      BY <2>1, <3>1 DEF CreateMetadata, TypeOK
    <3>2. CASE CreateEnsure(i) \/ CreateLoad(i)
      BY <2>1, <3>2 DEF CreateEnsure, CreateLoad, TypeOK
    <3>3. CASE CreateUnlist(i)
      BY <2>1, <3>3 DEF CreateUnlist, TypeOK
    <3>4. CASE CreateClear(i)
      BY <2>1, <3>4 DEF CreateClear, TypeOK
    <3> QED
      BY <1>5, <3>1, <3>2, <3>3, <3>4 DEF DoCreate
  <2>5. ASSUME NEW j \in Instances, j # i PROVE StepWhole(j)'
    <3>1. StepWhole(j) /\ StepPlace(j) /\ tgt[j] \in Projects
      BY DEF HalvesInv, PlaceInv, TypeOK
    <3>2. CASE tgt[j] = p
      <4>1. pc[j] \in DeleteSteps \cup {"restore_meta", "move"} => meta[p] # "absent"
        BY <3>1, <3>2 DEF StepPlace, Listed, DeleteSteps, RestoreSteps
      <4> QED
        BY <2>1, <2>2, <2>4, <2>5, <3>1, <3>2, <4>1 DEF StepWhole, Whole, MarkerAtHome, Listed
    <3>3. CASE tgt[j] # p
      BY <2>1, <2>2, <2>3, <2>5, <3>1, <3>3 DEF StepWhole, Whole, MarkerAtHome, Listed
    <3> QED
      BY <3>2, <3>3
  <2>6. StepWhole(i)'
    BY <2>2 DEF StepWhole, DeleteSteps
  <2>7. ASSUME NEW q \in Projects, meta'[q] \in {"live", "undone"} PROVE Whole(q)'
    <3>1. meta[q] \in {"live", "undone"} => Whole(q)
      BY DEF HalvesInv, LiveIsWhole, UndoneIsWhole
    <3>2. CASE q = p
      BY <2>4, <2>7, <3>1, <3>2 DEF Whole, MarkerAtHome
    <3>3. CASE q # p
      BY <2>3, <2>7, <3>1, <3>3 DEF Whole, MarkerAtHome
    <3> QED
      BY <3>2, <3>3
  <2> QED
    BY <2>5, <2>6, <2>7 DEF HalvesInv, LiveIsWhole, UndoneIsWhole
<1>6. ASSUME NEW i \in Instances, NEW p \in Projects, CreateWorkspace(i, p) PROVE HalvesInv'
  <2>1. /\ meta' = meta /\ ws[p] = "absent" /\ p \in Isolated
        /\ \A q \in Projects : ws'[q] = IF q = p THEN "home" ELSE ws[q]
        /\ \A j \in Instances : pc'[j] = IF j = i THEN "create" ELSE pc[j]
        /\ \A j \in Instances : j # i => tgt'[j] = tgt[j]
    BY <1>6 DEF CreateWorkspace, Goto, TypeOK
  <2>2. \A j \in Instances : tgt[j] \in Projects
    BY DEF TypeOK
  <2>3. \A j \in Instances : StepWhole(j)'
    BY <2>1, <2>2 DEF HalvesInv, StepWhole, Whole, MarkerAtHome, Listed, DeleteSteps
  <2>4. LiveIsWhole' /\ UndoneIsWhole'
    BY <2>1 DEF HalvesInv, LiveIsWhole, UndoneIsWhole, Whole, MarkerAtHome
  <2> QED
    BY <2>3, <2>4 DEF HalvesInv
<1>7. ASSUME NEW i \in Instances, NEW p \in Projects, NEW o \in Operations, Begin(i, p, o)
      PROVE  HalvesInv'
  <2>1. o \notin DeleteSteps \cup {"restore_meta", "move"}
    BY DEF Operations, DeleteSteps
  <2>2. \A j \in Instances : j # i => tgt'[j] = tgt[j]
    BY <1>7 DEF Begin, TypeOK
  <2> QED
    BY <1>7, <2>1, <2>2, <1>s, StillWhole DEF Begin
<1>8. ASSUME NEW i \in Instances, TakeRunLock(i) PROVE HalvesInv'
  <2>0. UNCHANGED <<meta, ws, tgt>>
    BY <1>8 DEF TakeRunLock
  <2>1. CASE Finish(i)
    BY <2>0, <2>1, <1>s, StillWhole DEF Finish, DeleteSteps
  <2>2. CASE ~ Finish(i)
    <3>1. /\ Goto(i, FirstStep(pc[i], tgt[i])) /\ Allowed(pc[i], tgt[i]) /\ pc[i] \in Operations
      BY <1>8, <2>2 DEF TakeRunLock
    <3>2. StepWhole(i)'
      BY <2>0, <3>1
      DEF FirstStep, Allowed, Operations, Goto, TypeOK, StepWhole, Whole, MarkerAtHome, DeleteSteps
    <3> QED
      BY <2>0, <3>1, <3>2, StillWhole
  <2> QED
    BY <2>1, <2>2
<1>9. ASSUME NEW i \in Instances, DoDelete(i) PROVE HalvesInv'
  <2> USE DEF DoDelete, DeleteMetadata, DeleteWorkspace, DeleteRollback
  <2>1. /\ UNCHANGED tgt /\ tgt[i] \in Projects /\ pc[i] \in MovingSteps
        /\ pc[i] \in {"delete_meta", "delete_ws", "delete_back"}
    BY <1>9, <1>m DEF TypeOK
  <2>2. \A q \in Projects : q # tgt[i] => meta'[q] = meta[q] /\ ws'[q] = ws[q]
    BY <1>9 DEF TypeOK
  <2>3. Whole(tgt[i])
    BY <2>1 DEF HalvesInv, StepWhole, DeleteSteps
  <2>4. CASE Finish(i)
    <3>1. meta'[tgt[i]] \in {"live", "undone"} => Whole(tgt[i])'
      BY <1>9, <2>1, <2>3, <2>4 DEF Whole, MarkerAtHome, PlaceInv, StepPlace, TypeOK
    <3> QED
      BY <2>1, <2>2, <2>4, <3>1, MoveWhole DEF Finish, DeleteSteps
  <2>5. CASE ~ Finish(i)
    <3>1. UNCHANGED ws /\ Whole(tgt[i])'
      BY <1>9, <2>1, <2>3, <2>5 DEF Whole, MarkerAtHome
    <3>2. Goto(i, "delete_ws") \/ Goto(i, "delete_back")
      BY <1>9, <2>5
    <3> QED
      BY <2>1, <2>2, <3>1, <3>2, MoveWhole
  <2> QED
    BY <2>4, <2>5
<1>10. ASSUME NEW i \in Instances, DoRestore(i) PROVE HalvesInv'
  <2> USE DEF DoRestore, RestoreWorkspace, RestoreMetadata, RestoreRollback
  <2>1. UNCHANGED tgt /\ tgt[i] \in Projects /\ pc[i] \in MovingSteps /\ pc[i] \in RestoreSteps
    BY <1>10, <1>m DEF TypeOK, RestoreSteps
  <2>2. \A q \in Projects : q # tgt[i] => meta'[q] = meta[q] /\ ws'[q] = ws[q]
    BY <1>10 DEF TypeOK
  <2>3. Listed(tgt[i])
    BY <2>1 DEF PlaceInv, StepPlace
  <2>4. meta'[tgt[i]] \in {"live", "undone"} => Whole(tgt[i])'
    BY <1>10, <2>1, <2>3 DEF HalvesInv, StepWhole, Whole, MarkerAtHome, Listed, TypeOK
  <2>5. CASE Goto(i, "restore_meta") /\ ws' = [ws EXCEPT ![tgt[i]] = "home"]
    <3> Whole(tgt[i])'
      BY <2>1, <2>5 DEF Whole, MarkerAtHome, TypeOK
    <3> QED
      BY <2>1, <2>2, <2>4, <2>5, MoveWhole
  <2>6. CASE Goto(i, "restore_back") \/ Goto(i, "idle")
    BY <2>1, <2>2, <2>4, <2>6, MoveWhole DEF DeleteSteps
  <2> QED
    BY <1>10, <2>5, <2>6 DEF Finish
<1>11. ASSUME NEW i \in Instances, DoPurge(i) PROVE HalvesInv'
  <2> USE DEF DoPurge, PurgeWorkspace, PurgeMetadata, PurgeRollback, PurgeRemoveWorkspace,
              PurgeRemoveMetadata
  <2>1. UNCHANGED tgt /\ tgt[i] \in Projects /\ pc[i] \in MovingSteps /\ pc[i] \in PurgeSteps
    BY <1>11, <1>m DEF TypeOK, PurgeSteps
  <2>2. \A q \in Projects : q # tgt[i] => meta'[q] = meta[q] /\ ws'[q] = ws[q]
    BY <1>11 DEF TypeOK, RemoveMarker, RemoveRest
  <2>3. Listed(tgt[i])
    BY <2>1 DEF PlaceInv, StepPlace, Listed, PurgeSteps
  <2>4. meta'[tgt[i]] \notin {"live", "undone"}
    BY <1>11, <2>1, <2>3 DEF Listed, TypeOK
  <2>5. pc'[i] \notin DeleteSteps \cup {"restore_meta", "move"} /\ Goto(i, pc'[i])
    BY <1>11, <2>1 DEF Goto, Finish, TypeOK, DeleteSteps
  <2> QED
    BY <2>1, <2>2, <2>4, <2>5, MoveWhole
<1>12. ASSUME NEW i \in Instances, NEW p \in Projects, Pipeline(i, p) PROVE HalvesInv'
  BY <1>12, <1>0 DEF Pipeline, RunCheck, RunEnsure, RunLock, RunBegin, RunEnd
<1>13. ASSUME NEW i \in Instances, Crash(i) \/ Quit(i) PROVE HalvesInv'
  BY <1>13, <1>s, StillWhole DEF Crash, Quit, Die, DeleteSteps
<1> QED
  BY <1>0, <1>1, <1>2, <1>3, <1>4, <1>5, <1>6, <1>7, <1>8, <1>9, <1>10, <1>11, <1>12, <1>13
  DEF Next, Recover, Create, vars

\* One instance acts at a time.
Acts(j) ==
    \/ Start(j) \/ Recover(j) \/ Create(j)
    \/ \E p \in Projects, o \in Operations : Begin(j, p, o)
    \/ TakeRunLock(j) \/ DoDelete(j) \/ DoRestore(j) \/ DoPurge(j)
    \/ \E p \in Projects : Pipeline(j, p)
    \/ Crash(j) \/ Quit(j)

\* What it does leaves the threads of the others where they are.
LEMMA OneActs ==
    ASSUME TypeOK, NEW j \in Instances, Acts(j)
    PROVE  \A k \in Instances \ {j} : pc'[k] = pc[k] /\ tgt'[k] = tgt[k] /\ todo'[k] = todo[k]
<1> SUFFICES ASSUME NEW k \in Instances, k # j
             PROVE  pc'[k] = pc[k] /\ tgt'[k] = tgt[k] /\ todo'[k] = todo[k]
  OBVIOUS
<1>1. CASE Start(j) \/ Crash(j) \/ Quit(j)
  BY <1>1 DEF Start, Crash, Quit, Die, TypeOK, Goto
<1>2. ASSUME NEW p \in Projects, RecoverProject(j, p)
      PROVE  pc'[k] = pc[k] /\ tgt'[k] = tgt[k] /\ todo'[k] = todo[k]
  BY <1>2 DEF RecoverProject, MarkInterrupted, InspectEntry, InspectQuarantine, InspectMetadata,
              TypeOK, Goto
<1>3. CASE \/ MarkDone(j) \/ FinishSoftDelete(j) \/ MovesDone(j) \/ LockQuarantine(j)
           \/ RemoveQuarantine(j) \/ WipesDone(j) \/ RemoveMetadata(j) \/ RecoveryDone(j)
  BY <1>3 DEF MarkDone, FinishSoftDelete, MovesDone, LockQuarantine, RemoveQuarantine, WipesDone,
              RemoveMetadata, RecoveryDone, TypeOK, Goto, Finish
<1>4. CASE Create(j) \/ \E p \in Projects, o \in Operations : Begin(j, p, o)
  BY <1>4 DEF Create, DoCreate, CreateMetadata, CreateEnsure, CreateLoad, CreateUnlist, CreateClear,
              CreateWorkspace, Begin, TypeOK, Goto
<1>5. CASE TakeRunLock(j) \/ DoDelete(j) \/ DoRestore(j) \/ DoPurge(j)
  BY <1>5 DEF TakeRunLock, DoDelete, DeleteMetadata, DeleteWorkspace, DeleteRollback, DoRestore,
              RestoreWorkspace, RestoreMetadata, RestoreRollback, DoPurge, PurgeWorkspace,
              PurgeMetadata, PurgeRollback, PurgeRemoveWorkspace, PurgeRemoveMetadata, TypeOK,
              Goto, Finish
<1>6. CASE \E p \in Projects : Pipeline(j, p)
  BY <1>6 DEF Pipeline, RunCheck, RunEnsure, RunLock, RunBegin, RunEnd
<1> QED
  BY <1>1, <1>2, <1>3, <1>4, <1>5, <1>6 DEF Acts, Recover

\* While an instance recovers, what the others do concerns neither half of
\* any project, nor what is left of the recovery.
LEMMA OthersRest ==
    ASSUME ~ Overlap, TypeOK, AloneInv, NEW i \in Instances, NEW j \in Instances, j # i,
           pc[i] \in Recovering, Acts(j)
    PROVE  /\ UNCHANGED <<meta, ws, tgt>>
           /\ pc'[i] = pc[i] /\ todo'[i] = todo[i]
           /\ \A k \in Instances : pc'[k] = pc[k] \/ pc'[k] = "down"
<1>1. pc[j] \in {"down", "idle"} /\ ~ Quiet /\ pc[i] \notin {"down", "idle"}
  BY DEF AloneInv, Quiet, Recovering
<1>2. \/ \E p \in Projects : Pipeline(j, p)
      \/ Crash(j) \/ Quit(j)
  <2>1. ~ Start(j)
    BY <1>1 DEF Start
  <2>2. ~ Recover(j)
    BY <1>1 DEF Recover, RecoverProject, MarkInterrupted, InspectEntry, InspectQuarantine,
                InspectMetadata, MarkDone, FinishSoftDelete, MovesDone, LockQuarantine,
                RemoveQuarantine, WipesDone, RemoveMetadata, RecoveryDone
  <2>3. ~ Create(j) /\ ~ \E p \in Projects, o \in Operations : Begin(j, p, o)
    BY <1>1 DEF Create, DoCreate, CreateMetadata, CreateEnsure, CreateLoad, CreateUnlist, CreateClear,
                CreateWorkspace, Begin
  <2>4. ~ TakeRunLock(j)
    BY <1>1 DEF TakeRunLock, Operations
  <2>5. ~ DoDelete(j) /\ ~ DoRestore(j) /\ ~ DoPurge(j)
    BY <1>1 DEF DoDelete, DeleteMetadata, DeleteWorkspace, DeleteRollback,
                DoRestore, RestoreWorkspace, RestoreMetadata, RestoreRollback,
                DoPurge, PurgeWorkspace, PurgeMetadata, PurgeRollback, PurgeRemoveWorkspace,
                PurgeRemoveMetadata
  <2> QED
    BY <2>1, <2>2, <2>3, <2>4, <2>5 DEF Acts
<1>3. CASE \E p \in Projects : Pipeline(j, p)
  BY <1>3 DEF Pipeline, RunCheck, RunEnsure, RunLock, RunBegin, RunEnd
<1>4. CASE Crash(j) \/ Quit(j)
  BY <1>4 DEF Crash, Quit, Die, TypeOK, Goto
<1> QED
  BY <1>2, <1>3, <1>4

\* The only steps that move a workspace, each the one of its own project.
LEMMA WsMoved ==
    ASSUME TypeOK, [Next]_vars, NEW p \in Projects, ws'[p] # ws[p]
    PROVE  \E j \in Instances :
               \/ CreateWorkspace(j, p)
               \/ /\ tgt[j] = p
                  /\ \/ CreateMetadata(j) \/ CreateClear(j) \/ DeleteWorkspace(j)
                     \/ RestoreWorkspace(j) \/ RestoreRollback(j) \/ PurgeWorkspace(j)
                     \/ PurgeRollback(j) \/ PurgeRemoveWorkspace(j) \/ FinishSoftDelete(j)
                     \/ RemoveQuarantine(j)
<1>1. PICK j \in Instances : Acts(j)
  BY DEF Next, Acts, vars
<1>2. ~ (\/ Start(j) \/ (\E q \in Projects, o \in Operations : Begin(j, q, o)) \/ TakeRunLock(j)
         \/ (\E q \in Projects : Pipeline(j, q)) \/ Crash(j) \/ Quit(j))
  BY DEF Start, Begin, TakeRunLock, Pipeline, RunCheck, RunEnsure, RunLock, RunBegin, RunEnd,
         Crash, Quit, Die
<1>3. CASE Create(j)
  BY <1>3 DEF Create, DoCreate, CreateMetadata, CreateEnsure, CreateLoad, CreateUnlist, CreateClear,
              CreateWorkspace, TypeOK
<1>4. CASE DoDelete(j)
  BY <1>4 DEF DoDelete, DeleteMetadata, DeleteWorkspace, DeleteRollback, TypeOK
<1>5. CASE DoRestore(j)
  <2>1. RestoreWorkspace(j) \/ RestoreRollback(j)
    BY <1>5 DEF DoRestore, RestoreMetadata
  <2>2. tgt[j] = p
    BY <2>1 DEF RestoreWorkspace, RestoreRollback, TypeOK
  <2> QED
    BY <2>1, <2>2
<1>6. CASE DoPurge(j)
  <2>1. PurgeWorkspace(j) \/ PurgeRollback(j) \/ PurgeRemoveWorkspace(j)
    BY <1>6 DEF DoPurge, PurgeMetadata, PurgeRemoveMetadata
  <2>2. tgt[j] = p
    BY <2>1 DEF PurgeWorkspace, PurgeRollback, PurgeRemoveWorkspace, RemoveMarker, RemoveRest, TypeOK
  <2> QED
    BY <2>1, <2>2
<1>7. CASE Recover(j)
  <2>1. FinishSoftDelete(j) \/ RemoveQuarantine(j)
    BY <1>7 DEF Recover, RecoverProject, MarkInterrupted, InspectEntry, InspectQuarantine,
                InspectMetadata, MarkDone, MovesDone, LockQuarantine, WipesDone, RemoveMetadata,
                RecoveryDone
  <2>2. tgt[j] = p
    BY <2>1 DEF FinishSoftDelete, RemoveQuarantine, RemoveMarker, RemoveRest, TypeOK
  <2> QED
    BY <2>1, <2>2
<1> QED
  BY <1>1, <1>2, <1>3, <1>4, <1>5, <1>6, <1>7 DEF Acts

\* The only steps that move a document.
LEMMA MetaMoved ==
    ASSUME TypeOK, NEW j \in Instances, Acts(j), NEW p \in Projects, meta'[p] # meta[p]
    PROVE  /\ tgt[j] = p
           /\ \/ CreateMetadata(j) \/ CreateUnlist(j) \/ DeleteMetadata(j) \/ DeleteRollback(j)
              \/ RestoreMetadata(j) \/ PurgeMetadata(j) \/ PurgeRemoveMetadata(j)
              \/ RemoveMetadata(j)
<1>2. ~ (\/ Start(j) \/ (\E q \in Projects, o \in Operations : Begin(j, q, o)) \/ TakeRunLock(j)
         \/ (\E q \in Projects : Pipeline(j, q)) \/ Crash(j) \/ Quit(j))
  BY DEF Start, Begin, TakeRunLock, Pipeline, RunCheck, RunEnsure, RunLock, RunBegin, RunEnd,
         Crash, Quit, Die
<1>3. \/ CreateMetadata(j) \/ CreateUnlist(j) \/ DeleteMetadata(j) \/ DeleteRollback(j)
      \/ RestoreMetadata(j) \/ PurgeMetadata(j) \/ PurgeRemoveMetadata(j)
      \/ RemoveMetadata(j)
  <2>1. CASE Create(j)
    BY <2>1 DEF Create, DoCreate, CreateEnsure, CreateLoad, CreateClear, CreateWorkspace
  <2>2. CASE DoDelete(j) \/ DoRestore(j) \/ DoPurge(j)
    BY <2>2 DEF DoDelete, DeleteWorkspace, DoRestore, RestoreWorkspace, RestoreRollback,
                DoPurge, PurgeWorkspace, PurgeRollback, PurgeRemoveWorkspace
  <2>3. CASE Recover(j)
    BY <2>3 DEF Recover, RecoverProject, MarkInterrupted, InspectEntry, InspectQuarantine,
                InspectMetadata, MarkDone, MovesDone, LockQuarantine, WipesDone, FinishSoftDelete,
                RemoveQuarantine, RecoveryDone
  <2> QED
    BY <1>2, <2>1, <2>2, <2>3 DEF Acts
<1>4. tgt[j] = p
  BY <1>3 DEF CreateMetadata, CreateUnlist, DeleteMetadata, DeleteRollback, RestoreMetadata, PurgeMetadata,
              PurgeRemoveMetadata, RemoveMetadata, TypeOK
<1> QED
  BY <1>3, <1>4

\* A workspace goes into quarantine with its document still in the trash.
LEMMA QuarantineStep ==
    ASSUME LifecycleInv, LegacyInv, SettleInv, [Next]_vars
    PROVE  /\ \A p \in Projects : meta'[p] = "gone" => ws'[p] # "purging"
           /\ \A i \in Instances : pc'[i] = "purge_rmmeta" => ws'[tgt'[i]] # "purging"
<1> TypeOK /\ LockInv /\ PlaceInv
  BY DEF LifecycleInv
<1>1. ASSUME NEW p \in Projects, ws'[p] = "purging", ws[p] # "purging"
      PROVE  \E j \in Instances : tgt[j] = p /\ PurgeWorkspace(j)
  <2>1. PICK j \in Instances :
            \/ CreateWorkspace(j, p)
            \/ /\ tgt[j] = p
               /\ \/ CreateMetadata(j) \/ CreateClear(j) \/ DeleteWorkspace(j)
                  \/ RestoreWorkspace(j) \/ RestoreRollback(j) \/ PurgeWorkspace(j)
                  \/ PurgeRollback(j) \/ PurgeRemoveWorkspace(j) \/ FinishSoftDelete(j)
                  \/ RemoveQuarantine(j)
    BY <1>1, WsMoved
  <2> QED
    BY <1>1, <2>1
    DEF CreateWorkspace, CreateMetadata, CreateClear, DeleteWorkspace, RestoreWorkspace,
        RestoreRollback, PurgeRollback, PurgeRemoveWorkspace, FinishSoftDelete, RemoveQuarantine,
        RemoveMarker, RemoveRest, TypeOK
<1>2. ASSUME NEW p \in Projects, meta'[p] = "gone", ws'[p] = "purging" PROVE FALSE
  <2>1. CASE ws[p] # "purging"
    <3>1. PICK j \in Instances : tgt[j] = p /\ PurgeWorkspace(j)
      BY <1>1, <1>2, <2>1
    <3> QED
      BY <1>2, <3>1 DEF PurgeWorkspace, PlaceInv, StepPlace, Listed
  <2>2. CASE ws[p] = "purging"
    <3>1. meta[p] # "gone"
      BY <2>2 DEF SettleInv
    <3>a. PICK j \in Instances : Acts(j)
      BY <1>2, <3>1 DEF Next, Acts, vars
    <3>2. /\ tgt[j] = p
          /\ \/ CreateMetadata(j) \/ CreateUnlist(j) \/ DeleteMetadata(j) \/ DeleteRollback(j)
             \/ RestoreMetadata(j) \/ PurgeMetadata(j) \/ PurgeRemoveMetadata(j)
             \/ RemoveMetadata(j)
      BY <1>2, <3>1, <3>a, MetaMoved
    <3>3. PurgeRemoveMetadata(j) \/ RemoveMetadata(j)
      BY <1>2, <3>1, <3>2
      DEF CreateMetadata, CreateUnlist, DeleteMetadata, DeleteRollback, RestoreMetadata, PurgeMetadata, TypeOK
    <3>4. pc[j] \in {"purge_rmmeta", "metawipe"}
      BY <3>3 DEF PurgeRemoveMetadata, RemoveMetadata
    <3> QED
      BY <2>2, <3>2, <3>4 DEF SettleInv, StepSettles
  <2> QED
    BY <2>1, <2>2
<1>3. ASSUME NEW i \in Instances, Acts(i), pc'[i] = "purge_rmmeta"
      PROVE  \/ ws'[tgt'[i]] # "purging"
             \/ pc[i] = "purge_rmmeta" /\ UNCHANGED <<ws, tgt>>
  <2>1. CASE \E p \in Projects : Pipeline(i, p)
    BY <1>3, <2>1 DEF Pipeline, RunCheck, RunEnsure, RunLock, RunBegin, RunEnd
  <2>2. CASE DoPurge(i)
    <3>1. \/ PurgeMetadata(i) /\ tgt[i] \notin Isolated
          \/ PurgeRemoveWorkspace(i) /\ RemoveRest(tgt[i])
      BY <1>3, <2>2 DEF DoPurge, PurgeWorkspace, PurgeMetadata, PurgeRollback, TypeOK, Goto, Finish,
                        PurgeRemoveWorkspace, PurgeRemoveMetadata
    <3> QED
      BY <3>1 DEF PurgeMetadata, PurgeRemoveWorkspace, RemoveRest, LegacyInv, LegacyStays, TypeOK
  <2>3. ~ (Start(i) \/ Recover(i) \/ Create(i) \/ Crash(i) \/ Quit(i))
    BY <1>3
    DEF Start, Recover, RecoverProject, MarkInterrupted, InspectEntry, InspectQuarantine,
        InspectMetadata, MarkDone, FinishSoftDelete, MovesDone, LockQuarantine, RemoveQuarantine,
        WipesDone, RemoveMetadata, RecoveryDone, Create, DoCreate, CreateMetadata, CreateEnsure,
        CreateLoad, CreateUnlist, CreateClear, CreateWorkspace, Crash, Quit, Die, Finish, Goto, TypeOK
  <2>4. ~ \E p \in Projects, o \in Operations : Begin(i, p, o)
    BY <1>3 DEF Begin, Operations, Goto, TypeOK
  <2>5. ~ TakeRunLock(i)
    BY <1>3 DEF TakeRunLock, FirstStep, Operations, Goto, Finish, TypeOK
  <2>6. ~ (DoDelete(i) \/ DoRestore(i))
    BY <1>3 DEF DoDelete, DeleteMetadata, DeleteWorkspace, DeleteRollback, DoRestore,
                RestoreWorkspace, RestoreMetadata, RestoreRollback, Goto, Finish, TypeOK
  <2> QED
    BY <1>3, <2>1, <2>2, <2>3, <2>4, <2>5, <2>6 DEF Acts
<1>4. ASSUME NEW i \in Instances, pc'[i] = "purge_rmmeta", ws'[tgt'[i]] = "purging"
      PROVE  FALSE
  <2>1. CASE UNCHANGED vars
    BY <1>4, <2>1 DEF vars, SettleInv, StepSettles
  <2>2. ASSUME NEW j \in Instances, Acts(j) PROVE FALSE
    <3>1. CASE j = i
      BY <1>3, <1>4, <2>2, <3>1 DEF SettleInv, StepSettles
    <3>2. CASE j # i
      <4>1. pc[i] = "purge_rmmeta" /\ tgt'[i] = tgt[i] /\ tgt[i] \in Projects /\ pc[i] \in MovingSteps
        BY <1>4, <2>2, <3>2, OneActs DEF TypeOK, MovingSteps, PurgeSteps
      <4>2. PICK k \in Instances : tgt[k] = tgt[i] /\ PurgeWorkspace(k)
        BY <1>1, <1>4, <4>1 DEF SettleInv, StepSettles
      <4>3. k # i /\ pc[k] \in MovingSteps
        BY <4>1, <4>2 DEF PurgeWorkspace, MovingSteps, PurgeSteps
      <4> QED
        BY <4>1, <4>2, <4>3, MovesAlone
    <3> QED
      BY <3>1, <3>2
  <2> QED
    BY <2>1, <2>2 DEF Next, Acts
<1> QED
  BY <1>2, <1>4

\* Nothing that a loop of the recovery is for appears behind it.
LEMMA SettleStep ==
    ASSUME ~ Overlap, LifecycleInv, WholeInv, [Next]_vars PROVE SettleInv'
<1> TypeOK /\ LockInv /\ PlaceInv
  BY DEF LifecycleInv
<1> LegacyInv /\ AloneInv /\ LiveIsWhole /\ UndoneIsWhole /\ SettleInv /\ \A i \in Instances : StepWhole(i)
  BY DEF WholeInv
<1>q. /\ \A p \in Projects : meta'[p] = "gone" => ws'[p] # "purging"
      /\ \A i \in Instances : pc'[i] = "purge_rmmeta" => ws'[tgt'[i]] # "purging"
  BY QuarantineStep
<1>0. CASE UNCHANGED vars
  BY <1>0 DEF vars, SettleInv, StepSettles, Ahead, HalfDeleted, Listed
<1>i. ASSUME NEW i \in Instances, pc'[i] \notin Recovering PROVE StepSettles(i)'
  BY <1>q, <1>i DEF StepSettles, Recovering
<1>s. ASSUME NEW i \in Instances, UNCHANGED <<meta, ws, tgt>>, pc'[i] = pc[i], todo'[i] = todo[i]
      PROVE  StepSettles(i)'
  BY <1>q, <1>s DEF SettleInv, StepSettles, Ahead, HalfDeleted, Listed
<1>o. ASSUME NEW i \in Instances, NEW j \in Instances, j # i, Acts(j) PROVE StepSettles(i)'
  <2>1. CASE pc[i] \in Recovering
    BY <1>o, <1>s, <2>1, OthersRest
  <2>2. CASE pc[i] \notin Recovering
    BY <1>o, <1>i, <2>2, OneActs
  <2> QED
    BY <2>1, <2>2
<1>a. ASSUME NEW i \in Instances, Acts(i) PROVE StepSettles(i)'
  <2>p. ASSUME NEW p \in Projects, ws[p] = "purging" \/ HalfDeleted(p)
        PROVE  p \in Isolated /\ meta[p] \in {"trash", "purging"}
    <3>1. CASE HalfDeleted(p)
      BY <3>1 DEF HalfDeleted, Listed
    <3>2. CASE ws[p] = "purging"
      <4>1. p \in Isolated
        BY <3>2 DEF LegacyInv, LegacyStays
      <4>2. meta[p] \notin {"live", "undone"}
        BY <3>2, <4>1 DEF LiveIsWhole, UndoneIsWhole, Whole, MarkerAtHome
      <4>3. meta[p] # "gone" /\ meta[p] # "absent"
        <5>1. meta[p] = "gone" => ws[p] # "purging"
          BY DEF SettleInv
        <5>2. ws[p] \notin {"absent", "home"} => meta[p] # "absent"
          BY DEF PlaceInv, ProjectPlace
        <5> QED
          BY <3>2, <5>1, <5>2
      <4> QED
        BY <4>1, <4>2, <4>3, meta[p] \in MetaPlaces DEF TypeOK, MetaPlaces
    <3> QED
      BY <2>p, <3>1, <3>2
  <2>f. pc[i] \in {"move", "wipe", "metawipe"} => delLock[tgt[i]] = {}
    <3> SUFFICES ASSUME pc[i] \in {"move", "wipe", "metawipe"}, NEW k \in delLock[tgt[i]] PROVE FALSE
      OBVIOUS
    <3>0. tgt[i] \in Projects /\ k \in Instances
      BY DEF TypeOK
    <3>1. pc[k] \in Operations \cup MovingSteps \cup {"wiping"}
      BY <3>0 DEF LockInv
    <3>2. pc[i] \in Recovering /\ pc[i] \notin Operations \cup MovingSteps \cup {"wiping"}
      BY DEF Recovering, Operations, MovingSteps, DeleteSteps, RestoreSteps, PurgeSteps
    <3>3. pc[k] \in {"down", "idle"}
      BY <3>0, <3>1, <3>2 DEF AloneInv
    <3> QED
      BY <3>1, <3>3 DEF Operations, MovingSteps, DeleteSteps, RestoreSteps, PurgeSteps
  <2>1. CASE Start(i)
    BY <2>1 DEF Start, TypeOK, Goto, StepSettles
  <2>2. ASSUME NEW p \in Projects, MarkInterrupted(i, p) PROVE StepSettles(i)'
    BY <2>2 DEF MarkInterrupted, StepSettles
  <2>3. CASE MarkDone(i)
    <3>1. CASE LibraryKnown
      <4>1. /\ pc'[i] = "moves" /\ UNCHANGED <<meta, ws, tgt>>
            /\ todo'[i] = {p \in Isolated : Listed(p)}
        BY <2>3, <3>1 DEF MarkDone, TypeOK, Goto
      <4> QED
        BY <4>1 DEF StepSettles, Ahead, HalfDeleted, Listed
    <3>2. CASE ~ LibraryKnown
      <4>1. /\ pc'[i] = "metas" /\ UNCHANGED <<meta, ws, tgt>>
            /\ todo'[i] = {p \in Projects : meta[p] = "purging"}
        BY <2>3, <3>2 DEF MarkDone, TypeOK, Goto
      <4>2. \A p \in Projects : ~ HalfDeleted(p) /\ ws[p] # "purging"
        BY <2>p, <3>2 DEF LibraryKnown
      <4> QED
        BY <4>1, <4>2 DEF StepSettles, Ahead, HalfDeleted, Listed
    <3> QED
      BY <3>1, <3>2
  <2>4. ASSUME NEW p \in Projects, InspectEntry(i, p) PROVE StepSettles(i)'
    <3>1. /\ pc[i] = "moves" /\ UNCHANGED <<meta, ws>> /\ todo'[i] = todo[i] \ {p}
          /\ IF Listed(p) /\ ws[p] = "home"
             THEN pc'[i] = "move" /\ tgt'[i] = p
             ELSE pc'[i] = "moves" /\ tgt'[i] = tgt[i]
      BY <2>4 DEF InspectEntry, TypeOK, Goto
    <3>2. \A q \in Projects : HalfDeleted(q) => q \in todo[i]
      BY <3>1 DEF SettleInv, StepSettles, Ahead
    <3> QED
      BY <3>1, <3>2 DEF StepSettles, Ahead, HalfDeleted, Listed
  <2>5. CASE FinishSoftDelete(i)
    <3>1. /\ pc[i] = "move" /\ UNCHANGED <<meta, tgt>> /\ delLock[tgt[i]] = {}
      BY <2>5, <2>f DEF FinishSoftDelete
    <3>2. CASE Goto(i, "moves")
      <4>1. /\ pc'[i] = "moves" /\ todo'[i] = todo[i]
            /\ \A q \in Projects : ws'[q] = IF q = tgt[i] THEN "trash" ELSE ws[q]
        BY <2>5, <3>1, <3>2 DEF FinishSoftDelete, TypeOK, Goto
      <4>2. \A q \in Projects : HalfDeleted(q) => q \in todo[i] \cup {tgt[i]}
        BY <3>1 DEF SettleInv, StepSettles, Ahead
      <4> QED
        BY <3>1, <4>1, <4>2 DEF StepSettles, Ahead, HalfDeleted, Listed
    <3>3. CASE ~ Goto(i, "moves")
      BY <2>5, <3>3, <1>i DEF FinishSoftDelete, TypeOK, Goto, Recovering
    <3> QED
      BY <3>2, <3>3
  <2>6. CASE MovesDone(i)
    <3>1. /\ pc[i] = "moves" /\ todo[i] = {} /\ pc'[i] = "wipes" /\ UNCHANGED <<meta, ws, tgt>>
          /\ todo'[i] = {p \in Isolated : ws[p] \in {"purging", "partial"}}
      BY <2>6 DEF MovesDone, TypeOK, Goto
    <3>2. \A q \in Projects : ~ HalfDeleted(q)
      BY <3>1 DEF SettleInv, StepSettles, Ahead
    <3> QED
      BY <2>p, <3>1, <3>2 DEF StepSettles, Ahead, HalfDeleted, Listed
  <2>7. ASSUME NEW p \in Projects, InspectQuarantine(i, p) PROVE StepSettles(i)'
    <3>1. /\ pc[i] = "wipes" /\ UNCHANGED <<meta, ws>> /\ todo'[i] = todo[i] \ {p}
          /\ IF ws[p] = "purging"
             THEN pc'[i] = "wipe" /\ tgt'[i] = p
             ELSE pc'[i] = "wipes" /\ tgt'[i] = tgt[i]
      BY <2>7 DEF InspectQuarantine, TypeOK, Goto
    <3>2. \A q \in Projects : ~ HalfDeleted(q) /\ (ws[q] = "purging" => q \in todo[i])
      BY <3>1 DEF SettleInv, StepSettles, Ahead
    <3> QED
      BY <3>1, <3>2 DEF StepSettles, Ahead, HalfDeleted, Listed
  <2>8. CASE LockQuarantine(i)
    <3>1. /\ pc[i] = "wipe" /\ UNCHANGED <<meta, ws, tgt, todo>> /\ pc'[i] = "wiping"
      BY <2>8, <2>f DEF LockQuarantine, TypeOK, Goto
    <3> QED
      BY <3>1 DEF SettleInv, StepSettles, Ahead, HalfDeleted, Listed
  <2>9. CASE RemoveQuarantine(i)
    <3>1. pc[i] = "wiping" /\ UNCHANGED <<meta, tgt>> /\ tgt[i] \in Projects
      BY <2>9 DEF RemoveQuarantine, TypeOK
    <3>2. \A q \in Projects : /\ ~ HalfDeleted(q)
                              /\ ws[q] = "purging" => q \in todo[i] \cup {tgt[i]}
      BY <3>1 DEF SettleInv, StepSettles, Ahead
    <3>3. CASE pc'[i] \in {"wiping", "wipes"}
      <4>1. /\ todo'[i] = todo[i]
            /\ \A q \in Projects : q # tgt[i] => ws'[q] = ws[q]
            /\ ws'[tgt[i]] \in {"partial", "gone"}
        BY <2>9, <3>1, <3>3 DEF RemoveQuarantine, RemoveMarker, RemoveRest, TypeOK, Finish, Goto
      <4> QED
        BY <3>1, <3>2, <3>3, <4>1 DEF StepSettles, Ahead, HalfDeleted, Listed
    <3>4. CASE pc'[i] = "idle"
      BY <3>4, <1>i DEF Recovering
    <3> QED
      BY <2>9, <3>3, <3>4 DEF RemoveQuarantine, Finish, Goto, TypeOK
  <2>10. CASE WipesDone(i)
    <3>1. /\ pc[i] = "wipes" /\ todo[i] = {} /\ pc'[i] = "metas" /\ UNCHANGED <<meta, ws, tgt>>
          /\ todo'[i] = {p \in Projects : meta[p] = "purging"}
      BY <2>10 DEF WipesDone, TypeOK, Goto
    <3>2. \A q \in Projects : ~ HalfDeleted(q) /\ ws[q] # "purging"
      BY <3>1 DEF SettleInv, StepSettles, Ahead
    <3> QED
      BY <3>1, <3>2 DEF StepSettles, Ahead, HalfDeleted, Listed
  <2>11. ASSUME NEW p \in Projects, InspectMetadata(i, p) PROVE StepSettles(i)'
    <3>1. /\ pc[i] = "metas" /\ UNCHANGED <<meta, ws>> /\ todo'[i] = todo[i] \ {p}
          /\ IF meta[p] = "purging"
             THEN pc'[i] = "metawipe" /\ tgt'[i] = p
             ELSE pc'[i] = "metas" /\ tgt'[i] = tgt[i]
      BY <2>11 DEF InspectMetadata, TypeOK, Goto
    <3>2. \A q \in Projects : /\ ~ HalfDeleted(q) /\ ws[q] # "purging"
                              /\ meta[q] = "purging" => q \in todo[i]
      BY <3>1 DEF SettleInv, StepSettles, Ahead
    <3> QED
      BY <3>1, <3>2 DEF StepSettles, Ahead, HalfDeleted, Listed
  <2>12. CASE RemoveMetadata(i)
    <3>1. pc[i] = "metawipe" /\ UNCHANGED <<ws, tgt>> /\ delLock[tgt[i]] = {}
      BY <2>12, <2>f DEF RemoveMetadata
    <3>2. \A q \in Projects : /\ ~ HalfDeleted(q) /\ ws[q] # "purging"
                              /\ meta[q] = "purging" => q \in todo[i] \cup {tgt[i]}
      BY <3>1 DEF SettleInv, StepSettles, Ahead
    <3>3. CASE Goto(i, "metas")
      <4>1. /\ pc'[i] = "metas" /\ todo'[i] = todo[i]
            /\ \A q \in Projects : meta'[q] = IF q = tgt[i] THEN "gone" ELSE meta[q]
        BY <2>12, <3>1, <3>3 DEF RemoveMetadata, TypeOK, Goto
      <4> QED
        BY <3>1, <3>2, <4>1 DEF StepSettles, Ahead, HalfDeleted, Listed
    <3>4. CASE ~ Goto(i, "metas")
      BY <2>12, <3>4, <1>i DEF RemoveMetadata, TypeOK, Goto, Recovering
    <3> QED
      BY <3>3, <3>4
  <2>13. CASE RecoveryDone(i) \/ Crash(i) \/ Quit(i)
    BY <2>13, <1>i DEF RecoveryDone, Crash, Quit, Die, Goto, TypeOK, Recovering
  <2>14. CASE \E p \in Projects : Pipeline(i, p)
    BY <2>14, <1>s DEF Pipeline, RunCheck, RunEnsure, RunLock, RunBegin, RunEnd
  <2>15. CASE Create(i) \/ \E p \in Projects, o \in Operations : Begin(i, p, o)
    <3>1. \/ UNCHANGED pc /\ pc[i] = "clear"
          \/ \E s \in CreateSteps \cup Operations \cup {"idle"} : Goto(i, s)
      BY <2>15 DEF Create, DoCreate, CreateMetadata, CreateEnsure, CreateLoad, CreateUnlist,
                   CreateClear, CreateWorkspace, Begin, CreateSteps, FreshSteps
    <3>2. (CreateSteps \cup Operations \cup {"idle"}) \cap Recovering = {} /\ "clear" \in CreateSteps
      BY DEF CreateSteps, FreshSteps, Operations, Recovering
    <3>3. pc'[i] \notin Recovering
      BY <3>1, <3>2 DEF Goto, TypeOK
    <3> QED
      BY <1>i, <3>3
  <2>16. CASE TakeRunLock(i)
    BY <2>16, <1>i DEF TakeRunLock, FirstStep, Operations, Finish, Goto, TypeOK, Recovering
  <2>17. CASE DoDelete(i) \/ DoRestore(i) \/ DoPurge(i)
    <3>1. pc[i] \in MovingSteps
      BY <2>17 DEF DoDelete, DeleteMetadata, DeleteWorkspace, DeleteRollback, DoRestore,
                   RestoreWorkspace, RestoreMetadata, RestoreRollback, DoPurge, PurgeWorkspace,
                   PurgeMetadata, PurgeRollback, PurgeRemoveWorkspace, PurgeRemoveMetadata,
                   MovingSteps, DeleteSteps, RestoreSteps, PurgeSteps
    <3>2. UNCHANGED pc \/ \E s \in MovingSteps \cup {"idle"} : Goto(i, s)
      BY <2>17 DEF DoDelete, DeleteMetadata, DeleteWorkspace, DeleteRollback, DoRestore,
                   RestoreWorkspace, RestoreMetadata, RestoreRollback, DoPurge, PurgeWorkspace,
                   PurgeMetadata, PurgeRollback, PurgeRemoveWorkspace, PurgeRemoveMetadata, Finish,
                   MovingSteps, DeleteSteps, RestoreSteps, PurgeSteps
    <3>3. (MovingSteps \cup {"idle"}) \cap Recovering = {}
      BY DEF Recovering, MovingSteps, DeleteSteps, RestoreSteps, PurgeSteps
    <3>4. pc'[i] \notin Recovering
      BY <3>1, <3>2, <3>3 DEF Goto, TypeOK
    <3> QED
      BY <1>i, <3>4
  <2> QED
    BY <1>a, <2>1, <2>2, <2>3, <2>4, <2>5, <2>6, <2>7, <2>8, <2>9, <2>10, <2>11, <2>12, <2>13,
       <2>14, <2>15, <2>16, <2>17
    DEF Acts, Recover, RecoverProject
<1> QED
  <2>1. CASE \E j \in Instances : Acts(j)
    BY <2>1, <1>q, <1>o, <1>a DEF SettleInv
  <2> QED
    BY <1>0, <2>1 DEF Next, Acts

\* The inductive invariant of instances that start one at a time.
THEOREM WholeCorrect == ASSUME ~ Overlap PROVE Spec => []WholeInv
<1>1. Init => WholeInv
  BY IsolatedAssumption
  DEF Init, WholeInv, LegacyInv, LegacyStays, AloneInv, LiveIsWhole, UndoneIsWhole, Whole,
      MarkerAtHome, StepWhole, SettleInv, StepSettles, Recovering, DeleteSteps
<1>2. LifecycleInv /\ WholeInv /\ [Next]_vars => WholeInv'
  <2> SUFFICES ASSUME LifecycleInv, WholeInv, [Next]_vars PROVE WholeInv'
    OBVIOUS
  <2>1. TypeOK /\ PlaceInv /\ LegacyInv /\ AloneInv /\ HalvesInv
    BY DEF LifecycleInv, WholeInv, HalvesInv
  <2>2. LegacyInv' /\ AloneInv' /\ HalvesInv' /\ SettleInv'
    BY <2>1, LegacyStep, AloneStep, HalvesStep, SettleStep
  <2> QED
    BY <2>2 DEF WholeInv, HalvesInv
<1>3. QED
  BY <1>1, <1>2, LifecycleCorrect, PTL DEF Spec

\* A listed project has its workspace, at every step of every operation and
\* whatever fails, provided instances start one at a time and the workspace is
\* not removed by the rollback of its own create.
THEOREM ListedIsWhole == ASSUME ~ Overlap PROVE Spec => []LiveIsWhole
<1>1. WholeInv => LiveIsWhole
  BY DEF WholeInv
<1>2. QED
  BY <1>1, WholeCorrect, PTL

\* A run in progress keeps its document and its workspace, unless the create of
\* its project, in another instance, fails after listing it and takes them back.
THEOREM RunKeeps == ASSUME ~ Overlap PROVE Spec => []RunKeepsProject
<1>1. LifecycleInv /\ WholeInv => RunKeepsProject
  BY DEF LifecycleInv, PlaceInv, ProjectPlace, WholeInv, LiveIsWhole, Whole, RunKeepsProject,
         Undone
<1>2. QED
  BY <1>1, LifecycleCorrect, WholeCorrect, PTL

\* No step takes the workspace from its path while its project is listed; only
\* the rollback of a failed create removes it there.
THEOREM TrashedMoves == ASSUME ~ Overlap PROVE Spec => OnlyTrashedMoves
<1> DEFINE Kept == \A p \in Projects :
              ws[p] = "home" /\ ws'[p] # "home" =>
                  meta[p] \in {"absent", "trash", "purging"} \/ ws'[p] = "undone"
<1>1. LifecycleInv /\ WholeInv /\ [Next]_vars => Kept
  <2> SUFFICES ASSUME LifecycleInv, WholeInv, [Next]_vars, NEW p \in Projects,
                      ws[p] = "home", ws'[p] \notin {"home", "undone"}
               PROVE  meta[p] \in {"absent", "trash", "purging"}
    OBVIOUS
  <2>1. TypeOK
    BY DEF LifecycleInv
  <2>2. PICK j \in Instances :
            \/ CreateWorkspace(j, p)
            \/ /\ tgt[j] = p
               /\ \/ CreateMetadata(j) \/ CreateClear(j) \/ DeleteWorkspace(j)
                  \/ RestoreWorkspace(j) \/ RestoreRollback(j) \/ PurgeWorkspace(j)
                  \/ PurgeRollback(j) \/ PurgeRemoveWorkspace(j) \/ FinishSoftDelete(j)
                  \/ RemoveQuarantine(j)
    BY <2>1, WsMoved
  <2>3. StepPlace(j) /\ StepWhole(j)
    BY DEF LifecycleInv, PlaceInv, WholeInv
  <2>4. CASE CreateWorkspace(j, p) \/ (tgt[j] = p /\ CreateClear(j))
    BY <2>1, <2>4 DEF CreateWorkspace, CreateClear, TypeOK
  <2>5. CASE tgt[j] = p /\ (RestoreWorkspace(j) \/ PurgeRemoveWorkspace(j) \/ RemoveQuarantine(j))
    BY <2>1, <2>5 DEF RestoreWorkspace, PurgeRemoveWorkspace, RemoveQuarantine, RemoveMarker,
                      RemoveRest, TypeOK
  <2>6. CASE tgt[j] = p /\ (CreateMetadata(j) \/ DeleteWorkspace(j) \/ RestoreRollback(j)
                             \/ PurgeWorkspace(j) \/ PurgeRollback(j) \/ FinishSoftDelete(j))
    <3>1. pc[j] \in {"create", "delete_ws", "restore_back", "purge_ws", "purge_back", "move"}
      BY <2>6 DEF CreateMetadata, DeleteWorkspace, RestoreRollback, PurgeWorkspace, PurgeRollback,
                  FinishSoftDelete
    <3> QED
      BY <2>3, <2>6, <3>1 DEF StepPlace, StepWhole, Listed, RestoreSteps
  <2> QED
    BY <2>2, <2>4, <2>5, <2>6
<1>2. LifecycleInv /\ WholeInv /\ [Next]_vars => [Kept]_vars
  BY <1>1
<1>3. Spec => [][Kept]_vars
  BY <1>2, LifecycleCorrect, WholeCorrect, PTL DEF Spec
<1> QED
  BY <1>3 DEF OnlyTrashedMoves

\* A recovery that gets to its end has completed every deletion that was cut
\* in two and removed every quarantine it knows of.
THEOREM Settles == ASSUME ~ Overlap PROVE Spec => RecoverySettles
<1> DEFINE Settled ==
        \A i \in Instances : pc[i] = "metas" /\ pc'[i] = "idle" /\ faults' = faults =>
            \A p \in Projects : ~ HalfDeleted(p) /\ ws[p] # "purging" /\ meta[p] # "purging"
<1>1. LifecycleInv /\ WholeInv /\ [Next]_vars => [Settled]_vars
  <2> SUFFICES ASSUME LifecycleInv, WholeInv, [Next]_vars, NEW i \in Instances,
                      pc[i] = "metas", pc'[i] = "idle"
               PROVE  \A p \in Projects :
                          ~ HalfDeleted(p) /\ ws[p] # "purging" /\ meta[p] # "purging"
    OBVIOUS
  <2>1. TypeOK
    BY DEF LifecycleInv
  <2>2. PICK j \in Instances : Acts(j)
    BY DEF Next, Acts, vars
  <2>3. j = i
    BY <2>1, <2>2, OneActs
  <2>4. RecoveryDone(i)
    <3>1. ~ (Start(i) \/ Create(i) \/ TakeRunLock(i) \/ Crash(i) \/ Quit(i))
      BY <2>1 DEF Start, Create, DoCreate, CreateMetadata, CreateEnsure, CreateLoad, CreateUnlist, CreateClear,
                  CreateWorkspace, TakeRunLock, Operations, Crash, Quit, Die, Goto, TypeOK
    <3>2. ~ (DoDelete(i) \/ DoRestore(i) \/ DoPurge(i))
      BY DEF DoDelete, DeleteMetadata, DeleteWorkspace, DeleteRollback, DoRestore,
             RestoreWorkspace, RestoreMetadata, RestoreRollback, DoPurge, PurgeWorkspace,
             PurgeMetadata, PurgeRollback, PurgeRemoveWorkspace, PurgeRemoveMetadata
    <3>3. ~ \E p \in Projects, o \in Operations : Begin(i, p, o)
      BY DEF Begin
    <3>4. ~ \E p \in Projects : Pipeline(i, p)
      BY DEF Pipeline, RunCheck, RunEnsure, RunLock, RunBegin, RunEnd
    <3>5. CASE Recover(i)
      BY <2>1, <3>5
      DEF Recover, RecoverProject, MarkInterrupted, InspectEntry, InspectQuarantine,
          InspectMetadata, MarkDone, FinishSoftDelete, MovesDone, LockQuarantine,
          RemoveQuarantine, WipesDone, RemoveMetadata, Goto, TypeOK
    <3> QED
      BY <2>2, <2>3, <3>1, <3>2, <3>3, <3>4, <3>5 DEF Acts
  <2>5. todo[i] = {} /\ StepSettles(i)
    BY <2>4 DEF RecoveryDone, WholeInv, SettleInv
  <2> QED
    BY <2>5 DEF StepSettles, Ahead
<1>2. Spec => [][Settled]_vars
  BY <1>1, LifecycleCorrect, WholeCorrect, PTL DEF Spec
<1> QED
  BY <1>2 DEF RecoverySettles

-----------------------------------------------------------------------------
(* The project list of ProjectShelf *)

\* Where the user finds a project, which projects are being run, and which are
\* still being created: the refinement mapping of Shelf.
ShelfPlace == [p \in Projects |-> PlaceOf(meta[p])]
ShelfActive == {p \in Projects : Owned(p)}
ShelfFresh == {p \in Projects : \E i \in Instances : pc[i] \in FreshSteps /\ tgt[i] = p}

\* A document that moves changes the place of its own project only, and no run.
LEMMA ShelfMoves ==
    ASSUME TypeOK, TypeOK', NEW p \in Projects, UNCHANGED run, NEW m \in MetaPlaces,
           meta' = [meta EXCEPT ![p] = m]
    PROVE  /\ ShelfPlace' = [ShelfPlace EXCEPT ![p] = ShelfPlace'[p]]
           /\ ShelfActive' = ShelfActive
<1>1. \A q \in Projects : q # p => meta'[q] = meta[q]
  BY DEF TypeOK
<1>2. \A q \in Projects : q # p => PlaceOf(meta'[q]) = PlaceOf(meta[q])
  BY <1>1
<1>3. ShelfPlace' = [ShelfPlace EXCEPT ![p] = ShelfPlace'[p]]
  <2> DEFINE f == ShelfPlace
             g == ShelfPlace'
  <2>1. f = [q \in Projects |-> f[q]] /\ g = [q \in Projects |-> g[q]]
    BY DEF ShelfPlace
  <2>2. \A q \in Projects : q # p => g[q] = f[q]
    BY <1>2 DEF ShelfPlace
  <2> HIDE DEF f, g
  <2>3. g = [f EXCEPT ![p] = g[p]]
    BY <2>1, <2>2
  <2> QED
    BY <2>3 DEF f, g
<1>4. ShelfActive' = ShelfActive
  BY DEF ShelfActive, Owned
<1> QED
  BY <1>3, <1>4

\* A thread that creates its project is the only one that does.
LEMMA FreshMoves ==
    ASSUME TypeOK, PlaceInv, NEW j \in Instances, pc[j] \in CreateSteps, UNCHANGED tgt,
           \A k \in Instances : k # j => pc'[k] = pc[k]
    PROVE  ShelfFresh' = IF pc'[j] \in FreshSteps
                         THEN ShelfFresh \cup {tgt[j]} ELSE ShelfFresh \ {tgt[j]}
<1>1. tgt[j] \in Projects
  BY DEF TypeOK
<1>2. \A k \in Instances : k # j /\ tgt[k] = tgt[j] => pc[k] \notin FreshSteps
  BY <1>1 DEF PlaceInv, ProjectPlace, CreateSteps
<1>3. ASSUME NEW p \in Projects
      PROVE  p \in ShelfFresh' <=> IF p = tgt[j] THEN pc'[j] \in FreshSteps ELSE p \in ShelfFresh
  BY <1>2 DEF ShelfFresh
<1> QED
  BY <1>1, <1>3 DEF ShelfFresh

\* No other step has to do with a project that is being created.
LEMMA FreshRests ==
    ASSUME TypeOK, NEW j \in Instances, Acts(j), ~ DoCreate(j), ~ Crash(j), ~ Quit(j)
    PROVE  ShelfFresh' = ShelfFresh
<1>o. \A k \in Instances \ {j} : pc'[k] = pc[k] /\ tgt'[k] = tgt[k]
  BY OneActs
<1>u. ASSUME UNCHANGED <<pc, tgt>> PROVE ShelfFresh' = ShelfFresh
  BY <1>u DEF ShelfFresh
<1>n. ASSUME pc[j] \notin FreshSteps, pc'[j] \notin FreshSteps PROVE ShelfFresh' = ShelfFresh
  BY <1>o, <1>n DEF ShelfFresh
<1>1. CASE \E p \in Projects : Pipeline(j, p)
  BY <1>1, <1>u DEF Pipeline, RunCheck, RunEnsure, RunLock, RunBegin, RunEnd
<1>2. CASE Start(j)
  BY <1>2, <1>n DEF Start, Goto, TypeOK, FreshSteps
<1>3. CASE Recover(j)
  <2> USE <1>3 DEF Recover, RecoverProject, MarkInterrupted, InspectEntry, InspectQuarantine,
              InspectMetadata, MarkDone, FinishSoftDelete, MovesDone, LockQuarantine,
              RemoveQuarantine, WipesDone, RemoveMetadata, RecoveryDone, Finish
  <2>1. pc[j] \in Recovering
    BY DEF Recovering
  <2>2. UNCHANGED pc \/ \E s \in Recovering \cup {"idle"} : Goto(j, s)
    BY DEF Recovering
  <2>3. (Recovering \cup {"idle"}) \cap FreshSteps = {}
    BY DEF Recovering, FreshSteps
  <2>4. pc'[j] \in Recovering \cup {"idle"}
    BY <2>1, <2>2 DEF Goto, TypeOK
  <2> QED
    BY <1>n, <2>1, <2>3, <2>4
<1>4. ASSUME NEW p \in Projects, CreateWorkspace(j, p) PROVE ShelfFresh' = ShelfFresh
  BY <1>4, <1>n DEF CreateWorkspace, Goto, TypeOK, FreshSteps
<1>5. ASSUME NEW p \in Projects, NEW o \in Operations, Begin(j, p, o) PROVE ShelfFresh' = ShelfFresh
  BY <1>5, <1>n DEF Begin, Goto, TypeOK, FreshSteps, Operations
<1>6. CASE TakeRunLock(j)
  BY <1>6, <1>n DEF TakeRunLock, FirstStep, Finish, Goto, TypeOK, FreshSteps, Operations
<1>7. CASE DoDelete(j) \/ DoRestore(j) \/ DoPurge(j)
  <2> USE <1>7 DEF DoDelete, DeleteMetadata, DeleteWorkspace, DeleteRollback,
              DoRestore, RestoreWorkspace, RestoreMetadata, RestoreRollback,
              DoPurge, PurgeWorkspace, PurgeMetadata, PurgeRollback, PurgeRemoveWorkspace,
              PurgeRemoveMetadata, Finish
  <2>1. pc[j] \in MovingSteps
    BY DEF MovingSteps, DeleteSteps, RestoreSteps, PurgeSteps
  <2>2. UNCHANGED pc \/ \E s \in MovingSteps \cup {"idle"} : Goto(j, s)
    BY DEF MovingSteps, DeleteSteps, RestoreSteps, PurgeSteps
  <2>3. (MovingSteps \cup {"idle"}) \cap FreshSteps = {}
    BY DEF MovingSteps, DeleteSteps, RestoreSteps, PurgeSteps, FreshSteps
  <2>4. pc'[j] \in MovingSteps \cup {"idle"}
    BY <2>1, <2>2 DEF Goto, TypeOK
  <2> QED
    BY <1>n, <2>1, <2>3, <2>4
<1> QED
  BY <1>1, <1>2, <1>3, <1>4, <1>5, <1>6, <1>7 DEF Acts, Create

\* The start of the lifecycle is an empty shelf, with the legacy projects.
LEMMA ShelfInit == Init => Shelf!Init
<1> SUFFICES ASSUME Init PROVE Shelf!Init
  OBVIOUS
<1>1. ShelfActive = {}
  BY DEF Init, ShelfActive, Owned
<1>2. ShelfPlace = [p \in Projects |-> IF p \in Isolated THEN "none" ELSE "listed"]
  BY DEF Init, ShelfPlace, PlaceOf
<1>3. ShelfFresh = {}
  BY DEF Init, ShelfFresh, FreshSteps
<1> QED
  BY <1>1, <1>2, <1>3 DEF Shelf!Init, ShelfPlace, ShelfActive, ShelfFresh

\* Every step of the lifecycle is a step of the shelf, or changes nothing a
\* user of the project list sees.
LEMMA ShelfStep == LifecycleInv /\ [Next]_vars => [Shelf!Next]_(Shelf!shelfVars)
<1> SUFFICES ASSUME LifecycleInv, [Next]_vars,
                    ~ (/\ ShelfPlace' = ShelfPlace /\ ShelfActive' = ShelfActive
                       /\ ShelfFresh' = ShelfFresh)
             PROVE  Shelf!Next
  BY DEF Shelf!shelfVars, ShelfPlace, ShelfActive, ShelfFresh
<1> TypeOK /\ LockInv /\ PlaceInv /\ TypeOK'
  BY TypeStep DEF LifecycleInv
<1>0. PICK j \in Instances : Acts(j)
  BY DEF Next, Acts, vars, ShelfPlace, ShelfActive, ShelfFresh, Owned
<1>e. ASSUME NEW S \in SUBSET Projects, NEW F \in SUBSET Projects,
             S \subseteq ShelfActive, ShelfActive' = ShelfActive \ S,
             F \subseteq ShelfFresh, ShelfFresh' = ShelfFresh \ F, ShelfPlace' = ShelfPlace
      PROVE  Shelf!Next
  <2>1. Shelf!End(S, F)
    BY <1>e DEF Shelf!End, ShelfPlace, ShelfActive, ShelfFresh
  <2> QED
    BY <2>1 DEF Shelf!Next
<1>1. CASE DoCreate(j)
  <2> PICK p \in Projects : p = tgt[j]
    BY DEF TypeOK
  <2>1. /\ UNCHANGED <<tgt, run>> /\ p \in Projects /\ pc[j] \in CreateSteps
        /\ \A k \in Instances : k # j => pc'[k] = pc[k]
        /\ pc[j] = "create" => meta[p] = "absent"
    BY <1>1 DEF DoCreate, CreateMetadata, CreateEnsure, CreateLoad, CreateUnlist, CreateClear,
                CreateSteps, FreshSteps, PlaceInv, StepPlace, Goto, TypeOK
  <2>2. ShelfFresh' = IF pc'[j] \in FreshSteps THEN ShelfFresh \cup {p} ELSE ShelfFresh \ {p}
    BY <2>1, FreshMoves
  <2>3. pc[j] \in FreshSteps <=> p \in ShelfFresh
    <3>1. \A k \in Instances : k # j /\ tgt[k] = p => pc[k] \notin FreshSteps
      BY <2>1 DEF PlaceInv, ProjectPlace, CreateSteps
    <3> QED
      BY <2>1, <3>1 DEF ShelfFresh
  <2>4. ShelfActive' = ShelfActive
    BY <2>1 DEF ShelfActive, Owned
  <2>e. ASSUME UNCHANGED meta PROVE Shelf!Next
    <3>1. ShelfPlace' = ShelfPlace
      BY <2>e DEF ShelfPlace
    <3>2. pc[j] \in FreshSteps /\ pc'[j] \notin FreshSteps
      <4>1. CASE CreateMetadata(j)
        BY <2>1, <2>2, <2>3, <2>4, <2>e, <3>1, <4>1 DEF CreateMetadata, FreshSteps, Goto, TypeOK
      <4>2. CASE CreateEnsure(j) \/ CreateLoad(j) \/ CreateUnlist(j)
        BY <2>2, <2>3, <2>4, <3>1, <4>2 DEF CreateEnsure, CreateLoad, CreateUnlist, FreshSteps
      <4>3. CASE CreateClear(j)
        BY <2>2, <2>3, <2>4, <3>1, <4>3 DEF CreateClear, FreshSteps, Goto, TypeOK
      <4> QED
        BY <1>1, <4>1, <4>2, <4>3 DEF DoCreate
    <3>3. ShelfFresh' = ShelfFresh \ {p} /\ {p} \subseteq ShelfFresh /\ {p} \in SUBSET Projects
      BY <2>1, <2>2, <2>3, <3>2
    <3>4. ShelfActive' = ShelfActive \ {} /\ {} \subseteq ShelfActive /\ {} \in SUBSET Projects
      BY <2>4
    <3> QED
      BY <1>e, <3>1, <3>3, <3>4
  <2>5. CASE meta[p] = "absent" /\ meta' = [meta EXCEPT ![p] = "live"] /\ pc'[j] \in FreshSteps
    <3>1. ShelfPlace' = [ShelfPlace EXCEPT ![p] = ShelfPlace'[p]]
      BY <2>1, <2>5, Names, ShelfMoves
    <3>2. ShelfPlace[p] = "none" /\ ShelfPlace'[p] = "listed"
      BY <2>1, <2>5 DEF ShelfPlace, PlaceOf, TypeOK
    <3>3. Shelf!Create(p)
      BY <2>2, <2>4, <2>5, <3>1, <3>2
      DEF Shelf!Create, Shelf!Move, ShelfPlace, ShelfActive, ShelfFresh
    <3> QED
      BY <2>1, <3>3, Zenon DEF Shelf!Next
  <2>6. CASE /\ meta[p] = "live" /\ meta' = [meta EXCEPT ![p] = "undone"]
             /\ pc[j] \in FreshSteps /\ pc'[j] \notin FreshSteps
    <3>1. ShelfPlace' = [ShelfPlace EXCEPT ![p] = ShelfPlace'[p]]
      BY <2>1, <2>6, Names, ShelfMoves
    <3>2. ShelfPlace[p] = "listed" /\ ShelfPlace'[p] = "removed"
      BY <2>1, <2>6 DEF ShelfPlace, PlaceOf, TypeOK
    <3>3. Shelf!Undo(p)
      BY <2>2, <2>3, <2>4, <2>6, <3>1, <3>2
      DEF Shelf!Undo, Shelf!Move, ShelfPlace, ShelfActive, ShelfFresh
    <3> QED
      BY <2>1, <3>3, Zenon DEF Shelf!Next
  <2>7. CASE CreateMetadata(j)
    BY <2>1, <2>e, <2>5, <2>7 DEF CreateMetadata, FreshSteps, Goto, TypeOK
  <2>8. CASE CreateUnlist(j)
    <3>1. CASE meta[p] = "live" /\ ~ UNCHANGED meta
      BY <2>1, <2>6, <2>8, <3>1 DEF CreateUnlist, FreshSteps, Goto, TypeOK
    <3>2. CASE meta[p] # "live"
      BY <2>1, <2>e, <2>8, <3>2 DEF CreateUnlist, TypeOK
    <3> QED
      BY <2>e, <3>1, <3>2
  <2>9. CASE CreateEnsure(j) \/ CreateLoad(j) \/ CreateClear(j)
    BY <2>e, <2>9 DEF CreateEnsure, CreateLoad, CreateClear
  <2> QED
    BY <1>1, <2>7, <2>8, <2>9 DEF DoCreate
<1>2. CASE ~ DoCreate(j) /\ ~ UNCHANGED meta
  <2>0. ShelfFresh' = ShelfFresh
    <3> ~ Crash(j) /\ ~ Quit(j)
      BY <1>2 DEF Crash, Quit, Die
    <3> QED
      BY <1>0, <1>2, FreshRests
  <2>1. PICK p \in Projects : meta'[p] # meta[p]
    BY <1>2 DEF TypeOK
  <2>2. /\ tgt[j] = p
        /\ \/ DeleteMetadata(j) \/ DeleteRollback(j) \/ RestoreMetadata(j)
           \/ PurgeMetadata(j) \/ PurgeRemoveMetadata(j) \/ RemoveMetadata(j)
    BY <1>0, <1>2, <2>1, MetaMoved DEF DoCreate
  <2>3. /\ UNCHANGED run
        /\ \/ pc[j] \in MovingSteps /\ meta[p] = "live" /\ meta' = [meta EXCEPT ![p] = "trash"]
           \/ meta[p] \in {"trash", "purging"} /\ meta' = [meta EXCEPT ![p] = "live"]
           \/ meta[p] \in {"trash", "purging"} /\ meta' = [meta EXCEPT ![p] = "purging"]
           \/ meta[p] = "purging" /\ meta' = [meta EXCEPT ![p] = "gone"]
    <3>1. StepPlace(j)
      BY DEF PlaceInv
    <3>2. CASE RemoveMetadata(j)
      BY <2>1, <2>2, <3>2 DEF RemoveMetadata
    <3>3. CASE DeleteMetadata(j) \/ DeleteRollback(j)
      BY <2>1, <2>2, <3>1, <3>3
      DEF DeleteMetadata, DeleteRollback, StepPlace, MovingSteps, DeleteSteps
    <3>4. CASE RestoreMetadata(j) \/ PurgeMetadata(j) \/ PurgeRemoveMetadata(j)
      BY <2>1, <2>2, <3>1, <3>4
      DEF RestoreMetadata, PurgeMetadata, PurgeRemoveMetadata, StepPlace, Listed, RestoreSteps
    <3> QED
      BY <2>2, <3>2, <3>3, <3>4
  <2>4. meta'[p] \in MetaPlaces /\ meta' = [meta EXCEPT ![p] = meta'[p]]
    BY <2>3 DEF TypeOK
  <2>5. /\ ShelfPlace' = [ShelfPlace EXCEPT ![p] = ShelfPlace'[p]]
        /\ ShelfActive' = ShelfActive
    BY <2>3, <2>4, ShelfMoves
  <2>7. CASE pc[j] \in MovingSteps /\ meta[p] = "live" /\ meta'[p] = "trash"
    <3> ShelfPlace[p] = "listed" /\ ShelfPlace'[p] = "trashed"
      BY <2>7 DEF ShelfPlace, PlaceOf
    <3> p \notin ShelfActive
      BY <2>2, <2>7, MovesAlone DEF ShelfActive, Owned
    <3> Shelf!Trash(p)
      BY <2>0, <2>5 DEF Shelf!Trash, Shelf!Move, ShelfPlace, ShelfActive, ShelfFresh
    <3> QED
      BY DEF Shelf!Next
  <2>8. CASE meta[p] \in {"trash", "purging"} /\ meta'[p] = "live"
    <3> ShelfPlace[p] = "trashed" /\ ShelfPlace'[p] = "listed"
      BY <2>8 DEF ShelfPlace, PlaceOf
    <3> Shelf!Restore(p)
      BY <2>0, <2>5 DEF Shelf!Restore, Shelf!Move, ShelfPlace, ShelfActive, ShelfFresh
    <3> QED
      BY DEF Shelf!Next
  <2>9. CASE meta[p] \in {"trash", "purging"} /\ meta'[p] = "purging"
    <3>1. ShelfPlace[p] = "trashed" /\ ShelfPlace'[p] = "trashed"
      BY <2>9 DEF ShelfPlace, PlaceOf
    <3>2. ShelfPlace' = ShelfPlace
      BY <2>5, <3>1 DEF ShelfPlace, PlaceOf
    <3> QED
      BY <2>0, <2>5, <3>2
  <2>10. CASE meta[p] = "purging" /\ meta'[p] = "gone"
    <3> ShelfPlace[p] = "trashed" /\ ShelfPlace'[p] = "removed"
      BY <2>10 DEF ShelfPlace, PlaceOf
    <3> Shelf!Purge(p)
      BY <2>0, <2>5 DEF Shelf!Purge, Shelf!Move, ShelfPlace, ShelfActive, ShelfFresh
    <3> QED
      BY DEF Shelf!Next
  <2>11. \/ pc[j] \in MovingSteps /\ meta[p] = "live" /\ meta'[p] = "trash"
         \/ meta[p] \in {"trash", "purging"} /\ meta'[p] = "live"
         \/ meta[p] \in {"trash", "purging"} /\ meta'[p] = "purging"
         \/ meta[p] = "purging" /\ meta'[p] = "gone"
    BY <2>3 DEF TypeOK
  <2> QED
    BY <2>7, <2>8, <2>9, <2>10, <2>11
<1>3. CASE ~ DoCreate(j) /\ UNCHANGED meta
  <2>0. ShelfPlace' = ShelfPlace
    BY <1>3 DEF ShelfPlace
  <2>2. \A p \in Projects, i, k \in Instances : run[i][p] = "on" /\ run[k][p] = "on" => i = k
    <3> SUFFICES ASSUME NEW p \in Projects, NEW i \in Instances, NEW k \in Instances,
                        run[i][p] = "on", run[k][p] = "on"
                 PROVE  i = k
      OBVIOUS
    <3>1. <<i, "pipeline">> \in runLock[p] /\ <<k, "pipeline">> \in runLock[p]
      BY DEF LockInv
    <3>2. <<i, "pipeline">> = <<k, "pipeline">>
      BY <3>1 DEF LockInv
    <3> QED
      BY <3>2
  <2>3. ASSUME NEW p \in Projects, Pipeline(j, p) PROVE Shelf!Next
    <3>0. ShelfFresh' = ShelfFresh
      BY <2>3 DEF ShelfFresh, Pipeline, RunCheck, RunEnsure, RunLock, RunBegin, RunEnd
    <3>1. ASSUME NEW s \in RunSteps, SetRun(j, p, s), s # "on", run[j][p] # "on" PROVE FALSE
      <4>1. \A k \in Instances, q \in Projects : run'[k][q] = "on" <=> run[k][q] = "on"
        BY <3>1 DEF SetRun, TypeOK
      <4>2. ShelfActive' = ShelfActive
        BY <4>1 DEF ShelfActive, Owned
      <4> QED
        BY <2>0, <3>0, <4>2
    <3>2. CASE RunBegin(j, p) /\ SetRun(j, p, "on")
      <4>1. meta[p] = "live" /\ run[j][p] = "locked"
        BY <3>2 DEF RunBegin, SetRun, RunUnlock, TypeOK
      <4>2. \A k \in Instances, q \in Projects :
                run'[k][q] = IF k = j /\ q = p THEN "on" ELSE run[k][q]
        BY <3>2 DEF SetRun, TypeOK
      <4>3. ShelfActive' = ShelfActive \cup {p}
        BY <4>2 DEF ShelfActive, Owned
      <4>4. p \notin ShelfActive
        BY <2>0, <3>0, <4>3
      <4>5. ShelfPlace[p] = "listed"
        BY <4>1 DEF ShelfPlace, PlaceOf
      <4>6. Shelf!Begin(p)
        BY <2>0, <3>0, <4>3, <4>4, <4>5 DEF Shelf!Begin, ShelfPlace, ShelfActive, ShelfFresh
      <4> QED
        BY <4>6 DEF Shelf!Next
    <3>3. CASE RunEnd(j, p)
      <4>1. run[j][p] = "on" /\ SetRun(j, p, "off")
        BY <3>3 DEF RunEnd, RunUnlock
      <4>2. \A k \in Instances, q \in Projects :
                run'[k][q] = IF k = j /\ q = p THEN "off" ELSE run[k][q]
        BY <4>1 DEF SetRun, TypeOK
      <4>3. p \in ShelfActive
        BY <4>1 DEF ShelfActive, Owned
      <4>4. \A q \in Projects : Owned(q)' <=> q # p /\ Owned(q)
        BY <2>2, <4>1, <4>2 DEF Owned
      <4>5. ShelfActive' = ShelfActive \ {p}
        BY <4>4 DEF ShelfActive
      <4>6. {p} \in SUBSET Projects /\ {p} \subseteq ShelfActive
        BY <4>3
      <4>7. ShelfFresh' = ShelfFresh \ {} /\ {} \subseteq ShelfFresh /\ {} \in SUBSET Projects
        BY <3>0
      <4> QED
        BY <1>e, <2>0, <4>5, <4>6, <4>7
    <3>4. CASE RunCheck(j, p) \/ RunEnsure(j, p) \/ RunLock(j, p)
      <4>1. /\ run[j][p] # "on"
            /\ \/ SetRun(j, p, "checked") \/ SetRun(j, p, "ready")
               \/ SetRun(j, p, "locked") \/ SetRun(j, p, "off")
        BY <3>4 DEF RunCheck, RunEnsure, RunLock
      <4> QED
        BY <3>1, <4>1, Names
    <3>5. CASE RunBegin(j, p) /\ ~ SetRun(j, p, "on")
      <4>1. run[j][p] = "locked" /\ RunUnlock(j, p)
        BY <3>5 DEF RunBegin
      <4>2. SetRun(j, p, "off")
        BY <4>1 DEF RunUnlock
      <4> QED
        BY <3>1, <4>1, <4>2, Names
    <3> QED
      BY <2>3, <3>2, <3>3, <3>4, <3>5 DEF Pipeline
  <2>4. CASE Crash(j) \/ Quit(j)
    <3> DEFINE S == {p \in Projects : run[j][p] = "on"}
               F == {p \in Projects : p \in ShelfFresh /\ p \notin ShelfFresh'}
    <3>1. /\ run' = [run EXCEPT ![j] = [p \in Projects |-> "off"]] /\ UNCHANGED tgt
          /\ \A k \in Instances : pc'[k] = IF k = j THEN "down" ELSE pc[k]
      BY <2>4 DEF Crash, Quit, Die, Goto, TypeOK
    <3>2. \A k \in Instances, q \in Projects :
              run'[k][q] = "on" <=> k # j /\ run[k][q] = "on"
      BY <3>1 DEF TypeOK
    <3>3. S \subseteq ShelfActive /\ ShelfActive' = ShelfActive \ S
      BY <2>2, <3>2 DEF ShelfActive, Owned
    <3>4. ShelfFresh' \subseteq ShelfFresh /\ ShelfFresh \subseteq Projects
      BY <3>1 DEF ShelfFresh, FreshSteps
    <3>5. F \subseteq ShelfFresh /\ ShelfFresh' = ShelfFresh \ F
      BY <3>4
    <3> QED
      BY <1>e, <2>0, <3>3, <3>5
  <2>5. CASE ~ Crash(j) /\ ~ Quit(j) /\ ~ \E p \in Projects : Pipeline(j, p)
    <3>1. ShelfFresh' = ShelfFresh
      BY <1>0, <1>3, <2>5, FreshRests
    <3>2. UNCHANGED run
      BY <1>0, <1>3, <2>5
      DEF Acts, Start, Recover, RecoverProject, MarkInterrupted, InspectEntry,
          InspectQuarantine, InspectMetadata, MarkDone, FinishSoftDelete, MovesDone,
          LockQuarantine, RemoveQuarantine, WipesDone, RemoveMetadata, RecoveryDone, Create,
          CreateWorkspace, Begin, TakeRunLock, DoDelete, DeleteMetadata, DeleteWorkspace,
          DeleteRollback, DoRestore, RestoreWorkspace, RestoreMetadata, RestoreRollback, DoPurge,
          PurgeWorkspace, PurgeMetadata, PurgeRollback, PurgeRemoveWorkspace, PurgeRemoveMetadata
    <3> QED
      BY <2>0, <3>1, <3>2 DEF ShelfActive, Owned
  <2> QED
    BY <2>3, <2>4, <2>5
<1> QED
  BY <1>1, <1>2, <1>3

\* Deletions, restores, purges, crashes and recoveries, however they interleave,
\* look to the user of the project list like the single steps of ProjectShelf;
\* a project may disappear from it, run or not, while its create has not ended.
THEOREM Refinement == Spec => ShelfSpec
<1>1. Spec => Shelf!Init /\ [][Shelf!Next]_(Shelf!shelfVars)
  BY ShelfInit, ShelfStep, LifecycleCorrect, PTL DEF Spec
<1> QED
  BY <1>1 DEF ShelfSpec, Shelf!Spec

=============================================================================
