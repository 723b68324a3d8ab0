----------------------- MODULE BackupController_proofs -----------------------
(***************************************************************************)
(* Theorems about BackupController, for any number of workers, edits and    *)
(* faults.                                                                  *)
(***************************************************************************)
EXTENDS BackupController, TLAPS

LEMMA Bounds ==
  /\ MaxWorkers \in Nat /\ MaxWorkers > 0
  /\ MaxEdits \in Nat
  /\ MaxFaults \in Nat
  /\ 0 \in 0 .. MaxWorkers
BY ControllerAssumption

LEMMA SchedulesAreBooleans == Schedules \subseteq BOOLEAN
BY ControllerAssumption

LEMMA NewBackupType == NewBackup \subseteq Backup
<1> SUFFICES ASSUME NEW b \in NewBackup PROVE b \in Backup
  OBVIOUS
<1>1. b.scheduled \in BOOLEAN
  BY SchedulesAreBooleans DEF NewBackup
<1>2. b.generation = 1 /\ b.observed = 0
  BY DEF NewBackup
<1>3. /\ b.exists \in BOOLEAN /\ b.suspend \in BOOLEAN /\ b.deleting \in BOOLEAN
      /\ b.finalizer \in BOOLEAN
  BY DEF NewBackup
<1>4. b.phase \in Phase /\ b.workers \in 1 .. MaxWorkers
  BY DEF NewBackup, Phase
<1>5. b = [exists |-> b.exists, generation |-> b.generation,
           suspend |-> b.suspend, workers |-> b.workers,
           scheduled |-> b.scheduled, deleting |-> b.deleting,
           finalizer |-> b.finalizer, phase |-> b.phase,
           observed |-> b.observed]
  BY DEF NewBackup
<1> QED
  BY <1>1, <1>2, <1>3, <1>4, <1>5 DEF Backup

LEMMA TypeInit == Init => TypeOK
<1> SUFFICES ASSUME Init PROVE TypeOK
  OBVIOUS
<1>1. backup \in Backup /\ cachedBackup \in Backup /\ copy \in Backup
  BY NewBackupType DEF Init
<1>2. index = 0 /\ edits = 0 /\ faults = 0
  BY DEF Init
<1>3. index \in 0 .. MaxWorkers /\ edits \in 0 .. MaxEdits /\ faults \in 0 .. MaxFaults
  BY <1>2, Bounds
<1>4. pc \in Location /\ phase \in Phase /\ cachedCron \in BOOLEAN \X BOOLEAN
  BY DEF Init, Location, Phase
<1> QED
  BY <1>1, <1>3, <1>4 DEF Init, TypeOK

LEMMA FaultsBounded ==
  /\ TypeOK /\ MayFail => faults' \in 0 .. MaxFaults
  /\ TypeOK /\ UNCHANGED faults => faults' \in 0 .. MaxFaults
BY Bounds DEF MayFail, TypeOK

(* Reconcile returns: nothing is left of it. *)
LEMMA ReturnType ==
  ASSUME TypeOK, Return
  PROVE  /\ pc' \in Location /\ phase' \in Phase /\ copy' \in Backup
         /\ index' \in 0 .. MaxWorkers
         /\ todo' \in SUBSET (JobIds \cup {Spawned})
<1>1. index' \in 0 .. MaxWorkers
  BY Bounds DEF Return
<1>2. pc' \in Location /\ phase' \in Phase
  BY DEF Return, Goto, Location, Phase
<1> QED
  BY <1>1, <1>2 DEF Return, TypeOK

LEMMA TypeReconcile ==
  ASSUME TypeOK, Reconcile \/ AddFinalizer \/ GetReferences \/ ReconcileConfigMap
  PROVE  TypeOK'
<1>1. CASE Reconcile
  BY <1>1 DEF Reconcile, Goto, TypeOK, Location, apiVars, cacheVars
<1>2. CASE AddFinalizer
  <2>1. UNCHANGED <<jobs, cronJob, spawned, cacheVars, edits, faults>>
    BY <1>2 DEF AddFinalizer
  <2>2. backup' \in Backup
    BY <1>2 DEF AddFinalizer, TypeOK, Backup
  <2>3. /\ pc' \in Location /\ phase' \in Phase /\ copy' \in Backup
        /\ index' \in 0 .. MaxWorkers
        /\ todo' \in SUBSET (JobIds \cup {Spawned})
    <3>1. CASE Return
      BY <3>1, ReturnType
    <3>2. CASE ~Return
      BY <1>2, <2>2, <3>2 DEF AddFinalizer, Goto, TypeOK, Location
    <3> QED
      BY <3>1, <3>2
  <2> QED
    BY <2>1, <2>2, <2>3 DEF TypeOK, cacheVars
<1>3. CASE GetReferences
  <2>1. UNCHANGED <<apiVars, cacheVars, copy, index, todo, edits>>
    BY <1>3 DEF GetReferences
  <2>2. pc' \in Location /\ phase' \in Phase
    BY <1>3 DEF GetReferences, WillUpdateStatus, Goto, TypeOK, Location, Phase
  <2>3. faults' \in 0 .. MaxFaults
    BY <1>3, FaultsBounded DEF GetReferences
  <2> QED
    BY <2>1, <2>2, <2>3 DEF TypeOK, apiVars, cacheVars
<1>4. CASE ReconcileConfigMap
  <2>1. UNCHANGED <<apiVars, cacheVars, copy, index, todo, edits>>
    BY <1>4 DEF ReconcileConfigMap
  <2>2. pc' \in Location /\ phase' \in Phase
    BY <1>4 DEF ReconcileConfigMap, WillUpdateStatus, Goto, TypeOK, Location, Phase
  <2>3. faults' \in 0 .. MaxFaults
    BY <1>4, FaultsBounded DEF ReconcileConfigMap
  <2> QED
    BY <2>1, <2>2, <2>3 DEF TypeOK, apiVars, cacheVars
<1> QED
  BY <1>1, <1>2, <1>3, <1>4

(* No Job beyond the number of workers the copy asks for. *)
LEMMA TypeJobs ==
  ASSUME TypeOK, JobExists \/ CreateJob \/ JobsDone \/ ReconcileCronJob
  PROVE  TypeOK'
<1>1. MoreWorkers => index \in JobIds /\ index + 1 \in 0 .. MaxWorkers
  BY Bounds DEF MoreWorkers, JobIds, TypeOK, Backup
<1>2. CASE JobExists
  <2>1. faults' \in 0 .. MaxFaults
    BY <1>2, FaultsBounded DEF JobExists
  <2> QED
    BY <1>1, <1>2, <2>1 DEF JobExists, TypeOK, apiVars, cacheVars
<1>3. CASE CreateJob
  <2>1. UNCHANGED <<backup, cronJob, spawned, cacheVars, edits, faults>>
    BY <1>3 DEF CreateJob
  <2>2. jobs' \in SUBSET JobIds
    BY <1>1, <1>3 DEF CreateJob, TypeOK
  <2>3. /\ pc' \in Location /\ phase' \in Phase /\ copy' \in Backup
        /\ index' \in 0 .. MaxWorkers
        /\ todo' \in SUBSET (JobIds \cup {Spawned})
    <3>1. CASE Return
      BY <3>1, ReturnType
    <3>2. CASE ~Return
      BY <1>1, <1>3, <3>2 DEF CreateJob, TypeOK
    <3> QED
      BY <3>1, <3>2
  <2> QED
    BY <2>1, <2>2, <2>3 DEF TypeOK, cacheVars
<1>4. CASE JobsDone
  BY <1>4 DEF JobsDone, WillUpdateStatus, Goto, TypeOK, Location, Phase, apiVars,
              cacheVars
<1>5. CASE ReconcileCronJob
  <2>1. UNCHANGED <<backup, jobs, spawned, cacheVars, copy, index, todo, edits>>
    BY <1>5 DEF ReconcileCronJob
  <2>2. pc' \in Location /\ phase' \in Phase /\ cronJob' \in BOOLEAN
    BY <1>5 DEF ReconcileCronJob, WillUpdateStatus, Goto, TypeOK, Location, Phase
  <2>3. faults' \in 0 .. MaxFaults
    BY <1>5, FaultsBounded DEF ReconcileCronJob
  <2> QED
    BY <2>1, <2>2, <2>3 DEF TypeOK, cacheVars
<1> QED
  BY <1>2, <1>3, <1>4, <1>5

LEMMA RemoveJobType ==
  ASSUME TypeOK, NEW j, RemoveJob(j)
  PROVE  jobs' \in SUBSET JobIds /\ spawned' \in BOOLEAN
BY DEF RemoveJob, TypeOK

LEMMA TypeDeletion ==
  ASSUME TypeOK,
         \/ ListJobs \/ ListFails \/ DeleteJob \/ AllDeleted \/ CleanupJob
         \/ RemoveFinalizer
  PROVE  TypeOK'
<1>1. CASE ListJobs
  BY <1>1 DEF ListJobs, ListedJobs, Goto, TypeOK, Location, apiVars, cacheVars
<1>2. CASE DeleteJob
  <2>1. UNCHANGED <<backup, cronJob, cacheVars, edits, faults>>
    BY <1>2 DEF DeleteJob
  <2>2. jobs' \in SUBSET JobIds /\ spawned' \in BOOLEAN
    <3>1. (\E j : RemoveJob(j)) \/ UNCHANGED <<jobs, spawned>>
      BY <1>2 DEF DeleteJob
    <3> QED
      BY <3>1, RemoveJobType DEF TypeOK
  <2>3. /\ pc' \in Location /\ phase' \in Phase /\ copy' \in Backup
        /\ index' \in 0 .. MaxWorkers
        /\ todo' \in SUBSET (JobIds \cup {Spawned})
    <3>1. CASE Return
      BY <3>1, ReturnType
    <3>2. CASE ~Return
      BY <1>2, <3>2 DEF DeleteJob, TypeOK
    <3> QED
      BY <3>1, <3>2
  <2> QED
    BY <2>1, <2>2, <2>3 DEF TypeOK, cacheVars
<1>3. CASE AllDeleted
  BY <1>3 DEF AllDeleted, WillUpdateStatus, Goto, TypeOK, Location, Phase,
              apiVars, cacheVars
<1>4. CASE CleanupJob
  <2>1. UNCHANGED <<backup, cronJob, cacheVars, pc, copy, index, phase, edits>>
    BY <1>4 DEF CleanupJob
  <2>2. jobs' \in SUBSET JobIds /\ spawned' \in BOOLEAN
    <3>1. (\E j : RemoveJob(j)) \/ UNCHANGED <<jobs, spawned>>
      BY <1>4 DEF CleanupJob
    <3> QED
      BY <3>1, RemoveJobType DEF TypeOK
  <2>3. todo' \in SUBSET (JobIds \cup {Spawned})
    BY <1>4 DEF CleanupJob, TypeOK
  <2>4. faults' \in 0 .. MaxFaults
    BY <1>4, FaultsBounded DEF CleanupJob
  <2> QED
    BY <2>1, <2>2, <2>3, <2>4 DEF TypeOK, cacheVars
<1>5. CASE ListFails
  <2>1. faults' \in 0 .. MaxFaults
    BY <1>5, FaultsBounded DEF ListFails
  <2> QED
    BY <1>5, <2>1 DEF ListFails, Goto, TypeOK, Location, apiVars, cacheVars
<1>6. CASE RemoveFinalizer
  <2>1. UNCHANGED <<jobs, cronJob, spawned, cacheVars, edits, faults>> /\ Return
    BY <1>6 DEF RemoveFinalizer
  <2>2. backup' \in Backup
    BY <1>6 DEF RemoveFinalizer, TypeOK, Backup
  <2> QED
    BY <2>1, <2>2, ReturnType DEF TypeOK, cacheVars
<1> QED
  BY <1>1, <1>2, <1>3, <1>4, <1>5, <1>6

LEMMA TypeStatus ==
  ASSUME TypeOK, UpdateStatus \/ ApiFails \/ Restart
  PROVE  TypeOK'
<1>1. Return /\ UNCHANGED <<jobs, cronJob, spawned, cacheVars, edits>>
  BY DEF UpdateStatus, ApiFails, CallFails, Restart, apiVars
<1>2. backup' \in Backup
  BY DEF UpdateStatus, ApiFails, CallFails, Restart, TypeOK, Backup, apiVars
<1>3. faults' \in 0 .. MaxFaults
  BY FaultsBounded DEF UpdateStatus, ApiFails, CallFails, Restart
<1> QED
  BY <1>1, <1>2, <1>3, ReturnType DEF TypeOK, cacheVars

LEMMA TypeCluster ==
  ASSUME TypeOK, SyncBackup \/ SyncJobs \/ SpawnJob \/ CollectGarbage
  PROVE  TypeOK'
<1>1. CASE SyncBackup
  BY <1>1 DEF SyncBackup, TypeOK, apiVars, localVars
<1>2. CASE SyncJobs
  BY <1>2 DEF SyncJobs, TypeOK, apiVars, localVars
<1>3. CASE SpawnJob
  BY <1>3 DEF SpawnJob, TypeOK, cacheVars, localVars
<1>4. CASE CollectGarbage
  BY <1>4 DEF CollectGarbage, TypeOK, cacheVars, localVars
<1> QED
  BY <1>1, <1>2, <1>3, <1>4

LEMMA EditType ==
  ASSUME TypeOK, EditSpec
  PROVE  /\ backup' \in Backup
         /\ backup'.generation = backup.generation + 1
         /\ backup'.observed = backup.observed
<1>1. backup.generation + 1 \in Nat
  BY DEF TypeOK, Backup
<1>2. CASE \E suspend \in BOOLEAN :
             backup' = [backup EXCEPT !.generation = backup.generation + 1,
                                      !.suspend = suspend]
  BY <1>1, <1>2 DEF TypeOK, Backup
<1>3. CASE \E n \in 1 .. MaxWorkers :
             backup' = [backup EXCEPT !.generation = backup.generation + 1,
                                      !.workers = n]
  BY <1>1, <1>3 DEF TypeOK, Backup
<1>4. CASE \E s \in BOOLEAN :
             backup' = [backup EXCEPT !.generation = backup.generation + 1,
                                      !.scheduled = s]
  BY <1>1, <1>4 DEF TypeOK, Backup
<1>5. (~backup.suspend) \in BOOLEAN
  BY SMT
<1> QED
  BY <1>2, <1>3, <1>4, <1>5, SchedulesAreBooleans, Zenon DEF EditSpec

LEMMA TypeUser ==
  ASSUME TypeOK, UserAction
  PROVE  TypeOK'
<1>1. /\ backup' \in Backup
      /\ jobs' \in SUBSET JobIds
  <2>1. CASE EditSpec
    <3>1. jobs' = jobs
      BY <2>1 DEF EditSpec
    <3> QED
      BY <2>1, <3>1, EditType DEF TypeOK
  <2>2. CASE DeleteBackup
    <3>1. jobs' = jobs
      BY <2>2 DEF DeleteBackup
    <3>2. backup.generation + 1 \in Nat
      BY DEF TypeOK, Backup
    <3>3. \/ backup' = [backup EXCEPT !.generation = backup.generation + 1,
                                       !.deleting = TRUE]
          \/ backup' = [backup EXCEPT !.exists = FALSE]
      BY <2>2, Zenon DEF DeleteBackup
    <3>4. backup' \in Backup
      BY <3>2, <3>3 DEF TypeOK, Backup
    <3> QED
      BY <3>1, <3>4 DEF TypeOK
  <2>3. CASE UserDeletesJob
    <3>1. backup' = backup /\ jobs' \subseteq jobs
      BY <2>3 DEF UserDeletesJob
    <3> QED
      BY <3>1 DEF TypeOK
  <2>4. CASE ChangeReferences
    BY <2>4 DEF ChangeReferences, apiVars, TypeOK
  <2> QED
    BY <2>1, <2>2, <2>3, <2>4 DEF UserAction
<1>2. UserStep
  BY Zenon DEF UserAction, EditSpec, DeleteBackup, UserDeletesJob, ChangeReferences
<1>3. edits' \in 0 .. MaxEdits
  BY <1>2, Bounds DEF UserStep, TypeOK
<1>4. /\ UNCHANGED <<cronJob, spawned, cachedBackup, cachedJobs, cachedCron, pc,
                    localVars, faults>>
      /\ hasReferences' \in {hasReferences, ~hasReferences}
  BY Zenon DEF UserAction, EditSpec, DeleteBackup, UserDeletesJob, ChangeReferences,
     apiVars, cacheVars
<1>5. hasReferences' \in BOOLEAN
  BY <1>4 DEF TypeOK
<1> QED
  BY <1>1, <1>3, <1>4, <1>5 DEF TypeOK, localVars

LEMMA TypeStep == TypeOK /\ [Next]_vars => TypeOK'
<1> SUFFICES ASSUME TypeOK, [Next]_vars PROVE TypeOK'
  OBVIOUS
<1>1. CASE UNCHANGED vars
  BY <1>1 DEF vars, apiVars, cacheVars, localVars, TypeOK
<1>2. CASE ControllerStep
  BY <1>2, TypeReconcile, TypeJobs, TypeDeletion, TypeStatus DEF ControllerStep
<1> QED
  BY <1>1, <1>2, TypeStatus, TypeCluster, TypeUser DEF Next

(* Every variable keeps its type: the loop of reconcileJob creates no Job    *)
(* beyond WorkGroup.Workers, whatever copy of the Backup it works on.       *)
THEOREM TypeCorrect == Spec => []TypeOK
<1> QED
  BY TypeInit, TypeStep, PTL DEF Spec

-----------------------------------------------------------------------------
(* StatusDescribesSpec is not inductive: it has to be known which spec the   *)
(* phase was decided on, and that no status is ahead of its generation.     *)

Describes(p, b) ==
  /\ p = "Suspended" => b.suspend
  /\ p = "Running" => ~b.suspend

StatusInv ==
  /\ backup.observed <= backup.generation
  /\ backup.observed = backup.generation => Describes(backup.phase, backup)
  /\ pc \in {"configMap", "jobs", "cronJob"} => ~copy.suspend
  /\ pc \in {"suspend", "deleteJobs"} => copy.suspend
  /\ pc = "status" => Describes(phase, copy)

LEMMA StatusInit == Init => StatusInv
<1> SUFFICES ASSUME Init PROVE StatusInv
  OBVIOUS
<1>1. backup.observed = 0 /\ backup.generation = 1 /\ pc = "idle"
  BY DEF Init, NewBackup
<1> QED
  BY <1>1 DEF StatusInv

(* The reconciler has decided on the copy it has read.                      *)
LEMMA StatusReconciler ==
  ASSUME TypeOK, StatusInv, ControllerStep
  PROVE  StatusInv'
<1>1. CASE Reconcile
  BY <1>1 DEF Reconcile, Goto, StatusInv, Describes, apiVars
<1>2. CASE AddFinalizer
  BY <1>2 DEF AddFinalizer, Return, Goto, StatusInv, Describes, TypeOK, Backup
<1>3. CASE GetReferences \/ ReconcileConfigMap
  BY <1>3 DEF GetReferences, ReconcileConfigMap, WillUpdateStatus, Goto, StatusInv,
              Describes, apiVars
<1>4. CASE JobExists \/ CreateJob \/ JobsDone
  BY <1>4 DEF JobExists, CreateJob, JobsDone, WillUpdateStatus, Return, Goto,
              StatusInv, Describes, apiVars
<1>5. CASE ReconcileCronJob
  BY <1>5 DEF ReconcileCronJob, WillUpdateStatus, Goto, StatusInv, Describes
<1>6. CASE ListJobs \/ ListFails \/ DeleteJob \/ AllDeleted
  BY <1>6 DEF ListJobs, ListFails, DeleteJob, AllDeleted, WillUpdateStatus, Return, Goto,
              StatusInv, Describes, apiVars
<1>7. CASE CleanupJob \/ RemoveFinalizer
  BY <1>7 DEF CleanupJob, RemoveFinalizer, Return, Goto, StatusInv, Describes,
              TypeOK, Backup
<1>8. CASE UpdateStatus
  <2>1. CASE UpToDate
    <3>1. backup' = [copy EXCEPT !.phase = phase, !.observed = copy.generation]
      BY <1>8, <2>1 DEF UpdateStatus, UpToDate
    <3>2. Describes(phase, copy)
      BY <1>8 DEF UpdateStatus, StatusInv
    <3>3. /\ backup'.observed = copy.generation
          /\ backup'.generation = copy.generation
          /\ backup'.phase = phase
          /\ backup'.suspend = copy.suspend
      BY <3>1 DEF TypeOK, Backup
    <3>4. pc' = "idle"
      BY <1>8 DEF UpdateStatus, Return, Goto
    <3>5. copy.generation \in Nat
      BY DEF TypeOK, Backup
    <3> QED
      BY <3>2, <3>3, <3>4, <3>5 DEF StatusInv, Describes
  <2>2. CASE ~UpToDate
    BY <1>8, <2>2 DEF UpdateStatus, Return, Goto, StatusInv, Describes
  <2> QED
    BY <2>1, <2>2
<1> QED
  BY <1>1, <1>2, <1>3, <1>4, <1>5, <1>6, <1>7, <1>8 DEF ControllerStep

(* An edit makes a new generation, which no status is about yet.            *)
LEMMA StatusUser ==
  ASSUME TypeOK, StatusInv, UserAction
  PROVE  StatusInv'
<1>1. UNCHANGED <<pc, copy, phase>>
  BY Zenon DEF UserAction, EditSpec, DeleteBackup, UserDeletesJob, ChangeReferences,
     localVars
<1>2. /\ backup'.observed <= backup'.generation
      /\ backup'.observed = backup'.generation => Describes(backup'.phase, backup')
  <2>1. CASE EditSpec
    BY <2>1, EditType DEF StatusInv, TypeOK, Backup
  <2>2. CASE DeleteBackup
    BY <2>2 DEF DeleteBackup, StatusInv, Describes, TypeOK, Backup
  <2>3. CASE UserDeletesJob
    BY <2>3 DEF UserDeletesJob, StatusInv
  <2>4. CASE ChangeReferences
    BY <2>4 DEF ChangeReferences, StatusInv, apiVars
  <2> QED
    BY <2>1, <2>2, <2>3, <2>4 DEF UserAction
<1> QED
  BY <1>1, <1>2 DEF StatusInv, Describes

LEMMA StatusStep == TypeOK /\ StatusInv /\ [Next]_vars => StatusInv'
<1> SUFFICES ASSUME TypeOK, StatusInv, [Next]_vars PROVE StatusInv'
  OBVIOUS
<1>1. CASE ApiFails \/ Restart
  BY <1>1 DEF ApiFails, CallFails, Restart, Return, Goto, StatusInv, Describes, apiVars
<1>2. CASE SyncBackup \/ SyncJobs \/ SpawnJob \/ CollectGarbage
  BY <1>2 DEF SyncBackup, SyncJobs, SpawnJob, CollectGarbage, StatusInv, Describes,
              apiVars, localVars
<1>3. CASE UNCHANGED vars
  BY <1>3 DEF vars, apiVars, localVars, StatusInv, Describes
<1> QED
  BY <1>1, <1>2, <1>3, StatusReconciler, StatusUser DEF Next

(* ObservedGeneration is honest, however far the caches are behind and       *)
(* whatever users do while a Reconcile is under way (updateStatus).         *)
THEOREM StatusIsHonest == Spec => []StatusDescribesSpec
<1>1. StatusInv => StatusDescribesSpec
  BY DEF StatusInv, Describes, StatusDescribesSpec
<1> QED
  BY <1>1, TypeInit, TypeStep, StatusInit, StatusStep, PTL DEF Spec
-----------------------------------------------------------------------------
(* AcknowledgedSuspensionHolds needs to know what the outdated copies can    *)
(* be: none is from a later generation, one of the same generation has the  *)
(* same suspend, and once a status is about a generation the cache has that *)
(* generation too, since the copy the status was decided on came from it.   *)

Seen(b) ==
  /\ b.generation <= backup.generation
  /\ b.generation = backup.generation => b.suspend = backup.suspend

Acknowledged == backup.observed = backup.generation

CacheInv ==
  /\ Seen(cachedBackup)
  /\ Seen(copy)
  /\ copy.generation <= cachedBackup.generation
  /\ Acknowledged => cachedBackup.generation = backup.generation
  /\ Acknowledged /\ pc # "idle" => copy.generation = backup.generation

LEMMA CacheInit == Init => CacheInv
<1> SUFFICES ASSUME Init PROVE CacheInv
  OBVIOUS
<1>1. backup.observed = 0 /\ backup.generation = 1
  BY DEF Init, NewBackup
<1>2. cachedBackup = backup /\ copy = backup
  BY DEF Init
<1> QED
  BY <1>1, <1>2 DEF CacheInv, Seen, Acknowledged

LEMMA Generations ==
  TypeOK => /\ backup.generation \in Nat /\ backup.observed \in Nat
            /\ cachedBackup.generation \in Nat /\ copy.generation \in Nat
BY DEF TypeOK, Backup

(* Nothing that CacheInv speaks of changes but the place of Reconcile.      *)
LEMMA CacheKept ==
  ASSUME CacheInv, UNCHANGED <<backup, cachedBackup, copy>>,
         pc # "idle" \/ pc' = "idle"
  PROVE  CacheInv'
BY DEF CacheInv, Seen, Acknowledged

(* The object changes and its generation and suspend do not.                *)
LEMMA CacheSameSpec ==
  ASSUME CacheInv, UNCHANGED <<cachedBackup, copy>>,
         backup'.generation = backup.generation,
         backup'.suspend = backup.suspend,
         Acknowledged' => Acknowledged,
         pc # "idle" \/ pc' = "idle"
  PROVE  CacheInv'
BY DEF CacheInv, Seen, Acknowledged

LEMMA CacheReconciler ==
  ASSUME TypeOK, CacheInv, ControllerStep
  PROVE  CacheInv'
<1>1. CASE Reconcile
  <2>1. copy' = cachedBackup /\ UNCHANGED <<backup, cachedBackup>>
    BY <1>1 DEF Reconcile, apiVars, cacheVars
  <2> QED
    BY <2>1, Generations DEF CacheInv, Seen, Acknowledged
<1>2. CASE AddFinalizer
  <2>1. cachedBackup' = cachedBackup /\ pc # "idle"
    BY <1>2 DEF AddFinalizer, cacheVars
  <2>2. CASE UpToDate /\ backup' = [backup EXCEPT !.finalizer = TRUE] /\ copy' = backup'
    <3>1. /\ backup'.generation = backup.generation
          /\ backup'.suspend = backup.suspend
          /\ backup'.observed = backup.observed
      BY <2>2 DEF TypeOK, Backup
    <3>2. copy.generation = backup.generation
      BY <2>2 DEF UpToDate
    <3> QED
      BY <2>1, <2>2, <3>1, <3>2, Generations DEF CacheInv, Seen, Acknowledged
  <2>3. CASE UNCHANGED backup /\ Return
    BY <2>1, <2>3, CacheKept DEF Return
  <2> QED
    BY <1>2, <2>2, <2>3 DEF AddFinalizer
<1>3. CASE GetReferences \/ ReconcileConfigMap
  BY <1>3, CacheKept DEF GetReferences, ReconcileConfigMap, apiVars, cacheVars
<1>4. CASE JobExists \/ CreateJob \/ JobsDone \/ ReconcileCronJob
  <2>1. UNCHANGED <<backup, cachedBackup>> /\ pc # "idle"
    BY <1>4 DEF JobExists, CreateJob, JobsDone, ReconcileCronJob, apiVars, cacheVars
  <2>2. copy' = copy
    BY <1>4 DEF JobExists, CreateJob, JobsDone, ReconcileCronJob, Return
  <2> QED
    BY <2>1, <2>2, CacheKept
<1>5. CASE ListJobs \/ ListFails \/ DeleteJob \/ AllDeleted \/ CleanupJob
  <2>1. UNCHANGED <<backup, cachedBackup>> /\ pc # "idle"
    BY <1>5 DEF ListJobs, ListFails, DeleteJob, AllDeleted, CleanupJob, apiVars, cacheVars
  <2>2. copy' = copy
    BY <1>5 DEF ListJobs, ListFails, DeleteJob, AllDeleted, CleanupJob, Return
  <2> QED
    BY <2>1, <2>2, CacheKept
<1>6. CASE RemoveFinalizer
  <2>1. UNCHANGED <<cachedBackup, copy>> /\ pc # "idle"
    BY <1>6 DEF RemoveFinalizer, Return, cacheVars
  <2>2. /\ backup'.generation = backup.generation
        /\ backup'.suspend = backup.suspend
        /\ backup'.observed = backup.observed
    BY <1>6 DEF RemoveFinalizer, TypeOK, Backup
  <2> QED
    BY <2>1, <2>2, CacheSameSpec DEF Acknowledged
<1>7. CASE UpdateStatus
  <2>1. UNCHANGED <<cachedBackup, copy>> /\ pc # "idle" /\ pc' = "idle"
    BY <1>7 DEF UpdateStatus, Return, Goto, cacheVars
  <2>2. CASE UpToDate
    (* The copy is not ahead of the cache, and nothing is ahead of it.      *)
    <3>1. copy.generation = backup.generation
      BY <2>2 DEF UpToDate
    <3>2. cachedBackup.generation = backup.generation
      BY <3>1, Generations DEF CacheInv, Seen
    <3>3. /\ backup'.generation = backup.generation
          /\ backup'.suspend = backup.suspend
      BY <1>7, <2>2 DEF UpdateStatus, TypeOK, Backup
    <3> QED
      BY <2>1, <3>1, <3>2, <3>3 DEF CacheInv, Seen, Acknowledged
  <2>3. CASE ~UpToDate
    BY <1>7, <2>1, <2>3, CacheKept DEF UpdateStatus
  <2> QED
    BY <2>2, <2>3
<1> QED
  BY <1>1, <1>2, <1>3, <1>4, <1>5, <1>6, <1>7 DEF ControllerStep

(* An edit leaves every copy behind, and no status is about it yet.         *)
LEMMA CacheUser ==
  ASSUME TypeOK, StatusInv, CacheInv, UserAction
  PROVE  CacheInv'
<1>1. UNCHANGED <<cachedBackup, pc, copy>>
  BY Zenon DEF UserAction, EditSpec, DeleteBackup, UserDeletesJob, ChangeReferences,
     localVars, cacheVars
<1>2. CASE UNCHANGED backup
  BY <1>1, <1>2 DEF CacheInv, Seen, Acknowledged
<1>3. CASE /\ backup'.generation = backup.generation + 1
           /\ backup'.observed = backup.observed
  BY <1>1, <1>3, Generations DEF CacheInv, Seen, Acknowledged, StatusInv
<1>4. CASE /\ backup'.generation = backup.generation
           /\ backup'.observed = backup.observed
           /\ backup'.suspend = backup.suspend
  BY <1>1, <1>4 DEF CacheInv, Seen, Acknowledged
<1>5. CASE EditSpec
  BY <1>3, <1>5, EditType
<1>6. CASE DeleteBackup
  <2>1. \/ backup' = [backup EXCEPT !.generation = backup.generation + 1,
                                     !.deleting = TRUE]
        \/ backup' = [backup EXCEPT !.exists = FALSE]
    BY <1>6, Zenon DEF DeleteBackup
  <2> QED
    BY <1>3, <1>4, <2>1 DEF TypeOK, Backup
<1>7. CASE UserDeletesJob \/ ChangeReferences
  BY <1>2, <1>7 DEF UserDeletesJob, ChangeReferences, apiVars
<1> QED
  BY <1>5, <1>6, <1>7 DEF UserAction

LEMMA CacheStep == TypeOK /\ StatusInv /\ CacheInv /\ [Next]_vars => CacheInv'
<1> SUFFICES ASSUME TypeOK, StatusInv, CacheInv, [Next]_vars PROVE CacheInv'
  OBVIOUS
<1>1. CASE ApiFails \/ Restart
  BY <1>1, CacheKept DEF ApiFails, CallFails, Restart, Return, Goto, apiVars, cacheVars
<1>2. CASE SyncBackup
  <2>1. cachedBackup' = backup /\ UNCHANGED <<backup, copy, pc>>
    BY <1>2 DEF SyncBackup, apiVars, localVars
  <2> QED
    BY <2>1, Generations DEF CacheInv, Seen, Acknowledged
<1>3. CASE SyncJobs \/ SpawnJob \/ CollectGarbage \/ UNCHANGED vars
  <2>1. UNCHANGED <<backup, cachedBackup, copy, pc>>
    BY <1>3 DEF SyncJobs, SpawnJob, CollectGarbage, vars, apiVars, cacheVars, localVars
  <2> QED
    BY <2>1 DEF CacheInv, Seen, Acknowledged
<1> QED
  BY <1>1, <1>2, <1>3, CacheReconciler, CacheUser DEF Next

(* Jobs come from reconcileJob, which runs on a copy that is not suspended. *)
LEMMA JobsOnlyFromActiveCopy ==
  ASSUME TypeOK, StatusInv, CacheInv, [Next]_vars, SuspensionAcknowledged
  PROVE  jobs' \subseteq jobs
<1>1. ~CreateJob
  <2>1. backup.suspend
    BY DEF StatusInv, Describes, SuspensionAcknowledged
  <2>2. pc = "jobs" => ~copy.suspend /\ copy.generation = backup.generation
    BY DEF StatusInv, CacheInv, Acknowledged, SuspensionAcknowledged
  <2> QED
    BY <2>1, <2>2 DEF CacheInv, Seen, CreateJob
<1>2. CASE ControllerStep
  BY <1>1, <1>2 DEF ControllerStep, Reconcile, AddFinalizer, GetReferences,
     ReconcileConfigMap, JobExists, JobsDone, ReconcileCronJob, ListJobs, ListFails,
     DeleteJob, AllDeleted, CleanupJob, RemoveFinalizer, UpdateStatus,
     RemoveJob, apiVars
<1>3. CASE ApiFails \/ Restart
  BY <1>3 DEF ApiFails, CallFails, Restart, apiVars
<1>4. CASE SyncBackup \/ SyncJobs \/ SpawnJob \/ CollectGarbage
  BY <1>4 DEF SyncBackup, SyncJobs, SpawnJob, CollectGarbage, apiVars
<1>5. CASE UserAction
  BY <1>5 DEF UserAction, EditSpec, DeleteBackup, UserDeletesJob, ChangeReferences,
     apiVars
<1>6. CASE UNCHANGED vars
  BY <1>6 DEF vars, apiVars
<1> QED
  BY <1>2, <1>3, <1>4, <1>5, <1>6 DEF Next

(* Once the status acknowledges a suspension the reconciler creates no Job  *)
(* until the next edit, whichever copies it works on (reconcileJob).        *)
THEOREM SuspensionHolds == Spec => AcknowledgedSuspensionHolds
<1>1. TypeOK /\ StatusInv /\ CacheInv /\ [Next]_vars
        => [SuspensionAcknowledged => jobs' \subseteq jobs]_vars
  BY JobsOnlyFromActiveCopy
<1> QED
  BY <1>1, TypeInit, TypeStep, StatusInit, StatusStep, CacheInit, CacheStep, PTL
     DEF Spec, AcknowledgedSuspensionHolds
=============================================================================
