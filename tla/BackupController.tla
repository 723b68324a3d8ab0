-------------------------- MODULE BackupController --------------------------
(***************************************************************************)
(* The operator's reconciler for one Backup resource                        *)
(* (controllers/backup_controller.go), the API server it writes to, the     *)
(* informer caches it reads from, and what users and the other controllers  *)
(* of the cluster do to the same objects meanwhile.                         *)
(*                                                                         *)
(* A step is one call of the reconciler to the API server.  A read returns  *)
(* what the cache holds, which is some earlier state of the object; a write *)
(* that was prepared from an outdated object is refused (resourceVersion).  *)
(* An object is told apart by its content, which has the generation in it.  *)
(***************************************************************************)
EXTENDS Integers, FiniteSets

CONSTANTS
  MaxWorkers,   \* bound: WorkGroup.Workers
  MaxEdits,     \* bound: what users do to the Backup, its Jobs and references
  MaxFaults,    \* bound: failing calls and restarts of the operator
  Schedules     \* the values that Schedule # "" may take

ASSUME ControllerAssumption ==
  /\ MaxWorkers \in Nat \ {0}
  /\ MaxEdits \in Nat
  /\ MaxFaults \in Nat
  /\ Schedules \subseteq BOOLEAN

VARIABLES
  backup,       \* the Backup in the API server
  jobs,         \* worker Jobs in the API server, by number
  cronJob,      \* whether there is a CronJob, and
  spawned,      \* whether there are Jobs that it has made
  cachedBackup, \* the reconciler's view of backup,
  cachedJobs,   \* of jobs,
  cachedCron,   \* and of cronJob and spawned
  hasReferences, \* whether it sees the KafkaCluster and the StorageConfig
  pc,           \* where Reconcile is
  copy,         \* the Backup it has read
  index,        \* loop of reconcileJob
  todo,         \* loops of handleSuspension and handleDeletion
  phase,        \* what updateStatus is called with
  edits,        \* changes made by users
  faults        \* calls that failed, and restarts

apiVars == <<backup, jobs, cronJob, spawned>>
cacheVars == <<cachedBackup, cachedJobs, cachedCron, hasReferences>>
localVars == <<copy, index, todo, phase>>
vars == <<apiVars, cacheVars, pc, localVars, edits, faults>>

-----------------------------------------------------------------------------
(* State *)

JobIds == 0 .. MaxWorkers - 1

(* The Job that stands for those the CronJob has made. *)
Spawned == MaxWorkers

Phase == {"", "Running", "Suspended", "Failed"}

Backup ==
  [exists : BOOLEAN, generation : Nat, suspend : BOOLEAN,
   workers : 1 .. MaxWorkers, scheduled : BOOLEAN, deleting : BOOLEAN,
   finalizer : BOOLEAN, phase : Phase, observed : Nat]

NewBackup ==
  [exists : {TRUE}, generation : {1}, suspend : BOOLEAN,
   workers : 1 .. MaxWorkers, scheduled : Schedules, deleting : {FALSE},
   finalizer : {FALSE}, phase : {""}, observed : {0}]

Location ==
  {"idle", "finalizer", "references", "configMap", "jobs", "cronJob",
   "suspend", "deleteJobs", "cleanup", "deleteAll", "removeFinalizer",
   "status"}

Init ==
  /\ backup \in NewBackup
  /\ jobs = {}
  /\ cronJob = FALSE
  /\ spawned = FALSE
  /\ cachedBackup = backup
  /\ cachedJobs = {}
  /\ cachedCron = <<FALSE, FALSE>>
  /\ hasReferences \in BOOLEAN
  /\ pc = "idle"
  /\ copy = backup
  /\ index = 0
  /\ todo = {}
  /\ phase = ""
  /\ edits = 0
  /\ faults = 0

-----------------------------------------------------------------------------
(* Helpers *)

Goto(location) == pc' = location

(* Reconcile returns: at once for an error, after 30 seconds for a status,  *)
(* the request is in the queue again.                                       *)
Return == Goto("idle") /\ index' = 0 /\ todo' = {} /\ phase' = "" /\ UNCHANGED copy

WillUpdateStatus(p) == Goto("status") /\ phase' = p

MayFail == faults < MaxFaults /\ faults' = faults + 1

(* The write is refused unless the object is still the one that was read.   *)
UpToDate == backup = copy

(* A call fails: Reconcile returns its error. *)
CallFails(location) ==
  /\ pc = location
  /\ MayFail
  /\ Return
  /\ UNCHANGED <<apiVars, cacheVars, edits>>

-----------------------------------------------------------------------------
(* Reconcile *)

(* r.Get of the Backup, and which way its state leads.                      *)
Reconcile ==
  /\ pc = "idle"
  /\ cachedBackup.exists
  /\ copy' = cachedBackup
  /\ Goto(IF cachedBackup.deleting
            THEN IF cachedBackup.finalizer THEN "cleanup" ELSE "idle"
            ELSE IF cachedBackup.finalizer THEN "references" ELSE "finalizer")
  /\ UNCHANGED <<apiVars, cacheVars, index, todo, phase, edits, faults>>

AddFinalizer ==
  /\ pc = "finalizer"
  /\ \/ /\ UpToDate
        /\ backup' = [backup EXCEPT !.finalizer = TRUE]
        /\ copy' = backup'
        /\ Goto("references")
        /\ UNCHANGED <<index, todo, phase>>
     \/ /\ ~UpToDate
        /\ Return
        /\ UNCHANGED backup
  /\ UNCHANGED <<jobs, cronJob, spawned, cacheVars, edits, faults>>

(* The KafkaCluster and the StorageConfig come before anything else, the    *)
(* suspension included: without one of them the backup is Failed.           *)
GetReferences ==
  /\ pc = "references"
  /\ \/ /\ hasReferences
        /\ Goto(IF copy.suspend THEN "suspend" ELSE "configMap")
        /\ UNCHANGED <<phase, faults>>
     \/ /\ ~hasReferences
        /\ WillUpdateStatus("Failed")
        /\ UNCHANGED faults
     \/ MayFail /\ WillUpdateStatus("Failed")
  /\ UNCHANGED <<apiVars, cacheVars, copy, index, todo, edits>>

(* CreateOrUpdate of the ConfigMap; an error is a failed backup.            *)
ReconcileConfigMap ==
  /\ pc = "configMap"
  /\ \/ /\ Goto(IF copy.scheduled THEN "cronJob" ELSE "jobs")
        /\ UNCHANGED <<phase, faults>>
     \/ MayFail /\ WillUpdateStatus("Failed")
  /\ UNCHANGED <<apiVars, cacheVars, copy, index, todo, edits>>

-----------------------------------------------------------------------------
(* reconcileJob: a Job for every worker number that has none, and nothing    *)
(* for the Jobs there are                                                    *)

MoreWorkers_OneLess == index < copy.workers - 1

MoreWorkers_OneMore == index <= copy.workers

MoreWorkers == index < copy.workers

(* The Job is there, or r.Get fails: any error but NotFound is dropped, and  *)
(* the loop goes on to the Running status without this worker.              *)
JobExists ==
  /\ pc = "jobs"
  /\ MoreWorkers
  /\ (index \in cachedJobs /\ UNCHANGED faults) \/ MayFail
  /\ index' = index + 1
  /\ UNCHANGED <<apiVars, cacheVars, pc, copy, todo, phase, edits>>

CreateJob ==
  /\ pc = "jobs"
  /\ MoreWorkers
  /\ index \notin cachedJobs
  /\ \/ /\ index \notin jobs
        /\ jobs' = jobs \cup {index}
        /\ index' = index + 1
        /\ UNCHANGED <<pc, copy, todo, phase>>
     \/ /\ index \in jobs
        /\ Return
        /\ UNCHANGED jobs
  /\ UNCHANGED <<backup, cronJob, spawned, cacheVars, edits, faults>>

JobsDone ==
  /\ pc = "jobs"
  /\ ~MoreWorkers
  /\ WillUpdateStatus("Running")
  /\ UNCHANGED <<apiVars, cacheVars, copy, index, todo, edits, faults>>

(* CreateOrUpdate of the CronJob.  A cache that does not have it yet makes  *)
(* the reconciler create it a second time, which fails.                     *)
ReconcileCronJob ==
  /\ pc = "cronJob"
  /\ \/ /\ cachedCron[1] = cronJob
        /\ cronJob' = TRUE
        /\ WillUpdateStatus("Running")
        /\ UNCHANGED faults
     \/ /\ cachedCron[1] # cronJob
        /\ WillUpdateStatus("Failed")
        /\ UNCHANGED <<cronJob, faults>>
     \/ /\ MayFail
        /\ WillUpdateStatus("Failed")
        /\ UNCHANGED cronJob
  /\ UNCHANGED <<backup, jobs, spawned, cacheVars, copy, index, todo, edits>>

-----------------------------------------------------------------------------
(* handleSuspension and handleDeletion *)

ListedJobs_WorkersOnly == cachedJobs \cap (0 .. copy.workers - 1)

(* The Jobs with the label backup, as the cache has them.  Those of the     *)
(* CronJob get it from the template of their pods.                          *)
ListedJobs == cachedJobs \cup (IF cachedCron[2] THEN {Spawned} ELSE {})

ListJobs ==
  /\ \/ pc = "suspend" /\ Goto("deleteJobs")
     \/ pc = "cleanup" /\ Goto("deleteAll")
  /\ todo' = ListedJobs
  /\ UNCHANGED <<apiVars, cacheVars, copy, index, phase, edits, faults>>

(* handleDeletion drops the error of its List and deletes nothing.          *)
ListFails ==
  /\ pc = "cleanup"
  /\ MayFail
  /\ Goto("deleteAll")
  /\ UNCHANGED <<apiVars, cacheVars, copy, index, todo, phase, edits>>

JobInApi(j) == IF j = Spawned THEN spawned ELSE j \in jobs

RemoveJob(j) ==
  /\ jobs' = jobs \ {j}
  /\ spawned' = (spawned /\ j # Spawned)

(* A Job that is gone already makes Reconcile return an error.              *)
DeleteJob ==
  /\ pc = "deleteJobs"
  /\ \E j \in todo :
       \/ /\ JobInApi(j)
          /\ RemoveJob(j)
          /\ todo' = todo \ {j}
          /\ UNCHANGED <<pc, copy, index, phase>>
       \/ /\ ~JobInApi(j)
          /\ Return
          /\ UNCHANGED <<jobs, spawned>>
  /\ UNCHANGED <<backup, cronJob, cacheVars, edits, faults>>

AllDeleted ==
  /\ pc = "deleteJobs"
  /\ todo = {}
  /\ WillUpdateStatus("Suspended")
  /\ UNCHANGED <<apiVars, cacheVars, copy, index, todo, edits, faults>>

(* Errors are ignored here. *)
CleanupJob ==
  /\ pc = "deleteAll"
  /\ \E j \in todo :
       /\ todo' = todo \ {j}
       /\ \/ RemoveJob(j) /\ UNCHANGED faults
          \/ MayFail /\ UNCHANGED <<jobs, spawned>>
  /\ UNCHANGED <<backup, cronJob, cacheVars, pc, copy, index, phase, edits>>

RemoveFinalizer_Never ==
  /\ pc = "deleteAll"
  /\ todo = {}
  /\ Return
  /\ UNCHANGED <<apiVars, cacheVars, edits, faults>>

(* A Backup that is being deleted goes with its last finalizer.             *)
RemoveFinalizer ==
  /\ pc = "deleteAll"
  /\ todo = {}
  /\ backup' = IF UpToDate THEN [backup EXCEPT !.exists = FALSE] ELSE backup
  /\ Return
  /\ UNCHANGED <<jobs, cronJob, spawned, cacheVars, edits, faults>>

-----------------------------------------------------------------------------
(* updateStatus *)

UpdateStatus_Refetches ==
  /\ pc = "status"
  /\ backup' = IF backup.exists
                 THEN [backup EXCEPT !.phase = phase,
                                     !.observed = backup.generation]
                 ELSE backup
  /\ Return
  /\ UNCHANGED <<jobs, cronJob, spawned, cacheVars, edits, faults>>

UpdateStatus ==
  /\ pc = "status"
  /\ backup' = IF UpToDate
                 THEN [backup EXCEPT !.phase = phase,
                                     !.observed = copy.generation]
                 ELSE backup
  /\ Return
  /\ UNCHANGED <<jobs, cronJob, spawned, cacheVars, edits, faults>>

ApiFails ==
  \E location \in {"finalizer", "jobs", "suspend", "deleteJobs", "status"} :
    CallFails(location)

(* The operator is restarted.  There is one reconciler: --leader-elect, off  *)
(* by default in cmd/operator and on in the chart.                          *)
Restart ==
  /\ pc # "idle"
  /\ MayFail
  /\ Return
  /\ UNCHANGED <<apiVars, cacheVars, edits>>

-----------------------------------------------------------------------------
(* The caches, the users, the CronJob controller, the garbage collector *)

SyncBackup ==
  /\ cachedBackup' = backup
  /\ UNCHANGED <<apiVars, cachedJobs, cachedCron, hasReferences, pc, localVars,
                 edits, faults>>

SyncJobs ==
  /\ cachedJobs' = jobs
  /\ cachedCron' = <<cronJob, spawned>>
  /\ UNCHANGED <<apiVars, cachedBackup, hasReferences, pc, localVars, edits,
                 faults>>

UserStep == edits < MaxEdits /\ edits' = edits + 1

EditSpec ==
  /\ UserStep
  /\ backup.exists
  /\ ~backup.deleting
  /\ \/ backup' = [backup EXCEPT !.generation = @ + 1, !.suspend = ~backup.suspend]
     \/ \E n \in 1 .. MaxWorkers \ {backup.workers} :
          backup' = [backup EXCEPT !.generation = @ + 1, !.workers = n]
     \/ \E s \in Schedules \ {backup.scheduled} :
          backup' = [backup EXCEPT !.generation = @ + 1, !.scheduled = s]
  /\ UNCHANGED <<jobs, cronJob, spawned, cacheVars, pc, localVars, faults>>

DeleteBackup ==
  /\ UserStep
  /\ backup.exists
  /\ ~backup.deleting
  /\ backup' = IF backup.finalizer
                 THEN [backup EXCEPT !.generation = @ + 1, !.deleting = TRUE]
                 ELSE [backup EXCEPT !.exists = FALSE]
  /\ UNCHANGED <<jobs, cronJob, spawned, cacheVars, pc, localVars, faults>>

UserDeletesJob ==
  /\ UserStep
  /\ \E j \in jobs : jobs' = jobs \ {j}
  /\ UNCHANGED <<backup, cronJob, spawned, cacheVars, pc, localVars, faults>>

(* The KafkaCluster or the StorageConfig is deleted, or applied late.  Which *)
(* ones the Backup refers to stays the same.                                *)
ChangeReferences ==
  /\ UserStep
  /\ hasReferences' = ~hasReferences
  /\ UNCHANGED <<apiVars, cachedBackup, cachedJobs, cachedCron, pc, localVars,
                 faults>>

SpawnJob ==
  /\ cronJob
  /\ ~spawned
  /\ spawned' = TRUE
  /\ UNCHANGED <<backup, jobs, cronJob, cacheVars, pc, localVars, edits, faults>>

(* Everything is owned by the Backup, in the end. *)
CollectGarbage ==
  /\ ~backup.exists
  /\ jobs # {} \/ cronJob \/ spawned
  /\ jobs' = {}
  /\ cronJob' = FALSE
  /\ spawned' = FALSE
  /\ UNCHANGED <<backup, cacheVars, pc, localVars, edits, faults>>

-----------------------------------------------------------------------------
ControllerStep ==
  \/ Reconcile \/ AddFinalizer \/ GetReferences \/ ReconcileConfigMap
  \/ JobExists \/ CreateJob \/ JobsDone \/ ReconcileCronJob
  \/ ListJobs \/ ListFails \/ DeleteJob \/ AllDeleted \/ CleanupJob
  \/ RemoveFinalizer \/ UpdateStatus

UserAction == EditSpec \/ DeleteBackup \/ UserDeletesJob \/ ChangeReferences

Next ==
  \/ ControllerStep \/ ApiFails \/ Restart
  \/ SyncBackup \/ SyncJobs \/ SpawnJob \/ CollectGarbage
  \/ UserAction

Spec == Init /\ [][Next]_vars

(* Every return of Reconcile leaves the request in the queue, the watches    *)
(* deliver, and the garbage collector runs.  Nothing is said of users, the  *)
(* clock of the CronJob, failures and restarts.                             *)
LiveSpec ==
  /\ Spec
  /\ WF_vars(ControllerStep)
  /\ WF_vars(SyncBackup)
  /\ WF_vars(SyncJobs)
  /\ WF_vars(CollectGarbage)

-----------------------------------------------------------------------------
(* Properties *)

(* Every variable has its type; the loops of Reconcile stay within the Jobs *)
(* there can be.                                                            *)
TypeOK ==
  /\ backup \in Backup
  /\ jobs \in SUBSET JobIds
  /\ cronJob \in BOOLEAN
  /\ spawned \in BOOLEAN
  /\ cachedBackup \in Backup
  /\ cachedJobs \in SUBSET JobIds
  /\ cachedCron \in BOOLEAN \X BOOLEAN
  /\ hasReferences \in BOOLEAN
  /\ pc \in Location
  /\ copy \in Backup
  /\ index \in 0 .. MaxWorkers
  /\ todo \in SUBSET (JobIds \cup {Spawned})
  /\ phase \in Phase
  /\ edits \in 0 .. MaxEdits
  /\ faults \in 0 .. MaxFaults

(* ObservedGeneration is honest: a status that claims to be about the       *)
(* current generation has the phase this generation asks for, although it   *)
(* was decided on a copy that an edit may have overtaken.                   *)
StatusDescribesSpec ==
  (backup.exists /\ backup.observed = backup.generation) =>
    /\ backup.phase = "Suspended" => backup.suspend
    /\ backup.phase = "Running" => ~backup.suspend

(* The status says of the current generation that the Backup is suspended.  *)
SuspensionAcknowledged ==
  /\ backup.exists
  /\ backup.phase = "Suspended"
  /\ backup.observed = backup.generation

(* A suspension that the status has acknowledged holds: until the spec is    *)
(* edited again no Job comes to be by the reconciler, although it reads its *)
(* copies from a cache that may be behind and a reconcileJob that began on  *)
(* an older copy goes on after the edit.  One reconciler (--leader-elect)   *)
(* and a cache that never goes back are assumed.  (Jobs of the CronJob: see *)
(* SuspendedIsPaused.)                                                      *)
AcknowledgedSuspensionHolds ==
  [][SuspensionAcknowledged => jobs' \subseteq jobs]_vars

Settled(suspend) == backup.exists /\ ~backup.deleting /\ backup.suspend = suspend

(* A Backup that stays suspended and has its references loses its worker    *)
(* Jobs for good, also those that were created from a copy read before the  *)
(* suspension and those the cache did not show when the Jobs were listed.   *)
(* Without the references it keeps them: see SuspendingStops.               *)
SuspensionStopsWorkers ==
  <>[](Settled(TRUE) /\ hasReferences) => <>[](jobs = {})

(* A Backup that stays active and without a schedule, and has its           *)
(* references, gets all its workers, whatever was deleted under the         *)
(* reconciler, whichever call failed, and although a Get that fails passes  *)
(* over a worker.                                                           *)
WorkersAreStarted ==
  <>[](Settled(FALSE) /\ ~backup.scheduled /\ hasReferences) =>
    <>[](0 .. backup.workers - 1 \subseteq jobs)

(* "Suspend pauses the backup job", backup_types.go:42, of any Backup.       *)
(* Reconcile returns before it looks at the suspension (:69-87) while the   *)
(* KafkaCluster or the StorageConfig is missing.                            *)
SuspendingStops == <>[]Settled(TRUE) => <>[](jobs = {})

(* A deleted Backup goes, and in the end nothing it owned is left, though a *)
(* Reconcile that has not noticed may still create Jobs for it.             *)
DeletionCleansUp ==
  (backup.deleting \/ ~backup.exists) ~>
    [](~backup.exists) /\ <>[](jobs = {} /\ ~cronJob)

(* "Suspend pauses the backup job", backup_types.go:42: once the status     *)
(* says so there is nothing that starts Jobs for the Backup.                *)
SuspendedIsPaused == SuspensionAcknowledged => ~cronJob
=============================================================================
