------------------------- MODULE RestoreController -------------------------
(***************************************************************************)
(* The operator's reconciler for one Restore resource                       *)
(* (controllers/restore_controller.go), with the API server, the informer   *)
(* caches, the Job controller, and the users.                               *)
(*                                                                         *)
(* As in BackupController a step is one call to the API server, reads come  *)
(* from a cache, and a write of the Restore is refused when the Restore is  *)
(* not the one that was read.                                               *)
(***************************************************************************)
EXTENDS Integers

CONSTANTS
  BackoffLimit,  \* of the Job: 3
  MaxEdits,      \* bound: changes by users
  MaxFaults      \* bound: failing calls and restarts of the operator

ASSUME ControllerAssumption ==
  /\ BackoffLimit \in Nat
  /\ MaxEdits \in Nat
  /\ MaxFaults \in Nat

VARIABLES
  restore,        \* the Restore in the API server
  job,            \* its Job
  cachedRestore,  \* the reconciler's view of both
  cachedJob,
  pc,             \* where Reconcile is
  copy,           \* the Restore it has read
  phase,          \* what updateStatus is called with
  created,        \* Jobs created so far
  deleted,        \* Jobs deleted so far, by the users
  succeeded,      \* whether a Job of the Restore has succeeded
  edits,          \* changes made by users
  faults          \* calls that failed, and restarts

cacheVars == <<cachedRestore, cachedJob>>
history == <<created, deleted, succeeded>>
vars == <<restore, job, cacheVars, pc, copy, phase, history, edits, faults>>

-----------------------------------------------------------------------------
(* State *)

Phase == {"", "Validating", "Running", "Completed", "Failed"}

(* Conditions are only counted.  The generation counts what users change.   *)
Restore ==
  [exists : BOOLEAN, generation : Nat, deleting : BOOLEAN, finalizer : BOOLEAN,
   phase : Phase, conditions : Nat]

(* Status.Succeeded and Status.Failed. *)
Job == [exists : BOOLEAN, succeeded : BOOLEAN, failed : Nat]

NoJob == [exists |-> FALSE, succeeded |-> FALSE, failed |-> 0]

NewJob == [NoJob EXCEPT !.exists = TRUE]

NewRestore ==
  [exists |-> TRUE, generation |-> 1, deleting |-> FALSE, finalizer |-> FALSE,
   phase |-> "", conditions |-> 0]

Location ==
  {"idle", "finalizer", "checked", "references", "configMap", "job", "create",
   "cleanup", "removeFinalizer", "status"}

Init ==
  /\ restore = NewRestore
  /\ job = NoJob
  /\ cachedRestore = NewRestore
  /\ cachedJob = NoJob
  /\ pc = "idle"
  /\ copy = NewRestore
  /\ phase = ""
  /\ created = 0
  /\ deleted = 0
  /\ succeeded = FALSE
  /\ edits = 0
  /\ faults = 0

-----------------------------------------------------------------------------
(* Helpers *)

Goto(location) == pc' = location

Return == Goto("idle") /\ phase' = "" /\ UNCHANGED copy

WillUpdateStatus(p) == Goto("status") /\ phase' = p /\ UNCHANGED copy

MayFail == faults < MaxFaults /\ faults' = faults + 1

UpToDate == restore = copy

-----------------------------------------------------------------------------
(* Reconcile *)

Reconcile ==
  /\ pc = "idle"
  /\ cachedRestore.exists
  /\ copy' = cachedRestore
  /\ Goto(IF cachedRestore.deleting
            THEN IF cachedRestore.finalizer THEN "cleanup" ELSE "idle"
            ELSE IF cachedRestore.finalizer THEN "checked" ELSE "finalizer")
  /\ UNCHANGED <<restore, job, cacheVars, phase, history, edits, faults>>

AddFinalizer ==
  /\ pc = "finalizer"
  /\ \/ /\ UpToDate
        /\ restore' = [restore EXCEPT !.finalizer = TRUE]
        /\ copy' = restore'
        /\ Goto("checked")
        /\ UNCHANGED phase
     \/ /\ ~UpToDate
        /\ Return
        /\ UNCHANGED restore
  /\ UNCHANGED <<job, cacheVars, history, edits, faults>>

Over_OrRunning(p) == p \in {"Running", "Completed", "Failed"}

(* "Skip if already completed or failed". *)
Over(p) == p \in {"Completed", "Failed"}

SkipIfOver ==
  /\ pc = "checked"
  /\ Goto(IF Over(copy.phase) THEN "idle" ELSE "references")
  /\ UNCHANGED <<restore, job, cacheVars, copy, phase, history, edits, faults>>

(* The KafkaCluster and the StorageConfig.  A Restore that was applied      *)
(* before them has failed, for good.                                        *)
GetReferences ==
  /\ pc = "references"
  /\ \/ /\ copy.phase = ""
        /\ WillUpdateStatus("Validating")
        /\ UNCHANGED faults
     \/ /\ copy.phase # ""
        /\ Goto("configMap")
        /\ UNCHANGED <<copy, phase, faults>>
     \/ MayFail /\ WillUpdateStatus("Failed")
  /\ UNCHANGED <<restore, job, cacheVars, history, edits>>

ReconcileConfigMap ==
  /\ pc = "configMap"
  /\ \/ Goto("job") /\ UNCHANGED <<copy, phase, faults>>
     \/ MayFail /\ WillUpdateStatus("Failed")
  /\ UNCHANGED <<restore, job, cacheVars, history, edits>>

-----------------------------------------------------------------------------
(* reconcileJob *)

GetJob_GoneIsCompleted ==
  /\ pc = "job"
  /\ ~cachedJob.exists
  /\ IF copy.phase = "Running" THEN WillUpdateStatus("Completed")
     ELSE Goto("create") /\ UNCHANGED <<copy, phase>>
  /\ UNCHANGED <<restore, job, cacheVars, history, edits, faults>>

GetJob ==
  /\ pc = "job"
  /\ ~cachedJob.exists
  /\ Goto("create")
  /\ UNCHANGED <<restore, job, cacheVars, copy, phase, history, edits, faults>>

CreateJob_Unnamed ==
  /\ pc = "create"
  /\ job' = NewJob
  /\ created' = created + 1
  /\ WillUpdateStatus("Running")
  /\ UNCHANGED <<restore, cacheVars, deleted, succeeded, edits, faults>>

(* The name of the Job is taken when the cache was behind. *)
CreateJob ==
  /\ pc = "create"
  /\ \/ /\ ~job.exists
        /\ job' = NewJob
        /\ created' = created + 1
        /\ WillUpdateStatus("Running")
     \/ /\ job.exists
        /\ Return
        /\ UNCHANGED <<job, created>>
  /\ UNCHANGED <<restore, cacheVars, deleted, succeeded, edits, faults>>

UpdateStatusFromJob_Always ==
  /\ pc = "job"
  /\ cachedJob.exists
  /\ WillUpdateStatus(IF cachedJob.succeeded THEN "Completed"
                      ELSE IF cachedJob.failed > 0 THEN "Failed" ELSE "Running")
  /\ UNCHANGED <<restore, job, cacheVars, history, edits, faults>>

(* One failed pod is a failed Restore, though the Job may start another.    *)
UpdateStatusFromJob ==
  /\ pc = "job"
  /\ cachedJob.exists
  /\ \/ /\ cachedJob.succeeded
        /\ WillUpdateStatus("Completed")
     \/ /\ ~cachedJob.succeeded /\ cachedJob.failed > 0
        /\ WillUpdateStatus("Failed")
     \/ /\ ~cachedJob.succeeded /\ cachedJob.failed = 0
        /\ copy.phase # "Running"
        /\ WillUpdateStatus("Running")
     \/ /\ ~cachedJob.succeeded /\ cachedJob.failed = 0
        /\ copy.phase = "Running"
        /\ Return
  /\ UNCHANGED <<restore, job, cacheVars, history, edits, faults>>

-----------------------------------------------------------------------------
(* handleDeletion *)

(* The error of Delete is ignored. *)
CleanupJob ==
  /\ pc = "cleanup"
  /\ Goto("removeFinalizer")
  /\ \/ job' = (IF cachedJob.exists THEN NoJob ELSE job) /\ UNCHANGED faults
     \/ MayFail /\ UNCHANGED job
  /\ UNCHANGED <<restore, cacheVars, copy, phase, history, edits>>

RemoveFinalizer_Never ==
  /\ pc = "removeFinalizer"
  /\ Return
  /\ UNCHANGED <<restore, job, cacheVars, history, edits, faults>>

RemoveFinalizer ==
  /\ pc = "removeFinalizer"
  /\ restore' = IF UpToDate THEN [restore EXCEPT !.exists = FALSE] ELSE restore
  /\ Return
  /\ UNCHANGED <<job, cacheVars, history, edits, faults>>

-----------------------------------------------------------------------------
(* updateStatus *)

Reported_Message(r) ==
  [r EXCEPT !.phase = "Restore in progress", !.conditions = @ + 1]

Reported(r) == [r EXCEPT !.phase = phase, !.conditions = @ + 1]

UpdateStatus_Refetches ==
  /\ pc = "status"
  /\ restore' = IF restore.exists THEN Reported(restore) ELSE restore
  /\ Return
  /\ UNCHANGED <<job, cacheVars, history, edits, faults>>

UpdateStatus ==
  /\ pc = "status"
  /\ restore' = IF UpToDate THEN Reported(restore) ELSE restore
  /\ Return
  /\ UNCHANGED <<job, cacheVars, history, edits, faults>>

(* A call fails, or the operator is restarted. *)
Fail ==
  /\ pc \in Location \ {"idle"}
  /\ MayFail
  /\ Return
  /\ UNCHANGED <<restore, job, cacheVars, history, edits>>

-----------------------------------------------------------------------------
(* The caches, the users, the Job controller, the garbage collector *)

SyncRestore ==
  /\ cachedRestore' = restore
  /\ UNCHANGED <<restore, job, cachedJob, pc, copy, phase, history, edits, faults>>

SyncJob ==
  /\ cachedJob' = job
  /\ UNCHANGED <<restore, job, cachedRestore, pc, copy, phase, history, edits,
                 faults>>

UserStep == edits < MaxEdits /\ edits' = edits + 1

EditSpec ==
  /\ UserStep
  /\ restore.exists
  /\ ~restore.deleting
  /\ restore' = [restore EXCEPT !.generation = @ + 1]
  /\ UNCHANGED <<job, cacheVars, pc, copy, phase, history, faults>>

DeleteRestore ==
  /\ UserStep
  /\ restore.exists
  /\ ~restore.deleting
  /\ restore' = IF restore.finalizer
                  THEN [restore EXCEPT !.generation = @ + 1, !.deleting = TRUE]
                  ELSE [restore EXCEPT !.exists = FALSE]
  /\ UNCHANGED <<job, cacheVars, pc, copy, phase, history, faults>>

UserDeletesJob ==
  /\ UserStep
  /\ job.exists
  /\ job' = NoJob
  /\ deleted' = deleted + 1
  /\ UNCHANGED <<restore, cacheVars, pc, copy, phase, created, succeeded, faults>>

JobActive == job.exists /\ ~job.succeeded /\ job.failed <= BackoffLimit

PodSucceeds ==
  /\ JobActive
  /\ job' = [job EXCEPT !.succeeded = TRUE]
  /\ succeeded' = TRUE
  /\ UNCHANGED <<restore, cacheVars, pc, copy, phase, created, deleted, edits,
                 faults>>

(* A pod is evicted, or its container has been restarted too often.         *)
PodFails ==
  /\ JobActive
  /\ job' = [job EXCEPT !.failed = @ + 1]
  /\ UNCHANGED <<restore, cacheVars, pc, copy, phase, history, edits, faults>>

CollectGarbage ==
  /\ ~restore.exists
  /\ job.exists
  /\ job' = NoJob
  /\ UNCHANGED <<restore, cacheVars, pc, copy, phase, history, edits, faults>>

-----------------------------------------------------------------------------
ControllerStep ==
  \/ Reconcile \/ AddFinalizer \/ SkipIfOver \/ GetReferences
  \/ ReconcileConfigMap \/ GetJob \/ CreateJob \/ UpdateStatusFromJob
  \/ CleanupJob \/ RemoveFinalizer \/ UpdateStatus

JobStep == PodSucceeds \/ PodFails

UserAction == EditSpec \/ DeleteRestore \/ UserDeletesJob

Next ==
  \/ ControllerStep \/ Fail
  \/ SyncRestore \/ SyncJob \/ JobStep \/ CollectGarbage
  \/ UserAction

Spec == Init /\ [][Next]_vars

(* Reconcile is called again after each of its returns but the last: an     *)
(* error, RequeueAfter, or the watch of the Restore and its Job.  Pods end. *)
LiveSpec ==
  /\ Spec
  /\ WF_vars(ControllerStep)
  /\ WF_vars(SyncRestore)
  /\ WF_vars(SyncJob)
  /\ WF_vars(JobStep)
  /\ WF_vars(CollectGarbage)

-----------------------------------------------------------------------------
(* Properties *)

(* Every variable has its type. *)
TypeOK ==
  /\ restore \in Restore
  /\ job \in Job
  /\ cachedRestore \in Restore
  /\ cachedJob \in Job
  /\ pc \in Location
  /\ copy \in Restore
  /\ phase \in Phase
  /\ created \in Nat
  /\ deleted \in Nat
  /\ succeeded \in BOOLEAN
  /\ edits \in 0 .. MaxEdits
  /\ faults \in 0 .. MaxFaults

Rank(p) == CASE p = "" -> 0 [] p = "Validating" -> 1 [] p = "Running" -> 2
             [] OTHER -> 3

(* The phase only moves forward, and neither Completed nor Failed is ever   *)
(* changed again, though it is decided on outdated copies of the Restore    *)
(* and of its Job.                                                          *)
PhaseMovesForward ==
  [][/\ Rank(restore.phase) <= Rank(restore'.phase)
     /\ Rank(restore.phase) = 3 => restore'.phase = restore.phase]_vars

(* A Restore is Completed only when a Job of it has succeeded.              *)
CompletedHasSucceeded == restore.phase = "Completed" => succeeded

(* A second Job, which produces all the messages again, is created only     *)
(* after a user has deleted the first, however far the cache is behind.     *)
CreatedOnce == restore.exists => created <= 1 + deleted

(* A condition is appended with every update of the status: their number    *)
(* does not grow with the number of reconciliations.                        *)
ConditionsBounded == restore.conditions <= created + 2

(* A Restore that is not deleted ends as Completed or Failed.               *)
RestoreEnds ==
  <>[](restore.exists /\ ~restore.deleting) => <>(restore.phase \in {"Completed", "Failed"})

(* A deleted Restore goes, and its Job too.                                 *)
DeletionCleansUp ==
  (restore.deleting \/ ~restore.exists) ~>
    [](~restore.exists) /\ <>[](~job.exists)
=============================================================================
