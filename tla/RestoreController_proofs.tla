---------------------- MODULE RestoreController_proofs ----------------------
(***************************************************************************)
(* Theorems about RestoreController, for any number of edits, faults and    *)
(* retries of the Job.                                                      *)
(***************************************************************************)
EXTENDS RestoreController, TLAPS

LEMMA Bounds ==
  /\ MaxEdits \in Nat /\ 0 \in 0 .. MaxEdits
  /\ MaxFaults \in Nat /\ 0 \in 0 .. MaxFaults
BY ControllerAssumption

LEMMA TypeInit == Init => TypeOK
<1> SUFFICES ASSUME Init PROVE TypeOK
  OBVIOUS
<1>1. NewRestore \in Restore
  BY DEF NewRestore, Restore, Phase
<1>2. NoJob \in Job
  BY DEF NoJob, Job
<1>3. edits = 0 /\ faults = 0
  BY DEF Init
<1>4. edits \in 0 .. MaxEdits /\ faults \in 0 .. MaxFaults
  BY <1>3, Bounds
<1>5. pc \in Location /\ phase \in Phase
  BY DEF Init, Location, Phase
<1> QED
  BY <1>1, <1>2, <1>4, <1>5 DEF Init, TypeOK

LEMMA FaultsBounded ==
  /\ TypeOK /\ MayFail => faults' \in 0 .. MaxFaults
  /\ TypeOK /\ UNCHANGED faults => faults' \in 0 .. MaxFaults
BY Bounds DEF MayFail, TypeOK

LEMMA LocalType ==
  ASSUME TypeOK, \/ Return
                 \/ \E p \in Phase : WillUpdateStatus(p)
                 \/ \E l \in Location : Goto(l) /\ UNCHANGED <<copy, phase>>
  PROVE  pc' \in Location /\ phase' \in Phase /\ copy' \in Restore
BY DEF Return, WillUpdateStatus, Goto, TypeOK, Location, Phase

(* Reading, and the decisions that are made on what was read. *)
LEMMA TypeReconcile ==
  ASSUME TypeOK, \/ Reconcile \/ AddFinalizer \/ SkipIfOver
                 \/ GetReferences \/ ReconcileConfigMap
  PROVE  TypeOK'
<1>1. CASE Reconcile
  BY <1>1 DEF Reconcile, Goto, TypeOK, Location, cacheVars, history
<1>2. CASE AddFinalizer
  <2>1. UNCHANGED <<job, cacheVars, history, edits, faults>>
    BY <1>2 DEF AddFinalizer
  <2>2. restore' \in Restore
    BY <1>2 DEF AddFinalizer, TypeOK, Restore
  <2>3. pc' \in Location /\ phase' \in Phase /\ copy' \in Restore
    <3>1. CASE Return
      BY <3>1, LocalType
    <3>2. CASE ~Return
      BY <1>2, <2>2, <3>2 DEF AddFinalizer, Goto, TypeOK, Location
    <3> QED
      BY <3>1, <3>2
  <2> QED
    BY <2>1, <2>2, <2>3 DEF TypeOK, cacheVars, history
<1>3. CASE SkipIfOver
  BY <1>3 DEF SkipIfOver, Goto, TypeOK, Location, cacheVars, history
<1>4. CASE GetReferences
  <2>1. UNCHANGED <<restore, job, cacheVars, history, edits>>
    BY <1>4 DEF GetReferences
  <2>2. pc' \in Location /\ phase' \in Phase /\ copy' \in Restore
    BY <1>4, LocalType DEF GetReferences, Location, Phase
  <2>3. faults' \in 0 .. MaxFaults
    BY <1>4, FaultsBounded DEF GetReferences
  <2> QED
    BY <2>1, <2>2, <2>3 DEF TypeOK, cacheVars, history
<1>5. CASE ReconcileConfigMap
  <2>1. UNCHANGED <<restore, job, cacheVars, history, edits>>
    BY <1>5 DEF ReconcileConfigMap
  <2>2. pc' \in Location /\ phase' \in Phase /\ copy' \in Restore
    BY <1>5, LocalType DEF ReconcileConfigMap, Location, Phase
  <2>3. faults' \in 0 .. MaxFaults
    BY <1>5, FaultsBounded DEF ReconcileConfigMap
  <2> QED
    BY <2>1, <2>2, <2>3 DEF TypeOK, cacheVars, history
<1> QED
  BY <1>1, <1>2, <1>3, <1>4, <1>5

LEMMA JobTypes == NoJob \in Job /\ NewJob \in Job
BY DEF NoJob, NewJob, Job

(* The Job and its end. *)
LEMMA TypeJob ==
  ASSUME TypeOK, GetJob \/ CreateJob \/ UpdateStatusFromJob \/ CleanupJob
  PROVE  TypeOK'
<1>1. CASE GetJob
  BY <1>1 DEF GetJob, Goto, TypeOK, Location, cacheVars, history
<1>2. CASE CreateJob
  <2>1. UNCHANGED <<restore, cacheVars, deleted, succeeded, edits, faults>>
    BY <1>2 DEF CreateJob
  <2>2. job' \in Job /\ created' \in Nat
    BY <1>2, JobTypes DEF CreateJob, TypeOK
  <2>3. pc' \in Location /\ phase' \in Phase /\ copy' \in Restore
    BY <1>2, LocalType DEF CreateJob, Phase
  <2> QED
    BY <2>1, <2>2, <2>3 DEF TypeOK, cacheVars
<1>3. CASE UpdateStatusFromJob
  <2>1. UNCHANGED <<restore, job, cacheVars, history, edits, faults>>
    BY <1>3 DEF UpdateStatusFromJob
  <2>2. pc' \in Location /\ phase' \in Phase /\ copy' \in Restore
    BY <1>3, LocalType DEF UpdateStatusFromJob, Phase
  <2> QED
    BY <2>1, <2>2 DEF TypeOK, cacheVars, history
<1>4. CASE CleanupJob
  <2>1. /\ UNCHANGED <<restore, cacheVars, copy, phase, history, edits>>
        /\ pc' \in Location
    BY <1>4 DEF CleanupJob, Goto, Location
  <2>2. job' \in Job
    BY <1>4, JobTypes DEF CleanupJob, TypeOK
  <2>3. faults' \in 0 .. MaxFaults
    BY <1>4, FaultsBounded DEF CleanupJob
  <2> QED
    BY <2>1, <2>2, <2>3 DEF TypeOK, cacheVars, history
<1> QED
  BY <1>1, <1>2, <1>3, <1>4

LEMMA ReportedType ==
  ASSUME NEW r \in Restore, phase \in Phase
  PROVE  /\ Reported(r) \in Restore
         /\ Reported(r).phase = phase
         /\ Reported(r).conditions = r.conditions + 1
         /\ Reported(r).exists = r.exists
         /\ Reported(r).deleting = r.deleting
<1>1. r.conditions + 1 \in Nat
  BY DEF Restore
<1> QED
  BY <1>1 DEF Reported, Restore

LEMMA TypeStatus ==
  ASSUME TypeOK, RemoveFinalizer \/ UpdateStatus \/ Fail
  PROVE  TypeOK'
<1>1. Return /\ UNCHANGED <<job, cacheVars, history, edits>>
  BY DEF RemoveFinalizer, UpdateStatus, Fail
<1>2. restore' \in Restore
  <2>1. CASE RemoveFinalizer
    BY <2>1 DEF RemoveFinalizer, TypeOK, Restore
  <2>2. CASE UpdateStatus
    BY <2>2, ReportedType DEF UpdateStatus, TypeOK
  <2>3. CASE Fail
    BY <2>3 DEF Fail, TypeOK
  <2> QED
    BY <2>1, <2>2, <2>3
<1>3. faults' \in 0 .. MaxFaults
  BY FaultsBounded DEF RemoveFinalizer, UpdateStatus, Fail
<1> QED
  BY <1>1, <1>2, <1>3, LocalType DEF TypeOK, cacheVars, history

LEMMA TypeCluster ==
  ASSUME TypeOK, SyncRestore \/ SyncJob \/ JobStep \/ CollectGarbage
  PROVE  TypeOK'
<1>1. CASE SyncRestore
  BY <1>1 DEF SyncRestore, TypeOK, history
<1>2. CASE SyncJob
  BY <1>2 DEF SyncJob, TypeOK, history
<1>3. CASE JobStep
  <2>1. job' \in Job
    <3>1. job.failed + 1 \in Nat
      BY DEF TypeOK, Job
    <3>2. \/ job' = [job EXCEPT !.succeeded = TRUE]
          \/ job' = [job EXCEPT !.failed = job.failed + 1]
      BY <1>3, Zenon DEF JobStep, PodSucceeds, PodFails
    <3> QED
      BY <3>1, <3>2 DEF TypeOK, Job
  <2>2. succeeded' \in BOOLEAN
    BY <1>3 DEF JobStep, PodSucceeds, PodFails, TypeOK, history
  <2>3. UNCHANGED <<restore, cacheVars, pc, copy, phase, created, deleted, edits, faults>>
    BY <1>3 DEF JobStep, PodSucceeds, PodFails, history
  <2> QED
    BY <2>1, <2>2, <2>3 DEF TypeOK, cacheVars
<1>4. CASE CollectGarbage
  BY <1>4, JobTypes DEF CollectGarbage, TypeOK, cacheVars, history
<1> QED
  BY <1>1, <1>2, <1>3, <1>4

LEMMA TypeUser ==
  ASSUME TypeOK, UserAction
  PROVE  TypeOK'
<1>1. edits' \in 0 .. MaxEdits
  BY Bounds DEF UserAction, EditSpec, DeleteRestore, UserDeletesJob, UserStep, TypeOK
<1>2. restore' \in Restore
  <2>1. restore.generation + 1 \in Nat
    BY DEF TypeOK, Restore
  <2>2. \/ restore' = restore
        \/ restore' = [restore EXCEPT !.generation = restore.generation + 1]
        \/ restore' = [restore EXCEPT !.generation = restore.generation + 1,
                                      !.deleting = TRUE]
        \/ restore' = [restore EXCEPT !.exists = FALSE]
    BY Zenon DEF UserAction, EditSpec, DeleteRestore, UserDeletesJob
  <2> QED
    BY <2>1, <2>2 DEF TypeOK, Restore
<1>3. job' \in Job /\ deleted' \in Nat
  BY JobTypes
  DEF UserAction, EditSpec, DeleteRestore, UserDeletesJob, TypeOK, history
<1>4. UNCHANGED <<cacheVars, pc, copy, phase, created, succeeded, faults>>
  BY DEF UserAction, EditSpec, DeleteRestore, UserDeletesJob, history
<1> QED
  BY <1>1, <1>2, <1>3, <1>4 DEF TypeOK, cacheVars

LEMMA TypeStep == TypeOK /\ [Next]_vars => TypeOK'
<1> SUFFICES ASSUME TypeOK, [Next]_vars PROVE TypeOK'
  OBVIOUS
<1>1. CASE UNCHANGED vars
  BY <1>1 DEF vars, cacheVars, history, TypeOK
<1>2. CASE ControllerStep
  BY <1>2, TypeReconcile, TypeJob, TypeStatus DEF ControllerStep
<1> QED
  BY <1>1, <1>2, TypeStatus, TypeCluster, TypeUser DEF Next

(* Every variable keeps its type, for any number of edits and faults        *)
(* (Reconcile and all it calls).                                            *)
THEOREM TypeCorrect == Spec => []TypeOK
<1> QED
  BY TypeInit, TypeStep, PTL DEF Spec
-----------------------------------------------------------------------------
(* What a step does to the Restore, and to what the reconciler holds. *)

(* Only updateStatus writes the status, and only into the Restore that was  *)
(* read; nobody creates the Restore again or takes its deletion back.       *)
LEMMA RestoreMoves ==
  ASSUME TypeOK, Next
  PROVE  \/ /\ restore'.phase = restore.phase
            /\ restore'.conditions = restore.conditions
            /\ restore'.exists => restore.exists
            /\ restore.deleting => restore'.deleting
         \/ /\ pc = "status" /\ restore = copy
            /\ restore' = Reported(restore)
            /\ pc' = "idle" /\ copy' = copy
            /\ UNCHANGED <<job, cacheVars, history>>
<1>1. CASE UpdateStatus
  BY <1>1 DEF UpdateStatus, UpToDate, Return, Goto
<1>2. CASE AddFinalizer \/ RemoveFinalizer
  BY <1>2 DEF AddFinalizer, RemoveFinalizer, TypeOK, Restore
<1>3. CASE EditSpec \/ DeleteRestore
  BY <1>3 DEF EditSpec, DeleteRestore, TypeOK, Restore
<1>4. CASE ControllerStep /\ ~(UpdateStatus \/ AddFinalizer \/ RemoveFinalizer)
  <2>1. restore' = restore
    BY <1>4, Zenon
    DEF ControllerStep, Reconcile, SkipIfOver, GetReferences,
        ReconcileConfigMap, GetJob, CreateJob, UpdateStatusFromJob, CleanupJob
  <2> QED
    BY <2>1
<1>5. CASE Fail \/ SyncRestore \/ SyncJob \/ JobStep \/ CollectGarbage
           \/ UserDeletesJob
  <2>1. restore' = restore
    BY <1>5, Zenon
    DEF Fail, SyncRestore, SyncJob, JobStep, PodSucceeds, PodFails,
        CollectGarbage, UserDeletesJob
  <2> QED
    BY <2>1
<1> QED
  BY <1>1, <1>2, <1>3, <1>4, <1>5 DEF Next, UserAction

(* The steps that are not the reconciler's. *)
Others == SyncRestore \/ SyncJob \/ JobStep \/ CollectGarbage \/ UserAction

LEMMA OthersLeaveTheView == Others => UNCHANGED <<pc, copy, phase>>
BY Zenon
DEF Others, SyncRestore, SyncJob, JobStep, PodSucceeds, PodFails, CollectGarbage,
    UserAction, EditSpec, DeleteRestore, UserDeletesJob

-----------------------------------------------------------------------------
(* The phase moves forward *)

InProgress == {"references", "configMap", "job", "create", "status"}

(* What the reconciler knows of the copy it decides on. *)
ViewInv ==
  /\ pc \in InProgress => ~Over(copy.phase)
  /\ pc \in {"configMap", "job", "create"} => copy.phase # ""
  /\ pc = "status" =>
       /\ phase # ""
       /\ phase = "Validating" => copy.phase = ""

LEMMA ViewInit == Init => ViewInv
BY DEF Init, ViewInv, InProgress

LEMMA ViewStep == TypeOK /\ ViewInv /\ [Next]_vars => ViewInv'
<1> SUFFICES ASSUME TypeOK, ViewInv, [Next]_vars PROVE ViewInv'
  OBVIOUS
<1> USE DEF ViewInv, InProgress, Goto, Return, WillUpdateStatus
<1>1. CASE UNCHANGED vars \/ Others
  BY <1>1, OthersLeaveTheView DEF vars
<1>2. CASE Reconcile \/ AddFinalizer \/ SkipIfOver
  BY <1>2 DEF Reconcile, AddFinalizer, SkipIfOver
<1>3. CASE GetReferences
  BY <1>3 DEF GetReferences
<1>4. CASE ReconcileConfigMap
  BY <1>4 DEF ReconcileConfigMap
<1>5. CASE GetJob
  BY <1>5 DEF GetJob
<1>6. CASE CreateJob
  BY <1>6 DEF CreateJob
<1>7. CASE UpdateStatusFromJob
  BY <1>7 DEF UpdateStatusFromJob
<1>8. CASE CleanupJob \/ RemoveFinalizer \/ UpdateStatus \/ Fail
  BY <1>8 DEF CleanupJob, RemoveFinalizer, UpdateStatus, Fail
<1> QED
  BY <1>1, <1>2, <1>3, <1>4, <1>5, <1>6, <1>7, <1>8 DEF Next, ControllerStep, Others

LEMMA Ranks ==
  /\ Rank("") = 0
  /\ Rank("Validating") = 1
  /\ Rank("Running") = 2
  /\ Rank("Completed") = 3
  /\ Rank("Failed") = 3
BY DEF Rank

LEMMA RankOrder ==
  ASSUME NEW m, NEW n,
         \/ m = 0 /\ n \in {1, 2, 3}
         \/ m = 1 /\ n \in {2, 3}
         \/ m = 2 /\ n \in {2, 3}
  PROVE  m <= n /\ m # 3
OBVIOUS

LEMMA RankSame ==
  ASSUME NEW m \in {0, 1, 2, 3}
  PROVE  m <= m
OBVIOUS

LEMMA RankForward ==
  ASSUME NEW p \in Phase, NEW q \in Phase,
         ~Over(p), q # "", q = "Validating" => p = ""
  PROVE  Rank(p) <= Rank(q) /\ Rank(p) # 3
<1>1. CASE p = ""
  <2>1. Rank(p) = 0 /\ Rank(q) \in {1, 2, 3}
    BY <1>1, Ranks DEF Phase
  <2> QED
    BY <2>1, RankOrder
<1>2. CASE p = "Validating"
  <2>1. Rank(p) = 1 /\ Rank(q) \in {2, 3}
    BY <1>2, Ranks DEF Phase
  <2> QED
    BY <2>1, RankOrder
<1>3. CASE p = "Running"
  <2>1. Rank(p) = 2 /\ Rank(q) \in {2, 3}
    BY <1>3, Ranks DEF Phase
  <2> QED
    BY <2>1, RankOrder
<1> QED
  BY <1>1, <1>2, <1>3 DEF Phase, Over

LEMMA PhaseStep ==
  ASSUME TypeOK, ViewInv, Next
  PROVE  /\ Rank(restore.phase) <= Rank(restore'.phase)
         /\ Rank(restore.phase) = 3 => restore'.phase = restore.phase
<1>1. restore.phase \in Phase /\ phase \in Phase
  BY DEF TypeOK, Restore
<1>2. \/ restore'.phase = restore.phase
      \/ /\ restore'.phase = phase
         /\ ~Over(restore.phase) /\ phase # ""
         /\ phase = "Validating" => restore.phase = ""
  <2>1. CASE restore'.phase # restore.phase
    <3>1. pc = "status" /\ restore = copy /\ restore' = Reported(restore)
      BY <2>1, RestoreMoves
    <3>2. restore'.phase = phase
      BY <3>1, ReportedType DEF TypeOK
    <3> QED
      BY <3>1, <3>2 DEF ViewInv, InProgress
  <2> QED
    BY <2>1
<1>3. CASE restore'.phase = restore.phase
  <2>1. Rank(restore.phase) \in {0, 1, 2, 3}
    BY <1>1, Ranks DEF Phase
  <2> QED
    BY <1>3, <2>1, Zenon, RankSame
<1>4. CASE restore'.phase # restore.phase
  <2>1. restore'.phase = phase
    BY <1>2, <1>4
  <2>2. Rank(restore.phase) <= Rank(phase) /\ Rank(restore.phase) # 3
    BY <1>1, <1>2, <1>4, RankForward
  <2> QED
    BY <2>1, <2>2
<1> QED
  BY <1>3, <1>4

(* The phase of a Restore only moves forward and its end is final, though   *)
(* the reconciler decides on outdated copies of the Restore and the Job     *)
(* (Reconcile, reconcileJob, updateStatus).                                 *)
THEOREM PhaseOnlyForward == Spec => PhaseMovesForward
<1>1. TypeOK /\ ViewInv /\ [Next]_vars =>
        [/\ Rank(restore.phase) <= Rank(restore'.phase)
         /\ Rank(restore.phase) = 3 => restore'.phase = restore.phase]_vars
  BY PhaseStep
<1> QED
  BY <1>1, TypeInit, TypeStep, ViewInit, ViewStep, PTL DEF Spec, PhaseMovesForward

-----------------------------------------------------------------------------
(* Completed *)

SuccessInv ==
  /\ restore.phase = "Completed" => succeeded
  /\ job.succeeded => succeeded
  /\ cachedJob.succeeded => succeeded
  /\ pc = "status" /\ phase = "Completed" => succeeded

LEMMA SuccessInit == Init => SuccessInv
<1> SUFFICES ASSUME Init PROVE SuccessInv
  OBVIOUS
<1>1. restore.phase = "" /\ pc = "idle"
  BY DEF Init, NewRestore
<1>2. job.succeeded = FALSE /\ cachedJob.succeeded = FALSE
  BY DEF Init, NoJob
<1> QED
  BY <1>1, <1>2 DEF SuccessInv

LEMMA SuccessStep == TypeOK /\ SuccessInv /\ [Next]_vars => SuccessInv'
<1> SUFFICES ASSUME TypeOK, SuccessInv, [Next]_vars PROVE SuccessInv'
  OBVIOUS
<1>1. CASE UNCHANGED vars
  BY <1>1 DEF vars, cacheVars, history, SuccessInv
<1>2. CASE Next
  <2>1. succeeded => succeeded'
    BY <1>2
    DEF Next, ControllerStep, Reconcile, AddFinalizer, SkipIfOver,
        GetReferences, ReconcileConfigMap, GetJob, CreateJob,
        UpdateStatusFromJob, CleanupJob, RemoveFinalizer, UpdateStatus, Fail,
        SyncRestore, SyncJob, JobStep, PodSucceeds, PodFails, CollectGarbage,
        UserAction, EditSpec, DeleteRestore, UserDeletesJob, history
  <2>2. restore'.phase = "Completed" => succeeded'
    BY <1>2, <2>1, RestoreMoves, ReportedType DEF TypeOK, SuccessInv
  <2>3. job'.succeeded => succeeded'
    <3>1. CASE PodSucceeds
      BY <3>1 DEF PodSucceeds
    <3>2. CASE PodFails
      BY <3>2, <2>1 DEF PodFails, SuccessInv, TypeOK, Job
    <3>3. CASE ~PodSucceeds /\ ~PodFails
      <4>1. job' \in {job, NoJob, NewJob}
        BY <1>2, <3>3
        DEF Next, ControllerStep, Reconcile, AddFinalizer, SkipIfOver,
            GetReferences, ReconcileConfigMap, GetJob, CreateJob,
            UpdateStatusFromJob, CleanupJob, RemoveFinalizer, UpdateStatus,
            Fail, SyncRestore, SyncJob, JobStep, CollectGarbage, UserAction,
            EditSpec, DeleteRestore, UserDeletesJob
      <4> QED
        BY <4>1, <2>1 DEF NoJob, NewJob, SuccessInv
    <3> QED
      BY <3>1, <3>2, <3>3
  <2>4. cachedJob' \in {cachedJob, job}
    BY <1>2
    DEF Next, ControllerStep, Reconcile, AddFinalizer, SkipIfOver,
        GetReferences, ReconcileConfigMap, GetJob, CreateJob,
        UpdateStatusFromJob, CleanupJob, RemoveFinalizer, UpdateStatus, Fail,
        SyncRestore, SyncJob, JobStep, PodSucceeds, PodFails, CollectGarbage,
        UserAction, EditSpec, DeleteRestore, UserDeletesJob, cacheVars
  <2>5. pc' = "status" /\ phase' = "Completed" => succeeded'
    <3> USE DEF Goto, Return, WillUpdateStatus
    <3>1. CASE Others
      BY <3>1, <2>1, OthersLeaveTheView DEF SuccessInv
    <3>2. CASE Reconcile \/ AddFinalizer \/ SkipIfOver \/ GetReferences
               \/ ReconcileConfigMap \/ GetJob \/ CreateJob
      BY <3>2
      DEF Reconcile, AddFinalizer, SkipIfOver, GetReferences,
          ReconcileConfigMap, GetJob, CreateJob
    <3>3. CASE UpdateStatusFromJob
      BY <3>3, <2>1 DEF UpdateStatusFromJob, SuccessInv
    <3>4. CASE CleanupJob \/ RemoveFinalizer \/ UpdateStatus \/ Fail
      BY <3>4 DEF CleanupJob, RemoveFinalizer, UpdateStatus, Fail
    <3> QED
      BY <1>2, <3>1, <3>2, <3>3, <3>4 DEF Next, ControllerStep, Others
  <2> QED
    BY <2>1, <2>2, <2>3, <2>4, <2>5 DEF SuccessInv
<1> QED
  BY <1>1, <1>2

(* A Restore is Completed only when a Job of it has succeeded               *)
(* (updateStatusFromJob, updateStatus).                                     *)
THEOREM CompletedIsTrue == Spec => []CompletedHasSucceeded
<1>1. SuccessInv => CompletedHasSucceeded
  BY DEF SuccessInv, CompletedHasSucceeded
<1> QED
  BY <1>1, TypeInit, TypeStep, SuccessInit, SuccessStep, PTL DEF Spec
-----------------------------------------------------------------------------
(* One Job *)

Busy == InProgress \cup {"finalizer", "checked"}

(* The deletion of the Restore reaches the cache, and from there the copy.  *)
DeletionInv ==
  /\ cachedRestore.deleting => restore.deleting
  /\ copy.deleting => cachedRestore.deleting
  /\ pc \in Busy => ~copy.deleting
  /\ pc \in {"cleanup", "removeFinalizer"} => copy.deleting

LEMMA DeletionInit == Init => DeletionInv
BY DEF Init, DeletionInv, NewRestore, Busy, InProgress

LEMMA DeletionStep == TypeOK /\ DeletionInv /\ [Next]_vars => DeletionInv'
<1> SUFFICES ASSUME TypeOK, DeletionInv, [Next]_vars PROVE DeletionInv'
  OBVIOUS
<1>1. CASE UNCHANGED vars
  BY <1>1 DEF vars, cacheVars, history, DeletionInv
<1>2. CASE Next
  <2>1. restore.deleting => restore'.deleting
    <3>1. restore' = Reported(restore) => restore'.deleting = restore.deleting
      BY ReportedType DEF TypeOK
    <3> QED
      BY <1>2, <3>1, RestoreMoves
  <2>2. CASE SyncRestore
    BY <2>2 DEF SyncRestore, DeletionInv
  <2>3. CASE Others /\ ~SyncRestore
    <3>1. UNCHANGED <<pc, copy>>
      BY <2>3, OthersLeaveTheView
    <3>2. cachedRestore' = cachedRestore
      BY <2>3, Zenon
      DEF Others, SyncJob, JobStep, PodSucceeds, PodFails, CollectGarbage,
          UserAction, EditSpec, DeleteRestore, UserDeletesJob, cacheVars
    <3> QED
      BY <2>1, <3>1, <3>2 DEF DeletionInv
  <2>4. CASE ControllerStep \/ Fail
    <3>1. cachedRestore' = cachedRestore
      BY <2>4, Zenon
      DEF ControllerStep, Reconcile, AddFinalizer, SkipIfOver, GetReferences,
          ReconcileConfigMap, GetJob, CreateJob, UpdateStatusFromJob,
          CleanupJob, RemoveFinalizer, UpdateStatus, Fail, cacheVars
    <3>2. /\ copy'.deleting => cachedRestore.deleting
          /\ pc' \in Busy => ~copy'.deleting
          /\ pc' \in {"cleanup", "removeFinalizer"} => copy'.deleting
      <4> USE DEF DeletionInv, Busy, InProgress, Goto, Return, WillUpdateStatus
      <4>1. CASE Reconcile
        BY <4>1 DEF Reconcile
      <4>2. CASE AddFinalizer
        BY <4>2 DEF AddFinalizer, UpToDate, TypeOK, Restore
      <4>3. CASE SkipIfOver \/ GetReferences \/ ReconcileConfigMap
        BY <4>3 DEF SkipIfOver, GetReferences, ReconcileConfigMap
      <4>4. CASE GetJob \/ CreateJob \/ UpdateStatusFromJob
        BY <4>4 DEF GetJob, CreateJob, UpdateStatusFromJob
      <4>5. CASE CleanupJob \/ RemoveFinalizer \/ UpdateStatus \/ Fail
        BY <4>5 DEF CleanupJob, RemoveFinalizer, UpdateStatus, Fail
      <4> QED
        BY <2>4, <4>1, <4>2, <4>3, <4>4, <4>5 DEF ControllerStep
    <3> QED
      BY <2>1, <3>1, <3>2 DEF DeletionInv
  <2> QED
    BY <1>2, <2>2, <2>3, <2>4 DEF Next, Others
<1> QED
  BY <1>1, <1>2

(* While the reconciler may still create a Job, each Job that is gone has   *)
(* been deleted by a user.                                                  *)
MayCreate == restore.exists /\ (pc \in Busy \/ ~cachedRestore.deleting)

JobInv ==
  /\ restore.exists => created <= deleted + 1
  /\ MayCreate /\ ~job.exists => created <= deleted

LEMMA JobInit == Init => JobInv
<1> SUFFICES ASSUME Init PROVE JobInv
  OBVIOUS
<1>1. created = 0 /\ deleted = 0
  BY DEF Init
<1>2. created <= deleted + 1 /\ created <= deleted
  BY <1>1
<1> QED
  BY <1>2, Zenon DEF JobInv

LEMMA NewJobExists == NewJob.exists /\ ~NoJob.exists
BY DEF NewJob, NoJob

LEMMA MayCreateMoves ==
  ASSUME TypeOK, DeletionInv, Next, MayCreate'
  PROVE  MayCreate
<1>1. restore.exists
  <2>1. restore' = Reported(restore) => restore'.exists = restore.exists
    BY ReportedType DEF TypeOK
  <2> QED
    BY <2>1, RestoreMoves DEF MayCreate
<1>2. CASE SyncRestore
  BY <1>1, <1>2 DEF SyncRestore, MayCreate, DeletionInv
<1>3. CASE Others /\ ~SyncRestore
  <2>1. UNCHANGED <<pc, copy>>
    BY <1>3, OthersLeaveTheView
  <2>2. cachedRestore' = cachedRestore
    BY <1>3, Zenon
    DEF Others, SyncJob, JobStep, PodSucceeds, PodFails, CollectGarbage,
        UserAction, EditSpec, DeleteRestore, UserDeletesJob, cacheVars
  <2> QED
    BY <1>1, <2>1, <2>2 DEF MayCreate
<1>4. CASE ControllerStep \/ Fail
  <2>1. cachedRestore' = cachedRestore
    BY <1>4, Zenon
    DEF ControllerStep, Reconcile, AddFinalizer, SkipIfOver, GetReferences,
        ReconcileConfigMap, GetJob, CreateJob, UpdateStatusFromJob,
        CleanupJob, RemoveFinalizer, UpdateStatus, Fail, cacheVars
  <2>2. pc' \in Busy => pc \in Busy \/ ~cachedRestore.deleting
    <3> USE DEF Busy, InProgress, Goto, Return, WillUpdateStatus
    <3>1. CASE Reconcile
      BY <3>1 DEF Reconcile
    <3>2. CASE AddFinalizer \/ SkipIfOver \/ GetReferences \/ ReconcileConfigMap
      BY <3>2 DEF AddFinalizer, SkipIfOver, GetReferences, ReconcileConfigMap
    <3>3. CASE GetJob \/ CreateJob \/ UpdateStatusFromJob
      BY <3>3 DEF GetJob, CreateJob, UpdateStatusFromJob
    <3>4. CASE CleanupJob \/ RemoveFinalizer \/ UpdateStatus \/ Fail
      BY <3>4 DEF CleanupJob, RemoveFinalizer, UpdateStatus, Fail
    <3> QED
      BY <1>4, <3>1, <3>2, <3>3, <3>4 DEF ControllerStep
  <2> QED
    BY <1>1, <2>1, <2>2 DEF MayCreate
<1> QED
  BY <1>2, <1>3, <1>4 DEF Next, Others

(* The steps that change the Job, and what they count. *)
LEMMA JobMoves ==
  ASSUME TypeOK, Next
  PROVE  \/ job'.exists = job.exists /\ created' = created /\ deleted' = deleted
         \/ /\ pc = "create" /\ ~job.exists
            /\ job' = NewJob /\ created' = created + 1 /\ deleted' = deleted
            /\ restore' = restore
         \/ /\ job' = NoJob /\ created' = created
            /\ \/ deleted' = deleted + 1
               \/ deleted' = deleted /\ ~restore'.exists
               \/ /\ deleted' = deleted /\ pc = "cleanup"
                  /\ pc' = "removeFinalizer" /\ cachedRestore' = cachedRestore
<1>1. CASE CreateJob
  BY <1>1 DEF CreateJob
<1>2. CASE CleanupJob
  BY <1>2 DEF CleanupJob, Goto, history, cacheVars
<1>3. CASE UserDeletesJob \/ CollectGarbage
  BY <1>3 DEF UserDeletesJob, CollectGarbage, history
<1>4. CASE JobStep
  BY <1>4 DEF JobStep, PodSucceeds, PodFails, TypeOK, Job, history
<1>5. CASE \/ ControllerStep /\ ~CreateJob /\ ~CleanupJob
           \/ Fail \/ SyncRestore \/ SyncJob \/ EditSpec \/ DeleteRestore
  <2>1. UNCHANGED <<job, created, deleted>>
    BY <1>5, Zenon
    DEF ControllerStep, Reconcile, AddFinalizer, SkipIfOver, GetReferences,
        ReconcileConfigMap, GetJob, UpdateStatusFromJob, RemoveFinalizer,
        UpdateStatus, Fail, SyncRestore, SyncJob, EditSpec, DeleteRestore,
        history
  <2> QED
    BY <2>1
<1> QED
  BY <1>1, <1>2, <1>3, <1>4, <1>5 DEF Next, UserAction, ControllerStep

LEMMA JobInvStep == TypeOK /\ DeletionInv /\ JobInv /\ [Next]_vars => JobInv'
<1> SUFFICES ASSUME TypeOK, DeletionInv, JobInv, [Next]_vars PROVE JobInv'
  OBVIOUS
<1>1. CASE UNCHANGED vars
  BY <1>1 DEF vars, cacheVars, history, JobInv, MayCreate
<1>2. CASE Next
  <2>1. restore'.exists => restore.exists
    <3>1. restore' = Reported(restore) => restore'.exists = restore.exists
      BY ReportedType DEF TypeOK
    <3> QED
      BY <1>2, <3>1, RestoreMoves
  <2>2. MayCreate' => MayCreate
    BY <1>2, MayCreateMoves
  <2>3. created \in Nat /\ deleted \in Nat
    BY DEF TypeOK
  <2>4. CASE job'.exists = job.exists /\ created' = created /\ deleted' = deleted
    BY <2>1, <2>2, <2>4 DEF JobInv
  <2>5. CASE /\ pc = "create" /\ ~job.exists
             /\ job' = NewJob /\ created' = created + 1 /\ deleted' = deleted
             /\ restore' = restore
    BY <2>3, <2>5, NewJobExists DEF JobInv, MayCreate, Busy, InProgress
  <2>6. CASE /\ job' = NoJob /\ created' = created
             /\ \/ deleted' = deleted + 1
                \/ deleted' = deleted /\ ~restore'.exists
                \/ /\ deleted' = deleted /\ pc = "cleanup"
                   /\ pc' = "removeFinalizer" /\ cachedRestore' = cachedRestore
    <3>1. CASE deleted' = deleted + 1
      BY <2>1, <2>3, <2>6, <3>1 DEF JobInv, MayCreate
    <3>2. CASE deleted' = deleted /\ ~restore'.exists
      BY <3>2 DEF JobInv, MayCreate
    <3>3. CASE /\ deleted' = deleted /\ pc = "cleanup"
               /\ pc' = "removeFinalizer" /\ cachedRestore' = cachedRestore
      <4>1. ~MayCreate'
        BY <3>3 DEF MayCreate, Busy, InProgress, DeletionInv
      <4> QED
        BY <2>1, <2>6, <3>3, <4>1 DEF JobInv
    <3> QED
      BY <2>6, <3>1, <3>2, <3>3
  <2> QED
    BY <1>2, <2>4, <2>5, <2>6, JobMoves
<1> QED
  BY <1>1, <1>2

(* A second Job is created only after a user has deleted one, however far   *)
(* the caches are behind (reconcileJob, handleDeletion).                    *)
THEOREM OneJobForEachDeletion == Spec => []CreatedOnce
<1>1. TypeOK /\ JobInv => CreatedOnce
  BY DEF TypeOK, JobInv, CreatedOnce
<1> QED
  BY <1>1, TypeInit, TypeStep, DeletionInit, DeletionStep, JobInit, JobInvStep,
     PTL DEF Spec
-----------------------------------------------------------------------------
(* The conditions *)

(* ConditionsBounded is not inductive: how many conditions there may be     *)
(* depends on the phase, in the Restore and in each copy that is written    *)
(* back.                                                                    *)
Bounded(r) ==
  /\ r.phase = "" => r.conditions = 0
  /\ r.phase = "Validating" => r.conditions <= 1
  /\ r.phase = "Running" => r.conditions <= created + 1
  /\ Over(r.phase) => r.conditions <= created + 2

ConditionsInv ==
  /\ Bounded(restore) /\ Bounded(cachedRestore) /\ Bounded(copy)
  /\ job.exists \/ cachedJob.exists => created >= 1
  /\ pc = "status" /\ phase = "Running" =>
       /\ created >= 1
       /\ copy.phase = "Running" => copy.conditions <= created

LEMMA ConditionsInit == Init => ConditionsInv
<1> SUFFICES ASSUME Init PROVE ConditionsInv
  OBVIOUS
<1>1. NewRestore.phase = "" /\ NewRestore.conditions = 0
  BY DEF NewRestore
<1>2. Bounded(NewRestore)
  BY <1>1 DEF Bounded, Over
<1>3. ~job.exists /\ ~cachedJob.exists /\ pc = "idle"
  BY DEF Init, NoJob
<1> QED
  BY <1>2, <1>3 DEF Init, ConditionsInv

(* Created only grows. *)
LEMMA BoundedKept ==
  ASSUME NEW r \in Restore, NEW s, s.phase = r.phase, s.conditions = r.conditions,
         Bounded(r), created \in Nat, created' \in Nat, created' >= created
  PROVE  /\ s.phase = "" => s.conditions = 0
         /\ s.phase = "Validating" => s.conditions <= 1
         /\ s.phase = "Running" => s.conditions <= created' + 1
         /\ Over(s.phase) => s.conditions <= created' + 2
<1>1. r.conditions \in Nat
  BY DEF Restore
<1>2. /\ r.conditions <= created + 1 => r.conditions <= created' + 1
      /\ r.conditions <= created + 2 => r.conditions <= created' + 2
  BY <1>1
<1> QED
  BY <1>2 DEF Bounded

LEMMA CreatedGrows ==
  ASSUME TypeOK, Next
  PROVE  created' \in Nat /\ created' >= created
<1>1. created \in Nat
  BY DEF TypeOK
<1>2. created' = created \/ created' = created + 1
  BY JobMoves
<1> QED
  BY <1>1, <1>2

(* updateStatus: one condition more, and no more than the phase allows. *)
LEMMA ReportedBounded ==
  ASSUME TypeOK, ViewInv, ConditionsInv, pc = "status", restore = copy,
         restore' = Reported(restore), created' = created
  PROVE  Bounded(restore)'
<1>1. /\ restore'.phase = phase
      /\ restore'.conditions = restore.conditions + 1
  BY ReportedType DEF TypeOK
<1>2. /\ restore.conditions \in Nat /\ created \in Nat
      /\ restore.phase \in Phase /\ phase \in Phase
  BY DEF TypeOK, Restore
<1>3. ~Over(restore.phase) /\ phase # "" /\ (phase = "Validating" => restore.phase = "")
  BY DEF ViewInv, InProgress
<1>4. CASE phase = "Validating"
  <2>1. restore.conditions = 0
    BY <1>3, <1>4 DEF ConditionsInv, Bounded
  <2>2. restore'.conditions <= 1
    BY <1>1, <2>1
  <2> QED
    BY <1>1, <1>4, <2>2 DEF Bounded, Over
<1>5. CASE phase = "Running"
  <2>1. created >= 1 /\ (restore.phase = "Running" => restore.conditions <= created)
    BY <1>5 DEF ConditionsInv
  <2>2. restore.conditions <= created
    <3>1. CASE restore.phase = ""
      <4>1. restore.conditions = 0
        BY <3>1 DEF ConditionsInv, Bounded
      <4> QED
        BY <1>2, <2>1, <4>1
    <3>2. CASE restore.phase = "Validating"
      <4>1. restore.conditions <= 1
        BY <3>2 DEF ConditionsInv, Bounded
      <4> QED
        BY <1>2, <2>1, <4>1
    <3> QED
      BY <1>2, <1>3, <2>1, <3>1, <3>2 DEF Phase, Over
  <2>3. restore'.conditions <= created + 1
    BY <1>1, <1>2, <2>2
  <2> QED
    BY <1>1, <1>5, <2>3 DEF Bounded, Over
<1>6. CASE Over(phase)
  <2>1. restore.conditions <= created + 1
    <3>1. CASE restore.phase = ""
      <4>1. restore.conditions = 0
        BY <3>1 DEF ConditionsInv, Bounded
      <4> QED
        BY <1>2, <4>1
    <3>2. CASE restore.phase = "Validating"
      <4>1. restore.conditions <= 1
        BY <3>2 DEF ConditionsInv, Bounded
      <4> QED
        BY <1>2, <4>1
    <3>3. CASE restore.phase = "Running"
      BY <3>3 DEF ConditionsInv, Bounded
    <3> QED
      BY <1>2, <1>3, <3>1, <3>2, <3>3 DEF Phase, Over
  <2>2. restore'.conditions <= created + 2
    BY <1>1, <1>2, <2>1
  <2> QED
    BY <1>1, <1>6, <2>2 DEF Bounded, Over
<1> QED
  BY <1>2, <1>3, <1>4, <1>5, <1>6 DEF Phase, Over

(* What the reconciler is about to write. *)
LEMMA RunningBounded ==
  ASSUME TypeOK, ViewInv, ConditionsInv, Next
  PROVE  pc' = "status" /\ phase' = "Running" =>
           /\ created' >= 1
           /\ copy'.phase = "Running" => copy'.conditions <= created'
<1> USE DEF Goto, Return, WillUpdateStatus
<1>1. CASE Others
  <2>1. created' = created
    BY <1>1, Zenon
    DEF Others, SyncRestore, SyncJob, JobStep, PodSucceeds, PodFails,
        CollectGarbage, UserAction, EditSpec, DeleteRestore, UserDeletesJob,
        history
  <2> QED
    BY <1>1, <2>1, OthersLeaveTheView DEF ConditionsInv
<1>2. CASE Reconcile \/ AddFinalizer \/ SkipIfOver \/ GetReferences
           \/ ReconcileConfigMap \/ GetJob
  BY <1>2
  DEF Reconcile, AddFinalizer, SkipIfOver, GetReferences, ReconcileConfigMap,
      GetJob
<1>3. CASE CreateJob
  <2>1. created \in Nat /\ copy.conditions \in Nat
    BY DEF TypeOK, Restore
  <2>2. pc' = "status" => created' = created + 1 /\ copy' = copy
    BY <1>3 DEF CreateJob
  <2>3. copy.phase = "Running" => copy.conditions <= created + 1
    BY DEF ConditionsInv, Bounded
  <2> QED
    BY <2>1, <2>2, <2>3
<1>4. CASE UpdateStatusFromJob
  <2>1. pc' = "status" => cachedJob.exists /\ created' = created /\ copy' = copy
    BY <1>4 DEF UpdateStatusFromJob, history
  <2>2. pc' = "status" /\ phase' = "Running" => copy.phase # "Running"
    BY <1>4 DEF UpdateStatusFromJob
  <2> QED
    BY <2>1, <2>2 DEF ConditionsInv
<1>5. CASE CleanupJob \/ RemoveFinalizer \/ UpdateStatus \/ Fail
  BY <1>5 DEF CleanupJob, RemoveFinalizer, UpdateStatus, Fail
<1> QED
  BY <1>1, <1>2, <1>3, <1>4, <1>5 DEF Next, ControllerStep, Others

LEMMA ConditionsStep ==
  TypeOK /\ ViewInv /\ ConditionsInv /\ [Next]_vars => ConditionsInv'
<1> SUFFICES ASSUME TypeOK, ViewInv, ConditionsInv, [Next]_vars PROVE ConditionsInv'
  OBVIOUS
<1>1. CASE UNCHANGED vars
  <2>1. UNCHANGED <<restore, job, cachedRestore, cachedJob, pc, copy, phase, created>>
    BY <1>1 DEF vars, cacheVars, history
  <2>2. /\ Bounded(restore) => Bounded(restore)'
        /\ Bounded(cachedRestore) => Bounded(cachedRestore)'
        /\ Bounded(copy) => Bounded(copy)'
    BY <2>1, Zenon DEF Bounded
  <2> QED
    BY <2>1, <2>2, Zenon DEF ConditionsInv
<1>2. CASE Next
  <2>1. created \in Nat /\ created' \in Nat /\ created' >= created
    BY <1>2, CreatedGrows DEF TypeOK
  <2>2. ASSUME NEW r \in Restore, NEW s, s.phase = r.phase,
               s.conditions = r.conditions, Bounded(r)
        PROVE  /\ s.phase = "" => s.conditions = 0
               /\ s.phase = "Validating" => s.conditions <= 1
               /\ s.phase = "Running" => s.conditions <= created' + 1
               /\ Over(s.phase) => s.conditions <= created' + 2
    <3>1. /\ created \in Nat /\ created' \in Nat /\ created' >= created
          /\ r \in Restore /\ s.phase = r.phase /\ s.conditions = r.conditions
          /\ Bounded(r)
      BY <2>1, <2>2
    <3> QED
      BY <3>1, BoundedKept
  <2>3. /\ restore \in Restore /\ cachedRestore \in Restore /\ copy \in Restore
        /\ Bounded(restore) /\ Bounded(cachedRestore) /\ Bounded(copy)
    BY DEF TypeOK, ConditionsInv
  <2>4. Bounded(restore)'
    <3>1. CASE restore'.phase = restore.phase /\ restore'.conditions = restore.conditions
      BY <2>2, <2>3, <3>1 DEF Bounded
    <3>2. CASE /\ pc = "status" /\ restore = copy
               /\ restore' = Reported(restore) /\ created' = created
      BY <3>2, ReportedBounded
    <3> QED
      BY <1>2, <3>1, <3>2, RestoreMoves DEF history
  <2>5. Bounded(cachedRestore)'
    <3>1. cachedRestore' \in {cachedRestore, restore}
      BY <1>2
      DEF Next, ControllerStep, Reconcile, AddFinalizer, SkipIfOver,
          GetReferences, ReconcileConfigMap, GetJob, CreateJob,
          UpdateStatusFromJob, CleanupJob, RemoveFinalizer, UpdateStatus, Fail,
          SyncRestore, SyncJob, JobStep, PodSucceeds, PodFails, CollectGarbage,
          UserAction, EditSpec, DeleteRestore, UserDeletesJob, cacheVars
    <3> QED
      BY <2>2, <2>3, <3>1 DEF Bounded
  <2>6. Bounded(copy)'
    <3>1. copy' \in {copy, cachedRestore, restore'}
      BY <1>2
      DEF Next, ControllerStep, Reconcile, AddFinalizer, SkipIfOver,
          GetReferences, ReconcileConfigMap, GetJob, CreateJob,
          UpdateStatusFromJob, CleanupJob, RemoveFinalizer, UpdateStatus, Fail,
          SyncRestore, SyncJob, JobStep, PodSucceeds, PodFails, CollectGarbage,
          UserAction, EditSpec, DeleteRestore, UserDeletesJob, Return,
          WillUpdateStatus
    <3>2. CASE copy' = restore'
      BY <2>4, <3>2 DEF Bounded
    <3>3. CASE copy' \in {copy, cachedRestore}
      BY <2>2, <2>3, <3>3 DEF Bounded
    <3> QED
      BY <3>1, <3>2, <3>3
  <2>7. job'.exists \/ cachedJob'.exists => created' >= 1
    <3>1. cachedJob' \in {cachedJob, job}
      BY <1>2
      DEF Next, ControllerStep, Reconcile, AddFinalizer, SkipIfOver,
          GetReferences, ReconcileConfigMap, GetJob, CreateJob,
          UpdateStatusFromJob, CleanupJob, RemoveFinalizer, UpdateStatus, Fail,
          SyncRestore, SyncJob, JobStep, PodSucceeds, PodFails, CollectGarbage,
          UserAction, EditSpec, DeleteRestore, UserDeletesJob, cacheVars
    <3>2. job'.exists => job.exists \/ created' = created + 1
      BY <1>2, JobMoves, NewJobExists
    <3> QED
      BY <2>1, <3>1, <3>2 DEF ConditionsInv
  <2>8. pc' = "status" /\ phase' = "Running" =>
           /\ created' >= 1
           /\ copy'.phase = "Running" => copy'.conditions <= created'
    BY <1>2, RunningBounded
  <2> QED
    BY <2>4, <2>5, <2>6, <2>7, <2>8, Zenon DEF ConditionsInv
<1> QED
  BY <1>1, <1>2

(* The number of conditions is bounded by the number of Jobs, however often *)
(* the Restore is reconciled (updateStatus appends one at every call).      *)
THEOREM FewConditions == Spec => []ConditionsBounded
<1>1. TypeOK /\ ConditionsInv => ConditionsBounded
  <2> SUFFICES ASSUME TypeOK, ConditionsInv PROVE ConditionsBounded
    OBVIOUS
  <2>1. /\ restore.conditions \in Nat /\ created \in Nat
        /\ restore.phase \in Phase
    BY DEF TypeOK, Restore
  <2>2. CASE restore.phase = ""
    <3>1. restore.conditions = 0
      BY <2>2 DEF ConditionsInv, Bounded
    <3>2. restore.conditions <= created + 2
      BY <2>1, <3>1
    <3> QED
      BY <3>2 DEF ConditionsBounded
  <2>3. CASE restore.phase = "Validating"
    <3>1. restore.conditions <= 1
      BY <2>3 DEF ConditionsInv, Bounded
    <3>2. restore.conditions <= created + 2
      BY <2>1, <3>1
    <3> QED
      BY <3>2 DEF ConditionsBounded
  <2>4. CASE restore.phase = "Running"
    <3>1. restore.conditions <= created + 1
      BY <2>4 DEF ConditionsInv, Bounded
    <3>2. restore.conditions <= created + 2
      BY <2>1, <3>1
    <3> QED
      BY <3>2 DEF ConditionsBounded
  <2>5. CASE Over(restore.phase)
    BY <2>1, <2>5 DEF ConditionsInv, Bounded, ConditionsBounded
  <2> QED
    BY <2>1, <2>2, <2>3, <2>4, <2>5 DEF Phase, Over
<1> QED
  BY <1>1, TypeInit, TypeStep, ViewInit, ViewStep, ConditionsInit,
     ConditionsStep, PTL DEF Spec
=============================================================================
