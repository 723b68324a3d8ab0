--------------------------- MODULE RestoreService ---------------------------
(***************************************************************************)
(* The life of one restore as its callers see it: the operations of         *)
(* internal/app/restore/service.go, the coordinator and the goroutine that  *)
(* StartRestore leaves behind, and the status that all of them, and every   *)
(* worker, read, modify and write without a lock.                           *)
(*                                                                         *)
(* How a worker restores a topic is module RestoreWorker's: here a topic    *)
(* takes some segments that can be read, of any of its partitions, each of   *)
(* which produces one message unless its partition is given up.             *)
(***************************************************************************)
EXTENDS Integers

CONSTANTS
  Clients,          \* the processes that call the service
  Nobody,           \* owner of a coordinator that does not exist yet
  NumWorkers,       \* Restore.Workers
  NumTopics,        \* topics of the backup that filterTopics leaves
  SegmentsPerTopic, \* bound: segments of a topic
  MaxCoordinators,  \* bound: how many StartRestore calls may succeed
  MaxCalls,         \* bound: operations that the clients call, in all
  Mode,             \* "main": cmd/restore; "usecase": any RestoreUseCase call
  Faults            \* what may go wrong

(* NumWorkers is 1 at least: validateRestore. *)
ASSUME ServiceAssumption ==
  /\ Nobody \notin Clients
  /\ NumWorkers \in Nat \ {0}
  /\ NumTopics \in Nat
  /\ SegmentsPerTopic \in Nat
  /\ MaxCoordinators \in Nat
  /\ MaxCalls \in Nat
  /\ Mode \in {"main", "usecase"}
  /\ Faults \subseteq {"kafka", "state", "cancel", "crash"}

WorkerIds == 0 .. NumWorkers - 1
Coordinators == 1 .. MaxCoordinators
Workers == Coordinators \X WorkerIds
Topics == 0 .. NumTopics - 1

VARIABLES
  status,       \* the status in the state repository
  clientPc,     \* clientPc[c]: where client c is in the operation it called
  calls,        \* operations called
  copy,         \* copy[c]: the status it has read
  owner,        \* owner[k]: the client whose process coordinator k runs in
  coordinatorPc,\* coordinatorPc[k]: where the goroutine of StartRestore is
  held,         \* held[k]: the status it holds
  workerPc,     \* workerPc[x]: where worker x = <<coordinator, id>> is
  workerCopy,   \* workerCopy[x]: the status it has read
  topic,        \* topic[x]: the topic it restores
  left,         \* left[x]: segments of the topic still to be restored
  report,       \* report[x]: what it writes to the status next
  outcome,      \* outcome[k][t]: what became of topic t
  produced      \* messages produced, by all workers

clientVars == <<clientPc, calls, copy>>
coordinatorVars == <<owner, coordinatorPc, held>>
workerVars == <<workerPc, workerCopy, topic, left, report, outcome, produced>>
vars == <<status, clientVars, coordinatorVars, workerVars>>

-----------------------------------------------------------------------------
(* State *)

Phase ==
  {"Absent", "Pending", "Validating", "Running", "Completed", "Failed"}

(* RestoreStatus as far as it is read again: MessagesRestored, Progress by  *)
(* topic, and whether there are Errors.                                     *)
Status ==
  [phase : Phase, restored : Nat,
   progress : [Topics -> {"none", "pending", "completed"}],
   errors : BOOLEAN]

Fresh(phase) ==
  [phase |-> phase, restored |-> 0, progress |-> [t \in Topics |-> "none"],
   errors |-> FALSE]

Exists == status.phase # "Absent"

ClientLocation ==
  {"idle", "create", "start", "startValidate", "startCheck", "startFailed",
   "startMetadata", "startUpdate", "validate", "validateUpdate",
   "validateCheck", "delete", "get", "set", "dead"}

Active(x) == workerPc[x] \in {"topic", "read", "update"}

Init ==
  /\ status = Fresh("Absent")
  /\ clientPc = [c \in Clients |-> IF Mode = "main" THEN "create" ELSE "idle"]
  /\ calls = 0
  /\ copy = [c \in Clients |-> Fresh("Absent")]
  /\ owner = [k \in Coordinators |-> Nobody]
  /\ coordinatorPc = [k \in Coordinators |-> "off"]
  /\ held = [k \in Coordinators |-> Fresh("Absent")]
  /\ workerPc = [x \in Workers |-> "off"]
  /\ workerCopy = [x \in Workers |-> Fresh("Absent")]
  /\ topic = [x \in Workers |-> 0]
  /\ left = [x \in Workers |-> 0]
  /\ report = [x \in Workers |-> "none"]
  /\ outcome = [k \in Coordinators |-> [t \in Topics |-> "none"]]
  /\ produced = 0

-----------------------------------------------------------------------------
(* Client control *)

Goto(c, location) == clientPc' = [clientPc EXCEPT ![c] = location]

Drop(c) == copy' = [copy EXCEPT ![c] = Fresh("Absent")]

(* The operation has returned. *)
Return(c) == Goto(c, "idle") /\ Drop(c)

(* An operation returns an error.  main logs it as fatal and exits. *)
Fail(c) == Goto(c, IF Mode = "main" THEN "dead" ELSE "idle") /\ Drop(c)

(* Any operation, in any order: nothing in the interface forbids one. *)
Call(c) ==
  /\ Mode = "usecase"
  /\ clientPc[c] = "idle"
  /\ calls < MaxCalls
  /\ calls' = calls + 1
  /\ \E op \in {"create", "start", "validate", "delete", "get"} : Goto(c, op)
  /\ UNCHANGED <<status, copy, coordinatorVars, workerVars>>

(* GetRestoreState fails, or returns a copy of the status. *)
NotRetrieved(c) == (~Exists \/ "state" \in Faults) /\ Fail(c)

Retrieved(c) == Exists /\ copy' = [copy EXCEPT ![c] = status]

(* UpdateRestoreState: the whole status is replaced.  A restore that has    *)
(* been deleted cannot be updated.                                          *)
WriteState(new) == Exists /\ status' = new

CannotWrite == ~Exists \/ "state" \in Faults

-----------------------------------------------------------------------------
(* CreateRestore: validateRestore, then a blind save *)

CreateRestore(c) ==
  /\ clientPc[c] = "create"
  /\ \/ /\ status' = Fresh("Pending")
        /\ Goto(c, IF Mode = "main" THEN "start" ELSE "idle")
        /\ UNCHANGED copy
     \/ /\ "state" \in Faults
        /\ Fail(c)
        /\ UNCHANGED status
  /\ UNCHANGED <<calls, coordinatorVars, workerVars>>

-----------------------------------------------------------------------------
(* ValidateRestore, on a restore that GetRestore returned; StartRestore      *)
(* calls it on its own copy.                                                 *)

GetForValidate(c) ==
  /\ clientPc[c] = "validate"
  /\ \/ NotRetrieved(c)
     \/ Retrieved(c) /\ Goto(c, "validateUpdate")
  /\ UNCHANGED <<status, calls, coordinatorVars, workerVars>>

Validating(s) == [s EXCEPT !.phase = "Validating"]

ValidateUpdate(c) ==
  /\ clientPc[c] = "validateUpdate"
  /\ \/ WriteState(Validating(copy[c])) /\ Goto(c, "validateCheck") /\ Drop(c)
     \/ CannotWrite /\ Fail(c) /\ UNCHANGED status
  /\ UNCHANGED <<calls, coordinatorVars, workerVars>>

(* The health checks and the metadata of the backup: a failure leaves the   *)
(* restore as it is, Validating.                                            *)
ValidateCheck(c) ==
  /\ clientPc[c] = "validateCheck"
  /\ Return(c)
  /\ UNCHANGED <<status, calls, coordinatorVars, workerVars>>

-----------------------------------------------------------------------------
(* StartRestore *)

StartRestore(c) ==
  /\ clientPc[c] = "start"
  /\ \/ NotRetrieved(c)
     \/ status.phase = "Running" /\ Fail(c)
     \/ status.phase # "Running" /\ Retrieved(c) /\ Goto(c, "startValidate")
  /\ UNCHANGED <<status, calls, coordinatorVars, workerVars>>

(* The phase is set on the copy before it is written. *)
StartValidate(c) ==
  /\ clientPc[c] = "startValidate"
  /\ copy' = [copy EXCEPT ![c] = Validating(copy[c])]
  /\ \/ WriteState(copy'[c]) /\ Goto(c, "startCheck")
     \/ CannotWrite /\ Goto(c, "startFailed") /\ UNCHANGED status
  /\ UNCHANGED <<calls, coordinatorVars, workerVars>>

StartCheck(c) ==
  /\ clientPc[c] = "startCheck"
  /\ \/ Goto(c, "startMetadata")
     \/ "kafka" \in Faults /\ Goto(c, "startFailed")
  /\ UNCHANGED <<status, calls, copy, coordinatorVars, workerVars>>

FailedStatus(s) ==
  [s EXCEPT !.phase = "Failed", !.errors = TRUE]

(* The error of this update is ignored. *)
StartFailed(c) ==
  /\ clientPc[c] = "startFailed"
  /\ \/ WriteState(FailedStatus(copy[c]))
     \/ CannotWrite /\ UNCHANGED status
  /\ Fail(c)
  /\ UNCHANGED <<calls, coordinatorVars, workerVars>>

StartedStatus_NoProgress(s) == [s EXCEPT !.phase = "Running", !.progress = <<>>]

(* GetBackupMetadata, filterTopics and createTopics.  The topics createTopics*)
(* makes are among those RestoreWorker starts with; its errors are logged.   *)
StartMetadata(c) ==
  /\ clientPc[c] = "startMetadata"
  /\ \/ Goto(c, "startUpdate") /\ UNCHANGED copy
     \/ "state" \in Faults /\ Fail(c)
  /\ UNCHANGED <<status, calls, coordinatorVars, workerVars>>

(* Progress starts again; MessagesRestored and Errors do not. *)
StartedStatus(s) ==
  [s EXCEPT !.phase = "Running", !.progress = [t \in Topics |-> "pending"]]

(* Coordinator.Start: slices of ceil(n / workers) topics, the last of them  *)
(* shorter, and no worker for a slice that would be empty.                  *)
TopicsPerWorker == (NumTopics + NumWorkers - 1) \div NumWorkers

FirstTopic(i) == i * TopicsPerWorker

LastTopic(i) ==
  IF FirstTopic(i) + TopicsPerWorker > NumTopics
    THEN NumTopics - 1
    ELSE FirstTopic(i) + TopicsPerWorker - 1

HasTopics_OffByOne(i) == FirstTopic(i) < NumTopics - 1

HasTopics(i) == FirstTopic(i) < NumTopics

TopicsOf(i) == IF HasTopics(i) THEN FirstTopic(i) .. LastTopic(i) ELSE {}

FreeCoordinators == {k \in Coordinators : owner[k] = Nobody}

(* go coordinator.Start(ctx). *)
SpawnCoordinator(c, s) ==
  LET k == CHOOSE free \in FreeCoordinators : TRUE
      Mine(x) == x[1] = k /\ TopicsOf(x[2]) # {}
  IN
    /\ owner' = [owner EXCEPT ![k] = c]
    /\ coordinatorPc' = [coordinatorPc EXCEPT ![k] = "wait"]
    /\ held' = [held EXCEPT ![k] = s]
    /\ workerPc' = [x \in Workers |-> IF Mine(x) THEN "topic" ELSE workerPc[x]]
    /\ topic' = [x \in Workers |-> IF Mine(x) THEN FirstTopic(x[2]) ELSE topic[x]]
    /\ left' = [x \in Workers |-> IF Mine(x) THEN SegmentsPerTopic ELSE left[x]]
    /\ UNCHANGED <<workerCopy, report, outcome, produced>>

StartUpdate(c) ==
  /\ clientPc[c] = "startUpdate"
  /\ \/ /\ FreeCoordinators # {}
        /\ WriteState(StartedStatus(copy[c]))
        /\ SpawnCoordinator(c, StartedStatus(copy[c]))
        /\ Return(c)
        /\ UNCHANGED calls
     \/ /\ CannotWrite
        /\ Fail(c)
        /\ UNCHANGED <<status, calls, coordinatorVars, workerVars>>

-----------------------------------------------------------------------------
(* DeleteRestore; GetRestoreStatus and UpdateRestoreStatus with its result *)

DeleteRestore(c) ==
  /\ clientPc[c] = "delete"
  /\ \/ status' = Fresh("Absent") /\ Return(c)
     \/ "state" \in Faults /\ Fail(c) /\ UNCHANGED status
  /\ UNCHANGED <<calls, coordinatorVars, workerVars>>

GetRestoreStatus(c) ==
  /\ clientPc[c] = "get"
  /\ NotRetrieved(c) \/ (Retrieved(c) /\ Goto(c, "set"))
  /\ UNCHANGED <<status, calls, coordinatorVars, workerVars>>

UpdateRestoreStatus(c) ==
  /\ clientPc[c] = "set"
  /\ \/ WriteState(copy[c]) /\ Return(c)
     \/ CannotWrite /\ Fail(c) /\ UNCHANGED status
  /\ UNCHANGED <<calls, coordinatorVars, workerVars>>

-----------------------------------------------------------------------------
(* The workers of a coordinator *)

WorkerGoto(x, location) == workerPc' = [workerPc EXCEPT ![x] = location]

Ended(x, result) ==
  outcome' = [outcome EXCEPT ![x[1]] =
    [t \in Topics |-> IF t = topic[x] THEN result ELSE outcome[x[1]][t]]]

WillReport(x, what) ==
  /\ report' = [report EXCEPT ![x] = what]
  /\ WorkerGoto(x, "read")

(* restorePartition up to updateWorkerStatus. *)
RestoreSegment(x) ==
  /\ workerPc[x] = "topic"
  /\ left[x] > 0
  /\ left' = [left EXCEPT ![x] = @ - 1]
  /\ produced' = produced + 1
  /\ WillReport(x, "count")
  /\ UNCHANGED <<status, clientVars, coordinatorVars, workerCopy, topic, outcome>>

RestoreTopic(x) ==
  /\ workerPc[x] = "topic"
  /\ left[x] = 0
  /\ Ended(x, "restored")
  /\ WillReport(x, "completed")
  /\ UNCHANGED <<status, clientVars, coordinatorVars, workerCopy, topic, left,
                 produced>>

(* restorePartition returns an error, because a message is not accepted or   *)
(* the context is cancelled: the rest of the partition is left out, and what *)
(* was produced of the segment is not counted.  The error is recorded, and   *)
(* the topic goes on with the next partition.                                *)
PartitionFails(x) ==
  /\ workerPc[x] = "topic"
  /\ Faults \cap {"kafka", "cancel"} # {}
  /\ left[x] > 0
  /\ \E rest \in 0 .. left[x] - 1 : left' = [left EXCEPT ![x] = rest]
  /\ produced' \in {produced, produced + 1}
  /\ WillReport(x, "partition")
  /\ UNCHANGED <<status, clientVars, coordinatorVars, workerCopy, topic, outcome>>

(* restoreTopic returns an error, which is recorded: the next topic follows. *)
TopicFails(x) ==
  /\ workerPc[x] = "topic"
  /\ Faults \cap {"kafka", "cancel"} # {}
  /\ Ended(x, "failed")
  /\ left' = [left EXCEPT ![x] = 0]
  /\ WillReport(x, "error")
  /\ UNCHANGED <<status, clientVars, coordinatorVars, workerCopy, topic,
                 produced>>

(* CreateProducer or CreateAdmin fails, or the context is cancelled: Start   *)
(* returns an error that the coordinator logs.                               *)
WorkerFails(x) ==
  /\ workerPc[x] = "topic"
  /\ \/ "kafka" \in Faults /\ topic[x] = FirstTopic(x[2])
     \/ "cancel" \in Faults
  /\ outcome' = [outcome EXCEPT ![x[1]] =
       [t \in Topics |-> IF t \in topic[x] .. LastTopic(x[2])
                           THEN "failed" ELSE outcome[x[1]][t]]]
  /\ left' = [left EXCEPT ![x] = 0]
  /\ WorkerGoto(x, "done")
  /\ UNCHANGED <<status, clientVars, coordinatorVars, workerCopy, topic,
                 report, produced>>

(* updateWorkerStatus and the recordError of a partition return to the       *)
(* segments of the topic, the others to the loop over the topics.            *)
Reported(x) ==
  /\ report' = [report EXCEPT ![x] = "none"]
  /\ workerCopy' = [workerCopy EXCEPT ![x] = Fresh("Absent")]
  /\ IF report[x] \in {"count", "partition"} THEN
       WorkerGoto(x, "topic") /\ UNCHANGED <<topic, left>>
     ELSE IF topic[x] < LastTopic(x[2]) THEN
       /\ WorkerGoto(x, "topic")
       /\ topic' = [topic EXCEPT ![x] = @ + 1]
       /\ left' = [left EXCEPT ![x] = SegmentsPerTopic]
     ELSE
       /\ WorkerGoto(x, "done")
       /\ left' = [left EXCEPT ![x] = 0]
       /\ UNCHANGED topic

WorkerRead_Retries(x) ==
  /\ workerPc[x] = "read"
  /\ Exists
  /\ workerCopy' = [workerCopy EXCEPT ![x] = status]
  /\ WorkerGoto(x, "update")
  /\ UNCHANGED <<status, clientVars, coordinatorVars, topic, left, report,
                 outcome, produced>>

(* An error is logged: the report is lost. *)
WorkerRead(x) ==
  /\ workerPc[x] = "read"
  /\ \/ /\ Exists
        /\ workerCopy' = [workerCopy EXCEPT ![x] = status]
        /\ WorkerGoto(x, "update")
        /\ UNCHANGED <<topic, left, report>>
     \/ CannotWrite /\ Reported(x)
  /\ UNCHANGED <<status, clientVars, coordinatorVars, outcome, produced>>

CountSegment_Twice(s) == [s EXCEPT !.restored = @ + 2]

CountSegment(s) == [s EXCEPT !.restored = @ + 1]

CompleteTopic_Next(s, t) ==
  [s EXCEPT !.progress = [u \in Topics |-> IF u > t THEN "completed"
                                                    ELSE s.progress[u]]]

(* A topic that has no entry in Progress is not looked for again. *)
CompleteTopic(s, t) ==
  [s EXCEPT !.progress = [u \in Topics |->
     IF u = t /\ s.progress[t] # "none" THEN "completed" ELSE s.progress[u]]]

RecordError(s) == [s EXCEPT !.errors = TRUE]

ReportedStatus(x) ==
  LET s == workerCopy[x] IN
    CASE report[x] = "count" -> CountSegment(s)
      [] report[x] = "completed" -> CompleteTopic(s, topic[x])
      [] OTHER -> RecordError(s)

WorkerUpdate(x) ==
  /\ workerPc[x] = "update"
  /\ \/ WriteState(ReportedStatus(x))
     \/ CannotWrite /\ UNCHANGED status
  /\ Reported(x)
  /\ UNCHANGED <<clientVars, coordinatorVars, outcome, produced>>

WorkerStep(x) ==
  \/ RestoreSegment(x) \/ RestoreTopic(x)
  \/ PartitionFails(x) \/ TopicFails(x) \/ WorkerFails(x)
  \/ WorkerRead(x) \/ WorkerUpdate(x)

-----------------------------------------------------------------------------
(* The goroutine of StartRestore *)

WorkersDone_WithoutAdd(k) == TRUE

(* wg.Wait *)
WorkersDone(k) == \A i \in WorkerIds : ~Active(<<k, i>>)

(* coordinator.Start never returns an error.  What is written is the status *)
(* of the start of the restore.                                             *)
Finish(k) ==
  /\ coordinatorPc[k] = "wait"
  /\ WorkersDone(k)
  /\ \/ WriteState([held[k] EXCEPT !.phase = "Completed"])
     \/ CannotWrite /\ UNCHANGED status
  /\ coordinatorPc' = [coordinatorPc EXCEPT ![k] = "done"]
  /\ held' = [held EXCEPT ![k] = Fresh("Absent")]
  /\ UNCHANGED <<clientVars, owner, workerVars>>

-----------------------------------------------------------------------------
(* Processes: a client takes its coordinators with it when it dies, and a   *)
(* pod is restarted (RestartPolicyOnFailure) and runs main again.  main     *)
(* itself waits for the signal, not for the restore.                        *)

Victim(c, k) == owner[k] = c /\ coordinatorPc[k] = "wait"

Crash(c) ==
  /\ "crash" \in Faults
  /\ clientPc[c] # "dead"
  /\ Goto(c, "dead")
  /\ Drop(c)
  /\ coordinatorPc' = [k \in Coordinators |->
       IF Victim(c, k) THEN "dead" ELSE coordinatorPc[k]]
  /\ held' = [k \in Coordinators |->
       IF Victim(c, k) THEN Fresh("Absent") ELSE held[k]]
  /\ workerPc' = [x \in Workers |->
       IF Victim(c, x[1]) THEN "dead" ELSE workerPc[x]]
  /\ workerCopy' = [x \in Workers |->
       IF Victim(c, x[1]) THEN Fresh("Absent") ELSE workerCopy[x]]
  /\ left' = [x \in Workers |-> IF Victim(c, x[1]) THEN 0 ELSE left[x]]
  /\ report' = [x \in Workers |->
       IF Victim(c, x[1]) THEN "none" ELSE report[x]]
  /\ UNCHANGED <<status, calls, owner, topic, outcome, produced>>

Restart(c) ==
  /\ clientPc[c] = "dead"
  /\ Goto(c, IF Mode = "main" THEN "create" ELSE "idle")
  /\ UNCHANGED <<status, calls, copy, coordinatorVars, workerVars>>

ClientStep(c) ==
  \/ Call(c) \/ CreateRestore(c)
  \/ GetForValidate(c) \/ ValidateUpdate(c) \/ ValidateCheck(c)
  \/ StartRestore(c) \/ StartValidate(c) \/ StartCheck(c) \/ StartFailed(c)
  \/ StartMetadata(c) \/ StartUpdate(c)
  \/ DeleteRestore(c) \/ GetRestoreStatus(c) \/ UpdateRestoreStatus(c)
  \/ Crash(c) \/ Restart(c)

(* Nothing is left to do but to wait; StartUpdate waits for MaxCoordinators *)
(* only.                                                                    *)
Waiting ==
  /\ \A c \in Clients : clientPc[c] \in {"idle", "startUpdate"}
  /\ \A k \in Coordinators : coordinatorPc[k] # "wait"
  /\ UNCHANGED vars

CoordinatorStep(k) == Finish(k) \/ \E i \in WorkerIds : WorkerStep(<<k, i>>)

Next ==
  \/ \E c \in Clients : ClientStep(c)
  \/ \E k \in Coordinators : CoordinatorStep(k)
  \/ Waiting

Spec == Init /\ [][Next]_vars

(* The goroutines that StartRestore leaves behind are scheduled.  Nothing   *)
(* is said of the clients, which call what they like.                       *)
LiveSpec == Spec /\ \A k \in Coordinators : WF_vars(CoordinatorStep(k))

-----------------------------------------------------------------------------
(* Properties *)

(* Every variable has its type; in particular whatever copy is written back *)
(* is a whole status.                                                       *)
TypeOK ==
  /\ status \in Status
  /\ clientPc \in [Clients -> ClientLocation]
  /\ calls \in Nat
  /\ copy \in [Clients -> Status]
  /\ owner \in [Coordinators -> Clients \cup {Nobody}]
  /\ coordinatorPc \in [Coordinators -> {"off", "wait", "done", "dead"}]
  /\ held \in [Coordinators -> Status]
  /\ workerPc \in [Workers -> {"off", "topic", "read", "update", "done", "dead"}]
  /\ workerCopy \in [Workers -> Status]
  /\ topic \in [Workers -> Topics \cup {0}]
  /\ left \in [Workers -> Nat]
  /\ report \in [Workers ->
                    {"none", "count", "partition", "completed", "error"}]
  /\ outcome \in [Coordinators ->
                    [Topics -> {"none", "restored", "failed"}]]
  /\ produced \in Nat

(* MessagesRestored never claims a message that was not produced, whichever *)
(* stale status is written back and however often the restore is started.   *)
CountersNeverOverstate == status.restored <= produced

(* A topic is shown as completed only when restoreTopic has returned nil    *)
(* for it, in this or an earlier start of the restore.                      *)
ProgressIsEarned ==
  \A t \in Topics : status.progress[t] = "completed" =>
    \E k \in Coordinators : outcome[k][t] = "restored"

(* A restore is Completed only when the workers of one of its starts have   *)
(* all returned: the goroutine of StartRestore waits for them.              *)
CompletedIsOver ==
  status.phase = "Completed" =>
    \E k \in Coordinators :
      coordinatorPc[k] = "done" /\ \A i \in WorkerIds : ~Active(<<k, i>>)

(* The slices of the coordinator leave no topic out: when it is done, each  *)
(* topic has been restored or has failed, or its worker has given up.       *)
NoTopicForgotten ==
  \A k \in Coordinators : coordinatorPc[k] = "done" =>
    \A t \in Topics : outcome[k][t] # "none"

(* The coordinator returns, though the state repository fails and the       *)
(* restore is deleted meanwhile: it never hangs on a worker.                *)
CoordinatorEnds ==
  \A k \in Coordinators : coordinatorPc[k] = "wait" ~> coordinatorPc[k] # "wait"

(* "recordError records an error in the restore status", worker.go:435: an  *)
(* error that was recorded is still there when the restore is Completed.    *)
ErrorsSurvive ==
  [][status.phase = "Running" /\ status'.phase = "Completed" /\ status.errors
       => status'.errors]_vars
=============================================================================
