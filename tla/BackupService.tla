--------------------------- MODULE BackupService ---------------------------
(***************************************************************************)
(* The life of one backup as its callers see it: the operations of         *)
(* internal/app/backup/service.go, the coordinator StartBackup leaves       *)
(* behind, and the status that the service and every worker read, modify    *)
(* and write without a lock (Worker.updateWorkerStatus).                    *)
(*                                                                         *)
(* What a worker stores is module BackupWorker's: here a flush is one step  *)
(* that puts one message under the next segment number of a topic.  Every   *)
(* start begins at segment 0 again and puts under the same keys.            *)
(***************************************************************************)
EXTENDS Integers, FiniteSets, FiniteSetsExt

CONSTANTS
  Clients,          \* the processes that call the service
  Nobody,           \* owner of a coordinator that does not exist yet
  NumWorkers,       \* WorkerConfig.Workers
  NumTopics,        \* topics of the cluster
  MaxCoordinators,  \* bound: how many StartBackup calls may succeed
  MaxPuts,          \* bound: how many messages are put, in all
  Mode,             \* "main": cmd/backup; "usecase": any BackupUseCase call
  Faults            \* what may go wrong

ASSUME ServiceAssumption ==
  /\ Nobody \notin Clients
  /\ NumWorkers \in Nat \ {0}
  /\ NumTopics \in Nat
  /\ MaxCoordinators \in Nat
  /\ MaxPuts \in Nat
  /\ Mode \in {"main", "usecase"}
  /\ Faults \subseteq {"kafka", "state", "crash"}

WorkerIds == 0 .. NumWorkers - 1
Coordinators == 1 .. MaxCoordinators
Workers == Coordinators \X WorkerIds
Topics == 0 .. NumTopics - 1

VARIABLES
  status,      \* the status in the state repository
  clientPc,    \* clientPc[c]: where client c is in the operation it called
  copy,        \* copy[c]: the status it has read
  owner,       \* owner[k]: the client whose process coordinator k runs in
  workerPc,    \* workerPc[x]: where worker x = <<coordinator, id>> is
  workerCopy,  \* workerCopy[x]: the status updateWorkerStatus has read
  segment,     \* segment[x][t]: the number of the next segment of topic t
  store,       \* the keys <<topic, number>> that hold a segment
  puts         \* messages put so far, those put over others included

clientVars == <<clientPc, copy>>
storeVars == <<segment, store, puts>>
workerVars == <<owner, workerPc, workerCopy, storeVars>>
vars == <<status, clientVars, workerVars>>

-----------------------------------------------------------------------------
(* State *)

Phase == {"Absent", "Pending", "Running", "Suspended"}

(* BackupStatus as far as it is read again: MessagesProcessed, in all and   *)
(* per worker.  No code sets the phases Completed and Failed.               *)
Status == [phase : Phase, processed : Nat, workers : [WorkerIds -> Nat]]

NoWorkersYet == [i \in WorkerIds |-> 0]

Fresh(phase) == [phase |-> phase, processed |-> 0, workers |-> NoWorkersYet]

Exists == status.phase # "Absent"

ClientLocation ==
  {"idle", "create", "start", "discover", "startUpdate", "stop", "stopUpdate",
   "delete", "deleteStop", "deleteStopUpdate", "deleteState", "get", "set",
   "dead"}

WorkerLocation == {"off", "flush", "read", "update", "done", "dead"}

Active(x) == workerPc[x] \in {"flush", "read", "update"}

Init ==
  /\ status = Fresh("Absent")
  /\ clientPc = [c \in Clients |-> IF Mode = "main" THEN "create" ELSE "idle"]
  /\ copy = [c \in Clients |-> Fresh("Absent")]
  /\ owner = [k \in Coordinators |-> Nobody]
  /\ workerPc = [x \in Workers |-> "off"]
  /\ workerCopy = [x \in Workers |-> Fresh("Absent")]
  /\ segment = [x \in Workers |-> [t \in Topics |-> 0]]
  /\ store = {}
  /\ puts = 0

-----------------------------------------------------------------------------
(* Client control *)

Goto(c, location) == clientPc' = [clientPc EXCEPT ![c] = location]

(* The operation has returned: its copy is gone. *)
Return(c) == Goto(c, "idle") /\ copy' = [copy EXCEPT ![c] = Fresh("Absent")]

(* An operation returns an error.  main logs it as fatal and exits. *)
Fail(c) ==
  /\ Goto(c, IF Mode = "main" THEN "dead" ELSE "idle")
  /\ copy' = [copy EXCEPT ![c] = Fresh("Absent")]

(* Any operation, in any order: nothing in the interface forbids one. *)
Call(c) ==
  /\ Mode = "usecase"
  /\ clientPc[c] = "idle"
  /\ \E op \in {"create", "start", "stop", "delete", "get"} : Goto(c, op)
  /\ UNCHANGED <<status, copy, workerVars>>

(* GetBackupState fails, or returns a copy of the status.                   *)
NotRetrieved(c) == (~Exists \/ "state" \in Faults) /\ Fail(c)

Retrieved(c) == Exists /\ copy' = [copy EXCEPT ![c] = status]

(* UpdateBackupState: the whole status is replaced.  A backup that has      *)
(* been deleted cannot be updated.                                          *)
WriteState(new) == Exists /\ status' = new

CannotWrite == ~Exists \/ "state" \in Faults

-----------------------------------------------------------------------------
(* CreateBackup: validation and health checks, then a blind save *)

CreateBackup(c) ==
  /\ clientPc[c] = "create"
  /\ \/ /\ status' = Fresh("Pending")
        /\ Goto(c, IF Mode = "main" THEN "start" ELSE "idle")
        /\ UNCHANGED copy
     \/ /\ Faults \cap {"kafka", "state"} # {}
        /\ Fail(c)
        /\ UNCHANGED status
  /\ UNCHANGED workerVars

-----------------------------------------------------------------------------
(* StartBackup *)

StartBackup(c) ==
  /\ clientPc[c] = "start"
  /\ \/ NotRetrieved(c)
     \/ status.phase = "Running" /\ Fail(c)
     \/ status.phase # "Running" /\ Retrieved(c) /\ Goto(c, "discover")
  /\ UNCHANGED <<status, workerVars>>

(* CreateAdmin and ListTopics. *)
DiscoverTopics(c) ==
  /\ clientPc[c] = "discover"
  /\ \/ Goto(c, "startUpdate") /\ UNCHANGED copy
     \/ "kafka" \in Faults /\ Fail(c)
  /\ UNCHANGED <<status, workerVars>>

HashTopic(t) == 0

(* DistributeTopics: the topics of worker i. *)
TopicsOf(i) == {t \in Topics : HashTopic(t) % NumWorkers = i}

StartedStatus_ResetsTotal(s) == [s EXCEPT !.phase = "Running", !.processed = 0]

StartedStatus_NoSlots(s) == [s EXCEPT !.phase = "Running", !.workers = <<>>]

(* The per-worker counters start again, the totals do not. *)
StartedStatus(s) == [s EXCEPT !.phase = "Running", !.workers = NoWorkersYet]

FreeCoordinators == {k \in Coordinators : owner[k] = Nobody}

(* go coordinator.Start(ctx): a worker for every id that has topics, each   *)
(* of which begins at segment 0.  Coordinators are numbered as they start.  *)
SpawnCoordinator(c) ==
  \E k \in FreeCoordinators :
    /\ \A l \in FreeCoordinators : k <= l
    /\ owner' = [owner EXCEPT ![k] = c]
    /\ workerPc' = [x \in Workers |->
         IF x[1] = k /\ TopicsOf(x[2]) # {} THEN "flush" ELSE workerPc[x]]
    /\ segment' = [x \in Workers |->
         IF x[1] = k THEN [t \in Topics |-> 0] ELSE segment[x]]
    /\ UNCHANGED <<workerCopy, store, puts>>

StartUpdate(c) ==
  /\ clientPc[c] = "startUpdate"
  /\ \/ /\ WriteState(StartedStatus(copy[c]))
        /\ SpawnCoordinator(c)
        /\ Return(c)
     \/ /\ CannotWrite
        /\ Fail(c)
        /\ UNCHANGED <<status, workerVars>>

-----------------------------------------------------------------------------
(* StopBackup: the status, and nothing but the status *)

StopBackup(c) ==
  /\ clientPc[c] = "stop"
  /\ \/ NotRetrieved(c)
     \/ status.phase # "Running" /\ Fail(c)
     \/ status.phase = "Running" /\ Retrieved(c) /\ Goto(c, "stopUpdate")
  /\ UNCHANGED <<status, workerVars>>

StopUpdate(c) ==
  /\ clientPc[c] = "stopUpdate"
  /\ \/ WriteState([copy[c] EXCEPT !.phase = "Suspended"])
     \/ CannotWrite /\ UNCHANGED status
  /\ Return(c)
  /\ UNCHANGED workerVars

-----------------------------------------------------------------------------
(* DeleteBackup: StopBackup if running, whose failure is only logged *)

DeleteBackup(c) ==
  /\ clientPc[c] = "delete"
  /\ \/ NotRetrieved(c)
     \/ /\ Exists
        /\ Goto(c, IF status.phase = "Running" THEN "deleteStop"
                                               ELSE "deleteState")
        /\ UNCHANGED copy
  /\ UNCHANGED <<status, workerVars>>

DeleteStop(c) ==
  /\ clientPc[c] = "deleteStop"
  /\ \/ /\ Retrieved(c)
        /\ Goto(c, IF status.phase = "Running" THEN "deleteStopUpdate"
                                               ELSE "deleteState")
     \/ /\ CannotWrite
        /\ Goto(c, "deleteState")
        /\ UNCHANGED copy
  /\ UNCHANGED <<status, workerVars>>

DeleteStopUpdate(c) ==
  /\ clientPc[c] = "deleteStopUpdate"
  /\ \/ WriteState([copy[c] EXCEPT !.phase = "Suspended"])
     \/ CannotWrite /\ UNCHANGED status
  /\ Goto(c, "deleteState")
  /\ UNCHANGED <<copy, workerVars>>

DeleteState(c) ==
  /\ clientPc[c] = "deleteState"
  /\ \/ status' = Fresh("Absent")
     \/ "state" \in Faults /\ UNCHANGED status
  /\ Return(c)
  /\ UNCHANGED workerVars

-----------------------------------------------------------------------------
(* GetBackupStatus, and UpdateBackupStatus with what it returned *)

GetBackupStatus(c) ==
  /\ clientPc[c] = "get"
  /\ NotRetrieved(c) \/ (Retrieved(c) /\ Goto(c, "set"))
  /\ UNCHANGED <<status, workerVars>>

UpdateBackupStatus(c) ==
  /\ clientPc[c] = "set"
  /\ \/ WriteState(copy[c])
     \/ UNCHANGED status
  /\ Return(c)
  /\ UNCHANGED workerVars

-----------------------------------------------------------------------------
(* The workers of a coordinator *)

WorkerGoto(x, location) == workerPc' = [workerPc EXCEPT ![x] = location]

NextSegment_Same(n) == n

NextSegment(n) == n + 1

(* flushBatch up to the stored segment, of any topic of the worker.  A key  *)
(* that an earlier start has used is written over.                          *)
Flush(x) ==
  /\ workerPc[x] = "flush"
  /\ puts < MaxPuts
  /\ \E t \in TopicsOf(x[2]) :
       /\ store' = store \cup {<<t, segment[x][t]>>}
       /\ segment' = [segment EXCEPT ![x][t] = NextSegment(@)]
  /\ puts' = puts + 1
  /\ WorkerGoto(x, "read")
  /\ UNCHANGED <<status, clientVars, owner, workerCopy>>

(* Polls come back empty, or fail to be flushed, for all topics. *)
WorkerDone(x) ==
  /\ workerPc[x] = "flush"
  /\ WorkerGoto(x, "done")
  /\ UNCHANGED <<status, clientVars, owner, workerCopy, storeVars>>

(* updateWorkerStatus, first half.  An error is logged: the flush stays     *)
(* uncounted.                                                               *)
WorkerRead(x) ==
  /\ workerPc[x] = "read"
  /\ \/ /\ Exists
        /\ workerCopy' = [workerCopy EXCEPT ![x] = status]
        /\ WorkerGoto(x, "update")
     \/ /\ CannotWrite
        /\ WorkerGoto(x, "flush")
        /\ UNCHANGED workerCopy
  /\ UNCHANGED <<status, clientVars, owner, storeVars>>

CountFlush_TwiceInTotal(s, i) ==
  [s EXCEPT !.processed = @ + 2, !.workers[i] = @ + 1]

CountFlush(s, i) ==
  [s EXCEPT !.processed = @ + 1, !.workers = [s.workers EXCEPT ![i] = @ + 1]]

WorkerUpdate(x) ==
  /\ workerPc[x] = "update"
  /\ \/ WriteState(CountFlush(workerCopy[x], x[2]))
     \/ CannotWrite /\ UNCHANGED status
  /\ WorkerGoto(x, "flush")
  /\ workerCopy' = [workerCopy EXCEPT ![x] = Fresh("Absent")]
  /\ UNCHANGED <<clientVars, owner, storeVars>>

WorkerStep(x) == Flush(x) \/ WorkerDone(x) \/ WorkerRead(x) \/ WorkerUpdate(x)

-----------------------------------------------------------------------------
(* Processes: a client takes its coordinators with it when it dies, and a   *)
(* pod is restarted (RestartPolicyOnFailure) and runs main again.           *)

Kill(c) ==
  LET victims == {x \in Workers : owner[x[1]] = c /\ Active(x)} IN
    /\ workerPc' = [x \in Workers |-> IF x \in victims THEN "dead" ELSE workerPc[x]]
    /\ workerCopy' = [x \in Workers |->
         IF x \in victims THEN Fresh("Absent") ELSE workerCopy[x]]

Crash(c) ==
  /\ "crash" \in Faults
  /\ clientPc[c] # "dead"
  /\ Goto(c, "dead")
  /\ copy' = [copy EXCEPT ![c] = Fresh("Absent")]
  /\ Kill(c)
  /\ UNCHANGED <<status, owner, storeVars>>

Restart(c) ==
  /\ clientPc[c] = "dead"
  /\ Goto(c, IF Mode = "main" THEN "create" ELSE "idle")
  /\ UNCHANGED <<status, copy, workerVars>>

ClientStep(c) ==
  \/ Call(c) \/ CreateBackup(c)
  \/ StartBackup(c) \/ DiscoverTopics(c) \/ StartUpdate(c)
  \/ StopBackup(c) \/ StopUpdate(c)
  \/ DeleteBackup(c) \/ DeleteStop(c) \/ DeleteStopUpdate(c) \/ DeleteState(c)
  \/ GetBackupStatus(c) \/ UpdateBackupStatus(c)
  \/ Crash(c) \/ Restart(c)

(* Nothing is left to do but to wait; StartUpdate waits for MaxCoordinators *)
(* only.                                                                    *)
Waiting ==
  /\ \A c \in Clients : clientPc[c] \in {"idle", "startUpdate"}
  /\ \A x \in Workers : ~Active(x)
  /\ UNCHANGED vars

Next ==
  \/ \E c \in Clients : ClientStep(c)
  \/ \E x \in Workers : WorkerStep(x)
  \/ Waiting

Spec == Init /\ [][Next]_vars

-----------------------------------------------------------------------------
(* Properties *)

(* Every variable has its type; in particular a status always has a slot    *)
(* for each worker, which updateWorkerStatus indexes.                       *)
TypeOK ==
  /\ status \in Status
  /\ clientPc \in [Clients -> ClientLocation]
  /\ copy \in [Clients -> Status]
  /\ owner \in [Coordinators -> Clients \cup {Nobody}]
  /\ workerPc \in [Workers -> WorkerLocation]
  /\ workerCopy \in [Workers -> Status]
  /\ segment \in [Workers -> [Topics -> Nat]]
  /\ store \subseteq Topics \X Nat
  /\ puts \in Nat

(* MessagesProcessed counts no put that did not happen and none twice,      *)
(* whichever stale status is written back, by however many coordinators.    *)
(* It may exceed what is in the store: see OneStartCountsTheStore.          *)
CountersNeverOverstate == status.processed <= puts

Started == {k \in Coordinators : owner[k] # Nobody}

CountsTheStore == status.processed <= Cardinality(store)

(* As long as the backup has been started once, MessagesProcessed claims no *)
(* message that is not in the store, whatever else is called meanwhile and  *)
(* whichever status is written back.  A second start puts over the segments *)
(* of the first and keeps the total (service.go:111), which from then on    *)
(* counts messages that have been replaced.                                 *)
OneStartCountsTheStore == Cardinality(Started) <= 1 => CountsTheStore

WorkerSum(s) == MapThenSumSet(LAMBDA i : s.workers[i], WorkerIds)

(* The workers' counters never add up to more than the total, though a      *)
(* restart resets the ones and not the other.                               *)
WorkerSumWithinTotal == WorkerSum(status) <= status.processed

ActiveCoordinators == {k \in Coordinators : \E i \in WorkerIds : Active(<<k, i>>)}

(* "Check if backup is already running", service.go:86: a backup is never   *)
(* run twice at a time.                                                     *)
SingleCoordinator == Cardinality(ActiveCoordinators) <= 1

(* "Update status to suspended", service.go:162: a suspended backup is      *)
(* running again only after a StartBackup, which starts a coordinator.      *)
StaysSuspended ==
  [][status.phase = "Suspended" /\ status'.phase = "Running" =>
       owner' # owner]_vars
=============================================================================
