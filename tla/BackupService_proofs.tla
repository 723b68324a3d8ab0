------------------------ MODULE BackupService_proofs ------------------------
(***************************************************************************)
(* Theorems about BackupService, for any number of clients, workers,       *)
(* topics and coordinators, either mode and any faults.                    *)
(***************************************************************************)
EXTENDS BackupService, FiniteSetTheorems, WellFoundedInduction, TLAPS

LEMMA FreshType == \A phase \in Phase : Fresh(phase) \in Status
BY DEF Fresh, Status, NoWorkersYet

LEMMA TypeInit == Init => TypeOK
<1> SUFFICES ASSUME Init PROVE TypeOK
  OBVIOUS
<1>1. Fresh("Absent") \in Status
  BY FreshType DEF Phase
<1>2. clientPc \in [Clients -> ClientLocation]
  BY DEF Init, ClientLocation
<1>3. owner \in [Coordinators -> Clients \cup {Nobody}]
  BY DEF Init
<1>4. /\ workerPc \in [Workers -> WorkerLocation]
      /\ segment \in [Workers -> [Topics -> Nat]]
  BY DEF Init, WorkerLocation
<1> QED
  BY <1>1, <1>2, <1>3, <1>4 DEF Init, TypeOK

(* An operation of a client up to its write: the status stays.             *)
LEMMA TypeClientReads ==
  ASSUME TypeOK, NEW c \in Clients,
         \/ Call(c) \/ StartBackup(c) \/ DiscoverTopics(c) \/ StopBackup(c)
         \/ DeleteBackup(c) \/ DeleteStop(c) \/ GetBackupStatus(c)
  PROVE  TypeOK'
<1>1. Fresh("Absent") \in Status
  BY FreshType DEF Phase
<1>2. UNCHANGED <<status, workerVars>>
  BY DEF Call, StartBackup, DiscoverTopics, StopBackup, DeleteBackup,
         DeleteStop, GetBackupStatus
<1>3. /\ clientPc' \in [Clients -> ClientLocation]
      /\ copy' \in [Clients -> Status]
  <2>1. CASE Call(c)
    BY <2>1 DEF Call, Goto, TypeOK, ClientLocation
  <2>2. CASE StartBackup(c)
    BY <1>1, <2>2 DEF StartBackup, NotRetrieved, Retrieved, Fail, Goto, TypeOK, ClientLocation
  <2>3. CASE DiscoverTopics(c)
    BY <1>1, <2>3 DEF DiscoverTopics, Fail, Goto, TypeOK, ClientLocation
  <2>4. CASE StopBackup(c)
    BY <1>1, <2>4 DEF StopBackup, NotRetrieved, Retrieved, Fail, Goto, TypeOK, ClientLocation
  <2>5. CASE DeleteBackup(c)
    BY <1>1, <2>5 DEF DeleteBackup, NotRetrieved, Fail, Goto, TypeOK, ClientLocation
  <2>6. CASE DeleteStop(c)
    BY <1>1, <2>6 DEF DeleteStop, Retrieved, Goto, TypeOK, ClientLocation
  <2>7. CASE GetBackupStatus(c)
    BY <1>1, <2>7 DEF GetBackupStatus, NotRetrieved, Retrieved, Fail, Goto, TypeOK, ClientLocation
  <2> QED
    BY <2>1, <2>2, <2>3, <2>4, <2>5, <2>6, <2>7
<1> QED
  BY <1>2, <1>3 DEF TypeOK, workerVars, storeVars

LEMMA TypeClientWrites ==
  ASSUME TypeOK, NEW c \in Clients,
         \/ CreateBackup(c) \/ StopUpdate(c) \/ DeleteStopUpdate(c)
         \/ DeleteState(c) \/ UpdateBackupStatus(c)
  PROVE  TypeOK'
<1>1. Fresh("Absent") \in Status /\ Fresh("Pending") \in Status
  BY FreshType DEF Phase
<1>2. UNCHANGED workerVars
  BY DEF CreateBackup, StopUpdate, DeleteStopUpdate, DeleteState, UpdateBackupStatus
<1>3. [copy[c] EXCEPT !.phase = "Suspended"] \in Status
  BY DEF TypeOK, Status, Phase
<1>4. /\ status' \in Status
      /\ clientPc' \in [Clients -> ClientLocation]
      /\ copy' \in [Clients -> Status]
  <2>1. CASE CreateBackup(c)
    BY <1>1, <2>1 DEF CreateBackup, Fail, Goto, TypeOK, ClientLocation
  <2>2. CASE StopUpdate(c)
    BY <1>1, <1>3, <2>2 DEF StopUpdate, WriteState, Return, Goto, TypeOK, ClientLocation
  <2>3. CASE DeleteStopUpdate(c)
    BY <1>3, <2>3 DEF DeleteStopUpdate, WriteState, Goto, TypeOK, ClientLocation
  <2>4. CASE DeleteState(c)
    BY <1>1, <2>4 DEF DeleteState, Return, Goto, TypeOK, ClientLocation
  <2>5. CASE UpdateBackupStatus(c)
    BY <1>1, <2>5 DEF UpdateBackupStatus, WriteState, Return, Goto, TypeOK, ClientLocation
  <2> QED
    BY <2>1, <2>2, <2>3, <2>4, <2>5
<1> QED
  BY <1>2, <1>4 DEF TypeOK, workerVars, storeVars

LEMMA TypeStartUpdate ==
  ASSUME TypeOK, NEW c \in Clients, StartUpdate(c)
  PROVE  TypeOK'
<1>1. Fresh("Absent") \in Status
  BY FreshType DEF Phase
<1>2. StartedStatus(copy[c]) \in Status
  BY DEF StartedStatus, TypeOK, Status, Phase, NoWorkersYet
<1>3. /\ clientPc' \in [Clients -> ClientLocation]
      /\ copy' \in [Clients -> Status]
  BY <1>1 DEF StartUpdate, Return, Fail, Goto, TypeOK, ClientLocation
<1>4. CASE UNCHANGED <<status, workerVars>>
  BY <1>3, <1>4 DEF TypeOK, workerVars, storeVars
<1>5. CASE WriteState(StartedStatus(copy[c])) /\ SpawnCoordinator(c)
  <2>1. status' \in Status
    BY <1>2, <1>5 DEF WriteState
  <2>2. /\ owner' \in [Coordinators -> Clients \cup {Nobody}]
        /\ workerPc' \in [Workers -> WorkerLocation]
    <3>1. PICK k \in FreeCoordinators :
            /\ owner' = [owner EXCEPT ![k] = c]
            /\ workerPc' = [x \in Workers |->
                 IF x[1] = k /\ TopicsOf(x[2]) # {} THEN "flush" ELSE workerPc[x]]
      BY <1>5 DEF SpawnCoordinator
    <3>2. owner' \in [Coordinators -> Clients \cup {Nobody}]
      BY <3>1 DEF TypeOK
    <3>3. workerPc' \in [Workers -> WorkerLocation]
      BY <3>1 DEF TypeOK, WorkerLocation
    <3> QED
      BY <3>2, <3>3
  <2>3. segment' \in [Workers -> [Topics -> Nat]]
    BY <1>5 DEF SpawnCoordinator, TypeOK
  <2> QED
    BY <1>3, <1>5, <2>1, <2>2, <2>3 DEF SpawnCoordinator, TypeOK
<1> QED
  BY <1>4, <1>5 DEF StartUpdate

LEMMA CountFlushType ==
  ASSUME NEW s \in Status, NEW i \in WorkerIds
  PROVE  CountFlush(s, i) \in Status
<1> DEFINE n == s.processed + 1
           w == [s.workers EXCEPT ![i] = @ + 1]
<1>1. n \in Nat /\ w \in [WorkerIds -> Nat]
  BY DEF Status
<1>2. CountFlush(s, i) = [s EXCEPT !.processed = n, !.workers = w]
  BY DEF CountFlush
<1> HIDE DEF n, w
<1>3. [s EXCEPT !.processed = n, !.workers = w] \in Status
  BY <1>1 DEF Status
<1> QED
  BY <1>2, <1>3

LEMMA TypeWorker ==
  ASSUME TypeOK, NEW x \in Workers, WorkerStep(x)
  PROVE  TypeOK'
<1>1. Fresh("Absent") \in Status
  BY FreshType DEF Phase
<1>2. x[2] \in WorkerIds
  BY DEF Workers
<1>3. CountFlush(workerCopy[x], x[2]) \in Status
  BY <1>2, CountFlushType DEF TypeOK
<1>4. CASE Flush(x)
  <2>1. PICK t \in TopicsOf(x[2]) :
          /\ store' = store \cup {<<t, segment[x][t]>>}
          /\ segment' = [segment EXCEPT ![x][t] = NextSegment(@)]
    BY <1>4 DEF Flush
  <2>2. t \in Topics /\ segment[x] \in [Topics -> Nat] /\ segment[x][t] \in Nat
    BY DEF TopicsOf, TypeOK
  <2>3. segment' \in [Workers -> [Topics -> Nat]]
    BY <2>1, <2>2 DEF NextSegment, TypeOK
  <2>4. store' \subseteq Topics \X Nat
    BY <2>1, <2>2 DEF TypeOK
  <2> QED
    BY <1>4, <2>3, <2>4 DEF Flush, WorkerGoto, TypeOK, WorkerLocation, clientVars
<1>5. CASE WorkerDone(x)
  BY <1>5 DEF WorkerDone, WorkerGoto, TypeOK, WorkerLocation, clientVars, storeVars
<1>6. CASE WorkerRead(x)
  BY <1>6 DEF WorkerRead, WorkerGoto, TypeOK, WorkerLocation, clientVars, storeVars
<1>7. CASE WorkerUpdate(x)
  BY <1>1, <1>3, <1>7
  DEF WorkerUpdate, WriteState, WorkerGoto, TypeOK, WorkerLocation, clientVars, storeVars
<1> QED
  BY <1>4, <1>5, <1>6, <1>7 DEF WorkerStep

LEMMA TypeProcess ==
  ASSUME TypeOK, NEW c \in Clients, Crash(c) \/ Restart(c)
  PROVE  TypeOK'
<1>1. Fresh("Absent") \in Status
  BY FreshType DEF Phase
<1>2. CASE Crash(c)
  <2>1. /\ workerPc' \in [Workers -> WorkerLocation]
        /\ workerCopy' \in [Workers -> Status]
    BY <1>1, <1>2 DEF Crash, Kill, TypeOK, WorkerLocation
  <2> QED
    BY <1>1, <1>2, <2>1 DEF Crash, Goto, TypeOK, ClientLocation, storeVars
<1>3. CASE Restart(c)
  BY <1>3 DEF Restart, Goto, TypeOK, ClientLocation, workerVars, storeVars
<1> QED
  BY <1>2, <1>3

LEMMA TypeStep == TypeOK /\ [Next]_vars => TypeOK'
<1> SUFFICES ASSUME TypeOK, [Next]_vars PROVE TypeOK'
  OBVIOUS
<1>1. ASSUME NEW c \in Clients, ClientStep(c) PROVE TypeOK'
  BY <1>1, TypeClientReads, TypeClientWrites, TypeStartUpdate, TypeProcess
  DEF ClientStep
<1>2. ASSUME NEW x \in Workers, WorkerStep(x) PROVE TypeOK'
  BY <1>2, TypeWorker
<1>3. CASE UNCHANGED vars
  BY <1>3 DEF vars, clientVars, workerVars, storeVars, TypeOK
<1> QED
  BY <1>1, <1>2, <1>3 DEF Next, Waiting

(* Every variable of the service, its clients and its workers keeps its     *)
(* type; in particular, whichever status is written back has a slot for the *)
(* worker that indexes it (Worker.updateWorkerStatus).                      *)
THEOREM TypeCorrect == Spec => []TypeOK
<1> QED
  BY TypeInit, TypeStep, PTL DEF Spec

-----------------------------------------------------------------------------
(* The workers that have put a message which they will still count, if at   *)
(* all: at most one each.                                                   *)
Pending == {x \in Workers : workerPc[x] \in {"read", "update"}}

(* What a status may claim: it never decreases, although updates get lost.  *)
Countable == puts - Cardinality(Pending)

(* CountersNeverOverstate is not inductive: every status that somebody has  *)
(* read and may write back has to be covered, and a worker that is about to *)
(* add its flush must find room for it.                                     *)
CountInv ==
  /\ status.processed <= Countable
  /\ \A c \in Clients : copy[c].processed <= Countable
  /\ \A x \in Workers : workerCopy[x].processed <= Countable

LEMMA WorkersFinite ==
  \A S \in SUBSET Workers : IsFiniteSet(S) /\ Cardinality(S) \in Nat
<1>1. IsFiniteSet(Coordinators) /\ IsFiniteSet(WorkerIds)
  BY FS_Interval, ServiceAssumption DEF Coordinators, WorkerIds
<1>2. IsFiniteSet(Workers)
  BY <1>1, FS_Product DEF Workers
<1> QED
  BY <1>2, FS_Subset, FS_CardinalityType

LEMMA PendingFinite == IsFiniteSet(Pending) /\ Cardinality(Pending) \in Nat
BY WorkersFinite DEF Pending

LEMMA CountableIsInt ==
  /\ TypeOK => Countable \in Int
  /\ TypeOK' => Countable' \in Int
BY WorkersFinite DEF TypeOK, Countable, Pending

(* Fewer pending flushes, and no more puts.                                *)
LEMMA PendingShrinks ==
  ASSUME TypeOK, puts' = puts, Pending' \subseteq Pending
  PROVE  Countable <= Countable' /\ Countable' \in Int
<1>1. IsFiniteSet(Pending) /\ Cardinality(Pending) \in Nat
  BY PendingFinite
<1>2. Cardinality(Pending') \in Nat /\ Cardinality(Pending') <= Cardinality(Pending)
  BY <1>1, FS_Subset, FS_CardinalityType
<1> QED
  BY <1>1, <1>2 DEF Countable, TypeOK

(* A worker that is done with its flush makes room for one.                *)
LEMMA PendingLess ==
  ASSUME TypeOK, puts' = puts, NEW x \in Pending, Pending' = Pending \ {x}
  PROVE  Countable' = Countable + 1
<1>1. IsFiniteSet(Pending) /\ Cardinality(Pending) \in Nat
  BY PendingFinite
<1>2. Cardinality(Pending') = Cardinality(Pending) - 1
  BY <1>1, FS_RemoveElement
<1> QED
  BY <1>1, <1>2 DEF Countable, TypeOK

LEMMA PendingMore ==
  ASSUME TypeOK, puts' = puts + 1, NEW x, x \notin Pending,
         Pending' = Pending \cup {x}
  PROVE  Countable' = Countable
<1>1. IsFiniteSet(Pending) /\ Cardinality(Pending) \in Nat
  BY PendingFinite
<1>2. Cardinality(Pending') = Cardinality(Pending) + 1
  BY <1>1, FS_AddElement
<1> QED
  BY <1>1, <1>2 DEF Countable, TypeOK

(* The counts that are about: in the repository, or read from it. *)
Known ==
  {0, status.processed} \cup {copy[c].processed : c \in Clients}
                        \cup {workerCopy[x].processed : x \in Workers}

(* The step counts nothing: every status after it has a count from before. *)
NothingCounted ==
  /\ status'.processed \in Known
  /\ \A c \in Clients : copy'[c].processed \in Known
  /\ \A x \in Workers : workerCopy'[x].processed \in Known

LEMMA CountKept ==
  ASSUME TypeOK, TypeOK', CountInv, NothingCounted, Countable <= Countable'
  PROVE  CountInv'
<1>1. Countable \in Int /\ Countable' \in Int
  BY CountableIsInt
<1>2. 0 <= status.processed /\ status.processed \in Nat
  BY DEF TypeOK, Status
<1>3. ASSUME NEW n \in Known PROVE n \in Nat /\ n <= Countable
  <2>1. \A c \in Clients : copy[c].processed \in Nat
    BY DEF TypeOK, Status
  <2>2. \A x \in Workers : workerCopy[x].processed \in Nat
    BY DEF TypeOK, Status
  <2> QED
    BY <1>1, <1>2, <2>1, <2>2 DEF Known, CountInv
<1>4. ASSUME NEW n \in Known PROVE n <= Countable'
  BY <1>1, <1>3
<1> QED
  BY <1>4 DEF CountInv, NothingCounted

LEMMA FreshCount == \A phase : Fresh(phase).processed = 0
BY DEF Fresh

(* A client that changes no worker. *)
LEMMA ClientCounts ==
  ASSUME TypeOK, NEW c \in Clients, UNCHANGED workerVars,
         \/ status' \in {status, copy[c], Fresh("Absent"), Fresh("Pending"),
                         [copy[c] EXCEPT !.phase = "Suspended"]},
         copy' \in {copy, [copy EXCEPT ![c] = status],
                   [copy EXCEPT ![c] = Fresh("Absent")]}
  PROVE  NothingCounted /\ Countable <= Countable'
<1>1. status'.processed \in Known
  BY FreshCount DEF Known, TypeOK, Status
<1>2. ASSUME NEW d \in Clients PROVE copy'[d].processed \in Known
  BY FreshCount DEF Known, TypeOK
<1>3. workerCopy' = workerCopy /\ puts' = puts /\ Pending' = Pending
  BY DEF workerVars, storeVars, Pending
<1> QED
  BY <1>1, <1>2, <1>3, PendingShrinks DEF NothingCounted, Known

LEMMA CountStartUpdate ==
  ASSUME TypeOK, NEW c \in Clients, StartUpdate(c)
  PROVE  NothingCounted /\ Countable <= Countable'
<1>1. copy' = [copy EXCEPT ![c] = Fresh("Absent")]
  BY DEF StartUpdate, Return, Fail
<1>2. CASE UNCHANGED <<status, workerVars>>
  BY <1>1, <1>2, ClientCounts
<1>3. CASE WriteState(StartedStatus(copy[c])) /\ SpawnCoordinator(c)
  <2>1. status'.processed = copy[c].processed
    BY <1>3 DEF WriteState, StartedStatus, TypeOK, Status
  <2>2. ASSUME NEW d \in Clients PROVE copy'[d].processed \in Known
    BY <1>1, FreshCount DEF Known, TypeOK
  <2>3. workerCopy' = workerCopy /\ puts' = puts
    BY <1>3 DEF SpawnCoordinator
  <2>4. Pending' \subseteq Pending
    BY <1>3 DEF SpawnCoordinator, Pending, TypeOK
  <2> QED
    BY <2>1, <2>2, <2>3, <2>4, PendingShrinks DEF NothingCounted, Known
<1> QED
  BY <1>2, <1>3 DEF StartUpdate

LEMMA CountCrash ==
  ASSUME TypeOK, NEW c \in Clients, Crash(c)
  PROVE  NothingCounted /\ Countable <= Countable'
<1>1. /\ copy' = [copy EXCEPT ![c] = Fresh("Absent")]
      /\ status' = status
      /\ puts' = puts
  BY DEF Crash, storeVars
<1>2. ASSUME NEW d \in Clients PROVE copy'[d].processed \in Known
  BY <1>1, FreshCount DEF Known, TypeOK
<1>3. ASSUME NEW x \in Workers PROVE workerCopy'[x].processed \in Known
  BY FreshCount DEF Crash, Kill, Known, TypeOK
<1>4. Pending' \subseteq Pending
  BY DEF Crash, Kill, Pending, TypeOK
<1> QED
  BY <1>1, <1>2, <1>3, <1>4, PendingShrinks DEF NothingCounted, Known

LEMMA CountClient ==
  ASSUME TypeOK, NEW c \in Clients, ClientStep(c)
  PROVE  NothingCounted /\ Countable <= Countable'
<1>1. CASE StartUpdate(c) \/ Crash(c)
  BY <1>1, CountStartUpdate, CountCrash
<1>2. CASE ~StartUpdate(c) /\ ~Crash(c)
  <2>1. UNCHANGED workerVars
    BY <1>2 DEF ClientStep, Call, CreateBackup, StartBackup, DiscoverTopics,
                StopBackup, StopUpdate, DeleteBackup, DeleteStop,
                DeleteStopUpdate, DeleteState, GetBackupStatus,
                UpdateBackupStatus, Restart
  <2>2. /\ status' \in {status, copy[c], Fresh("Absent"), Fresh("Pending"),
                        [copy[c] EXCEPT !.phase = "Suspended"]}
        /\ copy' \in {copy, [copy EXCEPT ![c] = status],
                      [copy EXCEPT ![c] = Fresh("Absent")]}
    <3>1. CASE Call(c) \/ CreateBackup(c) \/ StartBackup(c) \/ DiscoverTopics(c)
      BY <3>1 DEF Call, CreateBackup, StartBackup, DiscoverTopics, NotRetrieved,
                  Retrieved, Fail
    <3>2. CASE StopBackup(c) \/ StopUpdate(c)
      BY <3>2 DEF StopBackup, StopUpdate, NotRetrieved, Retrieved, Fail, Return,
                  WriteState
    <3>3. CASE \/ DeleteBackup(c) \/ DeleteStop(c) \/ DeleteStopUpdate(c)
               \/ DeleteState(c)
      BY <3>3 DEF DeleteBackup, DeleteStop, DeleteStopUpdate, DeleteState,
                  NotRetrieved, Retrieved, Fail, Return, WriteState
    <3>4. CASE GetBackupStatus(c) \/ UpdateBackupStatus(c) \/ Restart(c)
      BY <3>4 DEF GetBackupStatus, UpdateBackupStatus, Restart, NotRetrieved,
                  Retrieved, Fail, Return, WriteState
    <3> QED
      BY <1>2, <3>1, <3>2, <3>3, <3>4 DEF ClientStep
  <2> QED
    BY <2>1, <2>2, ClientCounts
<1> QED
  BY <1>1, <1>2

(* A worker but for its update: it counts nothing.                         *)
LEMMA CountWorkerMoves ==
  ASSUME TypeOK, NEW x \in Workers, Flush(x) \/ WorkerDone(x) \/ WorkerRead(x)
  PROVE  NothingCounted /\ Countable <= Countable'
<1>1. status' = status /\ copy' = copy
  BY DEF Flush, WorkerDone, WorkerRead, clientVars
<1>2. ASSUME NEW y \in Workers PROVE workerCopy'[y].processed \in Known
  BY DEF Flush, WorkerDone, WorkerRead, Known, TypeOK
<1>3. NothingCounted
  BY <1>1, <1>2 DEF NothingCounted, Known
<1>4. CASE Flush(x)
  <2>1. x \notin Pending /\ Pending' = Pending \cup {x} /\ puts' = puts + 1
    BY <1>4 DEF Flush, WorkerGoto, Pending, TypeOK
  <2> QED
    BY <1>3, <2>1, PendingMore, CountableIsInt
<1>5. CASE WorkerDone(x) \/ WorkerRead(x)
  <2>1. Pending' \subseteq Pending /\ puts' = puts
    BY <1>5 DEF WorkerDone, WorkerRead, WorkerGoto, Pending, TypeOK, storeVars
  <2> QED
    BY <1>3, <2>1, PendingShrinks
<1> QED
  BY <1>4, <1>5

(* The update writes one flush more than the worker has read, and the      *)
(* worker is pending no longer.                                            *)
LEMMA CountUpdate ==
  ASSUME TypeOK, TypeOK', CountInv, NEW x \in Workers, WorkerUpdate(x)
  PROVE  CountInv'
<1>1. x \in Pending /\ Pending' = Pending \ {x} /\ puts' = puts
  BY DEF WorkerUpdate, WorkerGoto, Pending, TypeOK, storeVars
<1>2. Countable' = Countable + 1 /\ Countable \in Int
  BY <1>1, PendingLess, CountableIsInt
<1>3. /\ status.processed \in Nat /\ status.processed <= Countable
      /\ workerCopy[x].processed \in Nat /\ workerCopy[x].processed <= Countable
  BY DEF TypeOK, Status, CountInv
<1>4. CountFlush(workerCopy[x], x[2]).processed = workerCopy[x].processed + 1
  BY DEF CountFlush, TypeOK, Status
<1>5. status'.processed \in {status.processed, workerCopy[x].processed + 1}
  BY <1>4 DEF WorkerUpdate, WriteState
<1>6. status'.processed <= Countable'
  BY <1>2, <1>3, <1>5
<1>7. ASSUME NEW c \in Clients PROVE copy'[c].processed <= Countable'
  <2>1. copy[c].processed \in Nat /\ copy[c].processed <= Countable
    BY DEF TypeOK, Status, CountInv
  <2> QED
    BY <1>2, <2>1 DEF WorkerUpdate, clientVars
<1>8. ASSUME NEW y \in Workers PROVE workerCopy'[y].processed <= Countable'
  <2>1. workerCopy[y].processed \in Nat /\ workerCopy[y].processed <= Countable
    BY DEF TypeOK, Status, CountInv
  <2>2. workerCopy'[y].processed \in {0, workerCopy[y].processed}
    BY FreshCount DEF WorkerUpdate, TypeOK
  <2> QED
    BY <1>2, <1>3, <2>1, <2>2
<1> QED
  BY <1>6, <1>7, <1>8 DEF CountInv

LEMMA CountStep ==
  TypeOK /\ TypeOK' /\ CountInv /\ [Next]_vars => CountInv'
<1> SUFFICES ASSUME TypeOK, TypeOK', CountInv, [Next]_vars PROVE CountInv'
  OBVIOUS
<1>1. ASSUME NEW c \in Clients, ClientStep(c) PROVE CountInv'
  BY <1>1, CountClient, CountKept
<1>2. ASSUME NEW x \in Workers, WorkerStep(x) PROVE CountInv'
  <2>1. CASE Flush(x) \/ WorkerDone(x) \/ WorkerRead(x)
    BY <2>1, CountWorkerMoves, CountKept
  <2>2. CASE WorkerUpdate(x)
    BY <2>2, CountUpdate
  <2> QED
    BY <1>2, <2>1, <2>2 DEF WorkerStep
<1>3. CASE UNCHANGED vars
  BY <1>3 DEF vars, clientVars, workerVars, storeVars, CountInv, Countable, Pending
<1> QED
  BY <1>1, <1>2, <1>3 DEF Next, Waiting

LEMMA CountInit == Init => CountInv
<1> SUFFICES ASSUME Init PROVE CountInv
  OBVIOUS
<1>1. Pending = {}
  BY DEF Init, Pending
<1>2. Countable = 0
  BY <1>1, FS_EmptySet DEF Init, Countable
<1> QED
  BY <1>2, FreshCount DEF Init, CountInv

(* MessagesProcessed never counts a put that did not happen, nor one twice: *)
(* not for any number of clients that stop, restart, delete and overwrite   *)
(* the status of service.go with what they read before, nor for any number  *)
(* of workers that were left behind.                                        *)
THEOREM CountersAreHonest == Spec => []CountersNeverOverstate
<1>1. TypeOK /\ CountInv => CountersNeverOverstate
  <2> SUFFICES ASSUME TypeOK, CountInv PROVE CountersNeverOverstate
    OBVIOUS
  <2>1. Cardinality(Pending) \in Nat
    BY PendingFinite
  <2> QED
    BY <2>1 DEF CountersNeverOverstate, CountInv, Countable, TypeOK, Status
<1>2. Spec => [](TypeOK /\ CountInv)
  BY TypeInit, TypeStep, CountInit, CountStep, PTL DEF Spec
<1> QED
  BY <1>1, <1>2, PTL

-----------------------------------------------------------------------------
(* One start: the number of puts is the number of segments in the store *)

(* The workers of a coordinator that does not exist yet are off. *)
OffInv ==
  \A x \in Workers : owner[x[1]] = Nobody => workerPc[x] = "off"

(* All that is in the store has been put by the workers of k: each segment  *)
(* once, and below the number at which its topic goes on.                   *)
PutBy(k) ==
  /\ IsFiniteSet(store)
  /\ puts = Cardinality(store)
  /\ \A i \in WorkerIds : \A t \in TopicsOf(i), n \in Nat :
       <<t, n>> \in store => n < segment[<<k, i>>][t]

StoreInv ==
  /\ OffInv
  /\ Started = {} => store = {} /\ puts = 0
  /\ \A k \in Coordinators : Started \subseteq {k} => PutBy(k)

LEMMA StoreInit == Init => StoreInv
<1> SUFFICES ASSUME Init PROVE StoreInv
  OBVIOUS
<1>1. OffInv
  BY DEF Init, OffInv
<1>2. ASSUME NEW k \in Coordinators PROVE PutBy(k)
  BY FS_EmptySet DEF Init, PutBy
<1> QED
  BY <1>1, <1>2 DEF StoreInv, Init

(* Neither the store nor the coordinators change. *)
LEMMA StoreKept ==
  ASSUME TypeOK, StoreInv, UNCHANGED <<owner, storeVars>>,
         \A x \in Workers : workerPc[x] = "off" => workerPc'[x] = "off"
  PROVE  StoreInv'
<1>1. OffInv'
  BY DEF StoreInv, OffInv
<1>2. Started' = Started
  BY DEF Started
<1>3. ASSUME NEW k \in Coordinators, PutBy(k) PROVE PutBy(k)'
  BY <1>3 DEF PutBy, storeVars
<1> QED
  BY <1>1, <1>2, <1>3 DEF StoreInv, storeVars

(* The first start finds an empty store, the second makes Started too large *)
(* for the invariant to say anything.                                       *)
LEMMA StoreSpawn ==
  ASSUME TypeOK, StoreInv, NEW c \in Clients, SpawnCoordinator(c)
  PROVE  StoreInv'
<1>1. PICK k \in FreeCoordinators :
        /\ owner' = [owner EXCEPT ![k] = c]
        /\ workerPc' = [x \in Workers |->
             IF x[1] = k /\ TopicsOf(x[2]) # {} THEN "flush" ELSE workerPc[x]]
        /\ UNCHANGED <<store, puts>>
  BY DEF SpawnCoordinator
<1>2. k \in Coordinators /\ owner[k] = Nobody /\ c # Nobody
  BY <1>1, ServiceAssumption DEF FreeCoordinators
<1>3. Started' = Started \cup {k} /\ k \notin Started
  BY <1>1, <1>2 DEF Started, TypeOK
<1>4. OffInv'
  <2> SUFFICES ASSUME NEW x \in Workers, owner'[x[1]] = Nobody
               PROVE  workerPc'[x] = "off"
    BY DEF OffInv
  <2>1. x[1] \in Coordinators
    BY DEF Workers
  <2>2. x[1] # k /\ owner[x[1]] = Nobody
    BY <1>1, <1>2, <2>1 DEF TypeOK
  <2> QED
    BY <1>1, <2>2 DEF StoreInv, OffInv
<1>5. ASSUME NEW l \in Coordinators, Started' \subseteq {l} PROVE PutBy(l)'
  <2>1. Started = {}
    BY <1>3, <1>5
  <2>2. store' = {} /\ puts' = 0
    BY <1>1, <2>1 DEF StoreInv
  <2> QED
    BY <2>2, FS_EmptySet DEF PutBy
<1> QED
  BY <1>3, <1>4, <1>5 DEF StoreInv

(* No two workers of a coordinator have a topic in common. *)
LEMMA TopicHasOneWorker ==
  ASSUME NEW i \in WorkerIds, NEW j \in WorkerIds, NEW t \in TopicsOf(i),
         t \in TopicsOf(j)
  PROVE  i = j
BY DEF TopicsOf

LEMMA StoreFlush ==
  ASSUME TypeOK, StoreInv, NEW x \in Workers, Flush(x)
  PROVE  StoreInv'
<1>1. PICK t \in TopicsOf(x[2]) :
        /\ store' = store \cup {<<t, segment[x][t]>>}
        /\ segment' = [segment EXCEPT ![x][t] = segment[x][t] + 1]
  BY DEF Flush, NextSegment
<1>2. /\ x[1] \in Coordinators /\ x[2] \in WorkerIds /\ x = <<x[1], x[2]>>
      /\ t \in Topics
  BY DEF Workers, TopicsOf
<1>3. /\ owner' = owner /\ puts' = puts + 1
      /\ workerPc[x] = "flush" /\ workerPc' = [workerPc EXCEPT ![x] = "read"]
  BY DEF Flush, WorkerGoto
<1>4. OffInv'
  BY <1>3 DEF StoreInv, OffInv, TypeOK
<1>5. x[1] \in Started /\ Started' = Started
  BY <1>2, <1>3 DEF StoreInv, OffInv, Started
<1>6. ASSUME NEW k \in Coordinators, Started \subseteq {k} PROVE PutBy(k)'
  <2>1. k = x[1] /\ PutBy(k)
    BY <1>5, <1>6 DEF StoreInv
  <2> DEFINE s == segment[x][t]
  <2>2. s \in Nat /\ segment[x] \in [Topics -> Nat]
    BY <1>2 DEF TypeOK
  <2>3. <<t, s>> \notin store
    BY <1>2, <2>1, <2>2 DEF PutBy
  <2>4. IsFiniteSet(store') /\ puts' = Cardinality(store')
    <3>1. IsFiniteSet(store) /\ puts = Cardinality(store)
      BY <2>1 DEF PutBy
    <3> QED
      BY <1>1, <1>3, <2>3, <3>1, FS_AddElement
  <2>5. ASSUME NEW i \in WorkerIds, NEW u \in TopicsOf(i), NEW n \in Nat,
               <<u, n>> \in store'
        PROVE  n < segment'[<<k, i>>][u]
    <3>1. /\ <<k, i>> \in Workers /\ u \in Topics
          /\ segment[<<k, i>>] \in [Topics -> Nat]
          /\ segment[<<k, i>>][u] \in Nat
      BY DEF Workers, TopicsOf, TypeOK
    <3>2. CASE u = t
      <4>1. <<k, i>> = x
        BY <1>2, <2>1, <3>2, TopicHasOneWorker
      <4>2. segment'[<<k, i>>][u] = s + 1
        BY <1>1, <1>2, <2>2, <3>2, <4>1 DEF TypeOK
      <4>3. CASE <<u, n>> \in store
        <5>1. n < s
          BY <2>1, <3>2, <4>1, <4>3 DEF PutBy
        <5> QED
          BY <2>2, <4>2, <5>1
      <4>4. CASE n = s
        BY <2>2, <4>2, <4>4
      <4> QED
        BY <1>1, <2>5, <4>3, <4>4
    <3>3. CASE u # t
      <4>1. <<u, n>> \in store
        BY <1>1, <2>5, <3>3
      <4>2. n < segment[<<k, i>>][u]
        BY <2>1, <4>1 DEF PutBy
      <4>3. segment'[<<k, i>>][u] = segment[<<k, i>>][u]
        BY <1>1, <1>2, <2>2, <3>1, <3>3 DEF TypeOK
      <4> QED
        BY <4>2, <4>3
    <3> QED
      BY <3>2, <3>3
  <2> QED
    BY <2>4, <2>5 DEF PutBy
<1> QED
  BY <1>4, <1>5, <1>6 DEF StoreInv

LEMMA StoreStep == TypeOK /\ StoreInv /\ [Next]_vars => StoreInv'
<1> SUFFICES ASSUME TypeOK, StoreInv, [Next]_vars PROVE StoreInv'
  OBVIOUS
<1>1. ASSUME NEW c \in Clients, ClientStep(c) PROVE StoreInv'
  <2>1. CASE StartUpdate(c)
    <3>1. CASE UNCHANGED workerVars
      BY <3>1, StoreKept DEF workerVars
    <3>2. CASE SpawnCoordinator(c)
      BY <3>2, StoreSpawn
    <3> QED
      BY <2>1, <3>1, <3>2 DEF StartUpdate
  <2>2. CASE Crash(c)
    <3>1. \A x \in Workers : workerPc[x] = "off" => workerPc'[x] = "off"
      BY <2>2 DEF Crash, Kill, Active
    <3> QED
      BY <2>2, <3>1, StoreKept DEF Crash
  <2>3. CASE ~StartUpdate(c) /\ ~Crash(c)
    <3>1. UNCHANGED workerVars
      BY <1>1, <2>3 DEF ClientStep, Call, CreateBackup, StartBackup, DiscoverTopics,
                  StopBackup, StopUpdate, DeleteBackup, DeleteStop,
                  DeleteStopUpdate, DeleteState, GetBackupStatus,
                  UpdateBackupStatus, Restart
    <3> QED
      BY <3>1, StoreKept DEF workerVars
  <2> QED
    BY <2>1, <2>2, <2>3
<1>2. ASSUME NEW x \in Workers, WorkerStep(x) PROVE StoreInv'
  <2>1. CASE Flush(x)
    BY <2>1, StoreFlush
  <2>2. CASE WorkerDone(x) \/ WorkerRead(x) \/ WorkerUpdate(x)
    <3>1. UNCHANGED <<owner, storeVars>>
      BY <2>2 DEF WorkerDone, WorkerRead, WorkerUpdate
    <3>2. \A y \in Workers : workerPc[y] = "off" => workerPc'[y] = "off"
      BY <2>2 DEF WorkerDone, WorkerRead, WorkerUpdate, WorkerGoto, TypeOK
    <3> QED
      BY <3>1, <3>2, StoreKept
  <2> QED
    BY <1>2, <2>1, <2>2 DEF WorkerStep
<1>3. CASE UNCHANGED vars
  BY <1>3, StoreKept DEF vars, workerVars
<1> QED
  BY <1>1, <1>2, <1>3 DEF Next, Waiting

LEMMA OneStart ==
  ASSUME Cardinality(Started) <= 1
  PROVE  Started = {} \/ \E k \in Coordinators : Started \subseteq {k}
<1>1. IsFiniteSet(Coordinators)
  BY FS_Interval, ServiceAssumption DEF Coordinators
<1>2. IsFiniteSet(Started) /\ Cardinality(Started) \in Nat
  BY <1>1, FS_Subset, FS_CardinalityType DEF Started
<1>3. CASE Cardinality(Started) = 0
  BY <1>2, <1>3, FS_EmptySet
<1>4. CASE Cardinality(Started) = 1
  <2>1. PICK k : Started = {k}
    BY <1>2, <1>4, FS_Singleton
  <2> QED
    BY <2>1 DEF Started
<1> QED
  BY <1>2, <1>3, <1>4

(* As long as StartBackup has succeeded once, MessagesProcessed claims no   *)
(* message that is not in the store, whatever the clients call before and   *)
(* after it and whichever status is written back: every put has been given  *)
(* a key of its own.  The hypothesis is needed: service_restart.cfg.        *)
THEOREM OneStartCounts == Spec => []OneStartCountsTheStore
<1>1. TypeOK /\ CountInv /\ StoreInv => OneStartCountsTheStore
  <2> SUFFICES ASSUME TypeOK, CountInv, StoreInv, Cardinality(Started) <= 1
               PROVE  status.processed <= Cardinality(store)
    BY DEF OneStartCountsTheStore, CountsTheStore
  <2>1. puts = Cardinality(store)
    BY OneStart, FS_EmptySet DEF StoreInv, PutBy
  <2>2. Cardinality(Pending) \in Nat
    BY PendingFinite
  <2> QED
    BY <2>1, <2>2 DEF CountInv, Countable, TypeOK, Status
<1>2. Spec => [](TypeOK /\ CountInv /\ StoreInv)
  BY TypeInit, TypeStep, CountInit, CountStep, StoreInit, StoreStep, PTL DEF Spec
<1> QED
  BY <1>1, <1>2, PTL

-----------------------------------------------------------------------------
(* Sums over finite sets.  MapThenSumSet is a fold, a function defined by   *)
(* recursion over the subsets of a set; what it computes is proved by       *)
(* induction over them.                                                     *)

(* Induction over the subsets of a finite set, stated with a set in the    *)
(* place of a predicate.                                                   *)
LEMMA SubsetInduction ==
  ASSUME NEW S, IsFiniteSet(S), NEW T,
         \A s \in SUBSET S : (\A t \in SUBSET s : t # s => t \in T) => s \in T
  PROVE  SUBSET S \subseteq T
<1> DEFINE B == (SUBSET S) \ T
<1> SUFFICES ASSUME B # {} PROVE FALSE
  OBVIOUS
<1>1. IsWellFoundedOn(StrictSubsetOrdering(S), SUBSET S)
  <2>1. FiniteSubsetsOf(S) = SUBSET S
    BY FS_FiniteSubsetsOfFinite, Zenon
  <2>2. IsWellFoundedOn(StrictSubsetOrdering(S), FiniteSubsetsOf(S))
    BY FS_StrictSubsetOrderingWellFounded, Zenon
  <2> QED
    BY <2>1, <2>2, Zenon
<1>2. PICK x \in B : \A y \in B : <<y, x>> \notin StrictSubsetOrdering(S)
  <2>1. B \subseteq SUBSET S
    OBVIOUS
  <2> HIDE DEF B
  <2> QED
    BY <1>1, <2>1, WFMin
<1>3. \A y \in SUBSET x : y # x => y \in T
  BY <1>2 DEF StrictSubsetOrdering
<1> QED
  BY <1>2, <1>3

(* The element MapThenSumSet takes out of a set first. *)
FirstOf(s) == CHOOSE x \in s : TRUE

(* One unfolding of the sum of f over t, if g is the sum over smaller sets. *)
SumStep(f, g, t) == IF t = {} THEN 0 ELSE f[FirstOf(t)] + g[t \ {FirstOf(t)}]

IsSum(f, g, S) == g = [t \in SUBSET S |-> SumStep(f, g, t)]

Sums(f, S) == CHOOSE g : IsSum(f, g, S)

LEMMA FirstOfIn == ASSUME NEW s, s # {} PROVE FirstOf(s) \in s
BY DEF FirstOf

LEMMA SumIsSums ==
  ASSUME NEW f, NEW S
  PROVE  MapThenSumSet(LAMBDA i : f[i], S) = Sums(f, S)[S]
BY Zenon DEF MapThenSumSet, MapThenFoldSet, Sums, IsSum, SumStep, FirstOf

(* Sums over two sets agree on what both of them contain. *)
LEMMA SumsAgree ==
  ASSUME NEW S, IsFiniteSet(S), NEW f, NEW u \in SUBSET S, NEW v \in SUBSET S,
         NEW g, IsSum(f, g, u), NEW h, IsSum(f, h, v),
         NEW w, w \subseteq u, w \subseteq v
  PROVE  g[w] = h[w]
<1> DEFINE T == {t \in SUBSET S : t \subseteq u /\ t \subseteq v => g[t] = h[t]}
<1>1. ASSUME NEW t \in SUBSET S, \A r \in SUBSET t : r # t => r \in T
      PROVE  t \in T
  <2> SUFFICES ASSUME t \subseteq u, t \subseteq v PROVE g[t] = h[t]
    OBVIOUS
  <2>1. g[t] = SumStep(f, g, t) /\ h[t] = SumStep(f, h, t)
    <3>1. t \in SUBSET u /\ t \in SUBSET v
      OBVIOUS
    <3>2. g[t] = SumStep(f, g, t)
      BY <3>1, Zenon DEF IsSum
    <3>3. h[t] = SumStep(f, h, t)
      BY <3>1, Zenon DEF IsSum
    <3> QED
      BY <3>2, <3>3
  <2>2. CASE t = {}
    BY <2>1, <2>2 DEF SumStep
  <2>3. CASE t # {}
    <3>1. t \ {FirstOf(t)} \in SUBSET t /\ t \ {FirstOf(t)} # t
      BY <2>3, FirstOfIn
    <3>2. g[t \ {FirstOf(t)}] = h[t \ {FirstOf(t)}]
      BY <1>1, <3>1
    <3> QED
      BY <2>1, <3>2 DEF SumStep
  <2> QED
    BY <2>2, <2>3
<1> HIDE DEF T
<1>2. w \in T
  BY <1>1, SubsetInduction
<1> QED
  BY <1>2 DEF T

(* The recursion has a solution: that over a set is made of those over its *)
(* proper subsets.                                                         *)
LEMMA SumsExist ==
  ASSUME NEW S, IsFiniteSet(S), NEW f
  PROVE  IsSum(f, Sums(f, S), S)
<1> DEFINE T == {u \in SUBSET S : \E g : IsSum(f, g, u)}
<1>1. ASSUME NEW u \in SUBSET S, \A w \in SUBSET u : w # u => w \in T
      PROVE  \E g : IsSum(f, g, u)
  <2> DEFINE H(w) == CHOOSE g : IsSum(f, g, w)
             g == [t \in SUBSET u |->
                     IF t = {} THEN 0 ELSE f[FirstOf(t)] + H(t \ {FirstOf(t)})[t \ {FirstOf(t)}]]
  <2>1. ASSUME NEW w \in SUBSET u, w # u PROVE IsSum(f, H(w), w)
    <3>1. \E h : IsSum(f, h, w)
      BY <1>1, <2>1
    <3> QED
      BY <3>1, Zenon
  <2>2. ASSUME NEW w \in SUBSET u, w # u PROVE g[w] = H(w)[w]
    <3>1. H(w)[w] = SumStep(f, H(w), w)
      <4>1. w \in SUBSET w
        OBVIOUS
      <4> HIDE DEF H
      <4> QED
        BY <2>1, <2>2, <4>1, Zenon DEF IsSum
    <3>2. CASE w = {}
      BY <3>1, <3>2 DEF SumStep
    <3>3. CASE w # {}
      <4> DEFINE v == w \ {FirstOf(w)}
      <4>1. v \in SUBSET u /\ v # u /\ v \subseteq w /\ w \in SUBSET S /\ v \in SUBSET S
        BY <2>2, <3>3, FirstOfIn
      <4>2. IsSum(f, H(w), w) /\ IsSum(f, H(v), v)
        BY <2>1, <2>2, <4>1
      <4> HIDE DEF H, v
      <4>3. H(w)[v] = H(v)[v]
        BY <4>1, <4>2, SumsAgree
      <4>4. g[w] = f[FirstOf(w)] + H(v)[v]
        BY <2>2, <3>3 DEF v
      <4> QED
        BY <3>1, <3>3, <4>3, <4>4 DEF SumStep, v
    <3> QED
      BY <3>2, <3>3
  <2>3. ASSUME NEW t \in SUBSET u PROVE g[t] = SumStep(f, g, t)
    <3>1. CASE t = {}
      BY <3>1 DEF SumStep
    <3>2. CASE t # {}
      <4> DEFINE v == t \ {FirstOf(t)}
      <4>1. v \in SUBSET u /\ v # u
        BY <3>2, FirstOfIn
      <4>2. g[t] = f[FirstOf(t)] + H(v)[v]
        BY <3>2
      <4>3. g[v] = H(v)[v]
        BY <2>2, <4>1
      <4> HIDE DEF g, H
      <4> QED
        BY <3>2, <4>2, <4>3 DEF SumStep
    <3> QED
      BY <3>1, <3>2
  <2>4. g = [t \in SUBSET u |-> g[t]]
    OBVIOUS
  <2> HIDE DEF g
  <2>5. [t \in SUBSET u |-> g[t]] = [t \in SUBSET u |-> SumStep(f, g, t)]
    BY <2>3
  <2>6. IsSum(f, g, u)
    BY <2>4, <2>5 DEF IsSum
  <2> QED
    BY <2>6
<1>2. S \in T
  <2> HIDE DEF T
  <2>1. ASSUME NEW u \in SUBSET S, \A w \in SUBSET u : w # u => w \in T
        PROVE  u \in T
    BY <1>1, <2>1 DEF T
  <2> QED
    BY <2>1, SubsetInduction
<1>3. \E g : IsSum(f, g, S)
  BY <1>2
<1> QED
  BY <1>3, Zenon DEF Sums

LEMMA SumsDef ==
  ASSUME NEW S, IsFiniteSet(S), NEW f, NEW t \in SUBSET S
  PROVE  Sums(f, S)[t] = SumStep(f, Sums(f, S), t)
<1> DEFINE g == Sums(f, S)
<1>1. IsSum(f, g, S)
  BY SumsExist
<1> HIDE DEF g
<1>2. g[t] = SumStep(f, g, t)
  BY <1>1, Zenon DEF IsSum
<1> QED
  BY <1>2 DEF g

LEMMA SumOfZeros ==
  ASSUME NEW S, IsFiniteSet(S), NEW f, \A x \in S : f[x] = 0
  PROVE  Sums(f, S)[S] = 0
<1> DEFINE g == Sums(f, S)
           T == {t \in SUBSET S : g[t] = 0}
<1>1. ASSUME NEW t \in SUBSET S, \A r \in SUBSET t : r # t => r \in T
      PROVE  t \in T
  <2> HIDE DEF g
  <2>1. g[t] = SumStep(f, g, t)
    BY SumsDef DEF g
  <2>2. CASE t = {}
    BY <2>1, <2>2 DEF SumStep
  <2>3. CASE t # {}
    <3>1. FirstOf(t) \in S /\ t \ {FirstOf(t)} \in SUBSET t /\ t \ {FirstOf(t)} # t
      BY <2>3, FirstOfIn
    <3>2. g[t \ {FirstOf(t)}] = 0
      BY <1>1, <3>1
    <3> QED
      BY <2>1, <2>3, <3>1, <3>2 DEF SumStep
  <2> QED
    BY <2>2, <2>3
<1> HIDE DEF T
<1>2. S \in T
  BY <1>1, SubsetInduction
<1> QED
  BY <1>2 DEF T

(* Counting one more in one place makes the sum one more. *)
LEMMA SumAfterOneMore ==
  ASSUME NEW S, IsFiniteSet(S), NEW f \in [S -> Int], NEW i \in S
  PROVE  /\ Sums(f, S)[S] \in Int
         /\ Sums([f EXCEPT ![i] = @ + 1], S)[S] = Sums(f, S)[S] + 1
<1> DEFINE f1 == [f EXCEPT ![i] = @ + 1]
           g == Sums(f, S)
           g1 == Sums(f1, S)
           T == {t \in SUBSET S : /\ g[t] \in Int
                                  /\ g1[t] = g[t] + IF i \in t THEN 1 ELSE 0}
<1>1. ASSUME NEW t \in SUBSET S, \A r \in SUBSET t : r # t => r \in T
      PROVE  t \in T
  <2> HIDE DEF g, g1
  <2>1. g[t] = SumStep(f, g, t) /\ g1[t] = SumStep(f1, g1, t)
    BY SumsDef DEF g, g1
  <2>2. CASE t = {}
    BY <2>1, <2>2 DEF SumStep
  <2>3. CASE t # {}
    <3> DEFINE x == FirstOf(t)
               r == t \ {x}
    <3>1. x \in t /\ x \in S /\ r \in SUBSET t /\ r # t
      BY <2>3, FirstOfIn
    <3>2. g[r] \in Int /\ g1[r] = g[r] + IF i \in r THEN 1 ELSE 0
      BY <1>1, <3>1
    <3>3. f[x] \in Int /\ f1[x] = f[x] + IF x = i THEN 1 ELSE 0
      BY <3>1
    <3>4. i \in r <=> i \in t /\ x # i
      OBVIOUS
    <3>5. g[t] = f[x] + g[r] /\ g1[t] = f1[x] + g1[r]
      BY <2>1, <2>3 DEF SumStep
    <3> HIDE DEF x, r, f1
    <3> QED
      BY <3>1, <3>2, <3>3, <3>4, <3>5
  <2> QED
    BY <2>2, <2>3
<1> HIDE DEF T
<1>2. S \in T
  BY <1>1, SubsetInduction
<1> QED
  BY <1>2 DEF T

-----------------------------------------------------------------------------
(* The workers' counters *)

SumOf(w) == Sums(w, WorkerIds)[WorkerIds]

LEMMA WorkerSumIs ==
  ASSUME NEW s
  PROVE  WorkerSum(s) = SumOf(s.workers)
BY SumIsSums, Zenon DEF WorkerSum, SumOf

Balanced(s) == SumOf(s.workers) <= s.processed

(* As for CountersNeverOverstate, every status that may be written back has *)
(* to be covered.                                                           *)
BalanceInv ==
  /\ Balanced(status)
  /\ \A c \in Clients : Balanced(copy[c])
  /\ \A x \in Workers : Balanced(workerCopy[x])

LEMMA WorkerIdsFinite == IsFiniteSet(WorkerIds)
BY FS_Interval, ServiceAssumption DEF WorkerIds

LEMMA NoWorkersBalanced ==
  ASSUME NEW s, s.workers = NoWorkersYet, s.processed \in Nat
  PROVE  Balanced(s)
<1>1. \A i \in WorkerIds : NoWorkersYet[i] = 0
  BY DEF NoWorkersYet
<1>2. SumOf(NoWorkersYet) = 0
  BY <1>1, WorkerIdsFinite, SumOfZeros DEF SumOf
<1> QED
  BY <1>2 DEF Balanced

LEMMA FreshBalanced == ASSUME NEW phase PROVE Balanced(Fresh(phase))
<1>1. Fresh(phase).workers = NoWorkersYet /\ Fresh(phase).processed = 0
  BY DEF Fresh
<1> QED
  BY <1>1, NoWorkersBalanced

(* Changing the phase, and starting again, which resets the workers only.  *)
LEMMA PhaseBalanced ==
  ASSUME NEW s \in Status, Balanced(s)
  PROVE  Balanced([s EXCEPT !.phase = "Suspended"]) /\ Balanced(StartedStatus(s))
<1> DEFINE t == [s EXCEPT !.phase = "Suspended"]
<1>1. t.workers = s.workers /\ t.processed = s.processed
  BY DEF Status
<1> HIDE DEF t
<1>2. Balanced(t)
  BY <1>1 DEF Balanced
<1>3. StartedStatus(s).workers = NoWorkersYet /\ StartedStatus(s).processed \in Nat
  BY DEF StartedStatus, Status
<1> QED
  BY <1>2, <1>3, NoWorkersBalanced DEF t

(* A counted flush is added to both sides. *)
LEMMA FlushBalanced ==
  ASSUME NEW s \in Status, Balanced(s), NEW i \in WorkerIds
  PROVE  Balanced(CountFlush(s, i))
<1> DEFINE f == s.workers
           t == CountFlush(s, i)
<1>1. f \in [WorkerIds -> Nat] /\ s.processed \in Nat
  BY DEF Status
<1>2. t.workers = [f EXCEPT ![i] = @ + 1] /\ t.processed = s.processed + 1
  BY DEF CountFlush, Status
<1>3. f \in [WorkerIds -> Int]
  BY <1>1
<1> HIDE DEF f
<1>4. SumOf(f) \in Int /\ SumOf([f EXCEPT ![i] = @ + 1]) = SumOf(f) + 1
  BY <1>3, WorkerIdsFinite, SumAfterOneMore DEF SumOf
<1>5. SumOf(f) <= s.processed
  BY DEF Balanced, f
<1> HIDE DEF t
<1>6. SumOf(t.workers) <= t.processed
  BY <1>1, <1>2, <1>4, <1>5
<1>7. Balanced(t)
  BY <1>6 DEF Balanced
<1> QED
  BY <1>7 DEF t

LEMMA BalanceInit == Init => BalanceInv
BY FreshBalanced DEF Init, BalanceInv

(* What a client writes to the repository, and what it holds. *)
LEMMA BalanceClient ==
  ASSUME TypeOK, BalanceInv, NEW c \in Clients, ClientStep(c)
  PROVE  BalanceInv'
<1>1. /\ Balanced(status) /\ Balanced(copy[c]) /\ status \in Status /\ copy[c] \in Status
      /\ \A d \in Clients : Balanced(copy[d])
      /\ \A x \in Workers : Balanced(workerCopy[x])
  BY DEF TypeOK, BalanceInv
<1>2. /\ Balanced([copy[c] EXCEPT !.phase = "Suspended"])
      /\ Balanced(StartedStatus(copy[c]))
      /\ \A phase : Balanced(Fresh(phase))
  BY <1>1, PhaseBalanced, FreshBalanced
<1>3. status' \in {status, copy[c], Fresh("Absent"), Fresh("Pending"),
                   [copy[c] EXCEPT !.phase = "Suspended"], StartedStatus(copy[c])}
  <2>1. CASE Call(c) \/ CreateBackup(c) \/ StartBackup(c) \/ DiscoverTopics(c) \/ StartUpdate(c)
    BY <2>1 DEF Call, CreateBackup, StartBackup, DiscoverTopics, StartUpdate, WriteState
  <2>2. CASE StopBackup(c) \/ StopUpdate(c) \/ DeleteBackup(c) \/ DeleteStop(c)
    BY <2>2 DEF StopBackup, StopUpdate, DeleteBackup, DeleteStop, WriteState
  <2>3. CASE \/ DeleteStopUpdate(c) \/ DeleteState(c) \/ GetBackupStatus(c)
             \/ UpdateBackupStatus(c) \/ Crash(c) \/ Restart(c)
    BY <2>3 DEF DeleteStopUpdate, DeleteState, GetBackupStatus, UpdateBackupStatus,
                Crash, Restart, WriteState
  <2> QED
    BY <2>1, <2>2, <2>3 DEF ClientStep
<1>4. copy' \in {copy, [copy EXCEPT ![c] = status], [copy EXCEPT ![c] = Fresh("Absent")]}
  <2>1. CASE Call(c) \/ CreateBackup(c) \/ StartBackup(c) \/ DiscoverTopics(c) \/ StartUpdate(c)
    BY <2>1 DEF Call, CreateBackup, StartBackup, DiscoverTopics, StartUpdate, NotRetrieved,
                Retrieved, Fail, Return
  <2>2. CASE StopBackup(c) \/ StopUpdate(c) \/ DeleteBackup(c) \/ DeleteStop(c)
    BY <2>2 DEF StopBackup, StopUpdate, DeleteBackup, DeleteStop, NotRetrieved, Retrieved,
                Fail, Return
  <2>3. CASE \/ DeleteStopUpdate(c) \/ DeleteState(c) \/ GetBackupStatus(c)
             \/ UpdateBackupStatus(c) \/ Crash(c) \/ Restart(c)
    BY <2>3 DEF DeleteStopUpdate, DeleteState, GetBackupStatus, UpdateBackupStatus,
                Crash, Restart, NotRetrieved, Retrieved, Fail, Return
  <2> QED
    BY <2>1, <2>2, <2>3 DEF ClientStep
<1>5. ASSUME NEW x \in Workers PROVE workerCopy'[x] \in {workerCopy[x], Fresh("Absent")}
  BY DEF ClientStep, Call, CreateBackup, StartBackup, DiscoverTopics, StartUpdate,
         SpawnCoordinator, StopBackup, StopUpdate, DeleteBackup, DeleteStop,
         DeleteStopUpdate, DeleteState, GetBackupStatus, UpdateBackupStatus, Crash, Kill,
         Restart, workerVars
<1>6. Balanced(status)'
  <2>1. Balanced(status')
    BY <1>1, <1>2, <1>3
  <2> QED
    BY <2>1 DEF Balanced
<1>7. ASSUME NEW d \in Clients PROVE Balanced(copy[d])'
  <2>1. copy'[d] \in {copy[d], status, Fresh("Absent")}
    BY <1>4 DEF TypeOK
  <2>2. Balanced(copy'[d])
    BY <1>1, <1>2, <2>1
  <2> QED
    BY <2>2 DEF Balanced
<1>8. ASSUME NEW x \in Workers PROVE Balanced(workerCopy[x])'
  <2>1. Balanced(workerCopy'[x])
    BY <1>1, <1>2, <1>5
  <2> QED
    BY <2>1 DEF Balanced
<1> QED
  BY <1>6, <1>7, <1>8 DEF BalanceInv

LEMMA BalanceWorker ==
  ASSUME TypeOK, BalanceInv, NEW x \in Workers, WorkerStep(x)
  PROVE  BalanceInv'
<1>1. /\ Balanced(status) /\ \A c \in Clients : Balanced(copy[c])
      /\ \A y \in Workers : Balanced(workerCopy[y])
      /\ workerCopy[x] \in Status /\ x[2] \in WorkerIds
      /\ Balanced(Fresh("Absent"))
  BY FreshBalanced DEF TypeOK, BalanceInv, Workers
<1>2. Balanced(CountFlush(workerCopy[x], x[2]))
  BY <1>1, FlushBalanced
<1>3. /\ status' \in {status, CountFlush(workerCopy[x], x[2])}
      /\ copy' = copy
      /\ workerCopy' \in {workerCopy, [workerCopy EXCEPT ![x] = status],
                          [workerCopy EXCEPT ![x] = Fresh("Absent")]}
  BY DEF WorkerStep, Flush, WorkerDone, WorkerRead, WorkerUpdate, WriteState, clientVars
<1>4. Balanced(status)'
  <2>1. Balanced(status')
    BY <1>1, <1>2, <1>3
  <2> QED
    BY <2>1 DEF Balanced
<1>5. ASSUME NEW y \in Workers PROVE Balanced(workerCopy[y])'
  <2>1. workerCopy'[y] \in {workerCopy[y], status, Fresh("Absent")}
    BY <1>3 DEF TypeOK
  <2>2. Balanced(workerCopy'[y])
    BY <1>1, <2>1
  <2> QED
    BY <2>2 DEF Balanced
<1>6. ASSUME NEW c \in Clients PROVE Balanced(copy[c])'
  <2>1. Balanced(copy'[c])
    BY <1>1, <1>3
  <2> QED
    BY <2>1 DEF Balanced
<1> QED
  BY <1>4, <1>5, <1>6 DEF BalanceInv

LEMMA BalanceStep == TypeOK /\ BalanceInv /\ [Next]_vars => BalanceInv'
<1> SUFFICES ASSUME TypeOK, BalanceInv, [Next]_vars PROVE BalanceInv'
  OBVIOUS
<1>1. CASE UNCHANGED vars
  BY <1>1 DEF vars, clientVars, workerVars, BalanceInv, Balanced
<1> QED
  BY <1>1, BalanceClient, BalanceWorker DEF Next, Waiting

(* The counters of the workers never add up to more than MessagesProcessed, *)
(* although StartBackup resets the ones and not the other, and every status *)
(* may be overwritten by one that was read before the reset (service.go,    *)
(* updateWorkerStatus of worker.go).                                        *)
THEOREM WorkersAddUp == Spec => []WorkerSumWithinTotal
<1>1. BalanceInv => WorkerSumWithinTotal
  BY WorkerSumIs DEF BalanceInv, Balanced, WorkerSumWithinTotal
<1> QED
  BY <1>1, TypeInit, TypeStep, BalanceInit, BalanceStep, PTL DEF Spec
=============================================================================
