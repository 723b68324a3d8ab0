------------------------ MODULE RestoreService_proofs ------------------------
(***************************************************************************)
(* Theorems about RestoreService, for any number of clients, workers,       *)
(* topics, segments and coordinators, either mode and any faults.           *)
(***************************************************************************)
EXTENDS RestoreService, FiniteSetTheorems, TLAPS

-----------------------------------------------------------------------------
(* The statuses that are built *)

LEMMA FreshType ==
  /\ \A phase \in Phase : Fresh(phase) \in Status
  /\ Fresh("Absent") \in Status /\ Fresh("Pending") \in Status
  /\ \A phase : Fresh(phase).restored = 0
BY DEF Fresh, Status, Phase

(* Whatever is written is the status that was read, with its phase, its      *)
(* errors or its progress set; only CountSegment counts.                     *)
LEMMA StatusTypes ==
  ASSUME NEW s \in Status
  PROVE  /\ s.restored \in Nat
         /\ Validating(s) \in Status /\ Validating(s).restored = s.restored
         /\ FailedStatus(s) \in Status /\ FailedStatus(s).restored = s.restored
         /\ StartedStatus(s) \in Status /\ StartedStatus(s).restored = s.restored
         /\ RecordError(s) \in Status /\ RecordError(s).restored = s.restored
         /\ [s EXCEPT !.phase = "Completed"] \in Status
         /\ [s EXCEPT !.phase = "Completed"].restored = s.restored
BY DEF Status, Phase, Validating, FailedStatus, StartedStatus, RecordError

LEMMA CompleteTopicType ==
  ASSUME NEW s \in Status, NEW t
  PROVE  /\ CompleteTopic(s, t) \in Status
         /\ CompleteTopic(s, t).restored = s.restored
<1> DEFINE p == [u \in Topics |-> IF u = t /\ s.progress[t] # "none"
                                   THEN "completed" ELSE s.progress[u]]
<1>1. p \in [Topics -> {"none", "pending", "completed"}]
  BY DEF Status
<1>2. CompleteTopic(s, t) = [s EXCEPT !.progress = p]
  BY DEF CompleteTopic
<1> HIDE DEF p
<1> QED
  BY <1>1, <1>2 DEF Status

LEMMA CountSegmentType ==
  ASSUME NEW s \in Status
  PROVE  /\ CountSegment(s) \in Status
         /\ CountSegment(s).restored = s.restored + 1
<1>1. s.restored + 1 \in Nat
  BY DEF Status
<1>2. CountSegment(s) = [s EXCEPT !.restored = s.restored + 1]
  BY DEF CountSegment
<1> QED
  BY <1>1, <1>2 DEF Status

LEMMA ReportedStatusType ==
  ASSUME NEW x \in Workers, workerCopy[x] \in Status
  PROVE  /\ ReportedStatus(x) \in Status
         /\ report[x] = "count" =>
              ReportedStatus(x).restored = workerCopy[x].restored + 1
         /\ report[x] # "count" =>
              ReportedStatus(x).restored = workerCopy[x].restored
<1>1. CASE report[x] = "count"
  <2>1. ReportedStatus(x) = CountSegment(workerCopy[x])
    BY <1>1 DEF ReportedStatus
  <2> QED
    BY <1>1, <2>1, CountSegmentType
<1>2. CASE report[x] = "completed"
  <2>1. ReportedStatus(x) = CompleteTopic(workerCopy[x], topic[x])
    BY <1>2 DEF ReportedStatus
  <2> QED
    BY <1>2, <2>1, CompleteTopicType
<1>3. CASE report[x] # "count" /\ report[x] # "completed"
  <2>1. ReportedStatus(x) = RecordError(workerCopy[x])
    BY <1>3 DEF ReportedStatus
  <2> QED
    BY <1>3, <2>1, StatusTypes
<1> QED
  BY <1>1, <1>2, <1>3

-----------------------------------------------------------------------------
(* The slices *)

LEMMA Slices ==
  ASSUME NEW i \in WorkerIds
  PROVE  /\ FirstTopic(i) \in Nat
         /\ LastTopic(i) \in Int /\ LastTopic(i) <= NumTopics - 1
         /\ TopicsOf(i) # {} => FirstTopic(i) \in Topics
<1>1. NumTopics \in Nat /\ NumWorkers \in Nat /\ NumWorkers >= 1
  BY ServiceAssumption
<1>2. TopicsPerWorker \in Nat
  BY <1>1 DEF TopicsPerWorker
<1>3. i \in Nat
  BY <1>1 DEF WorkerIds
<1>4. FirstTopic(i) \in Nat
  BY <1>2, <1>3 DEF FirstTopic
<1>5. LastTopic(i) \in Int /\ LastTopic(i) <= NumTopics - 1
  BY <1>1, <1>2, <1>4 DEF LastTopic
<1>6. TopicsOf(i) # {} => FirstTopic(i) \in Topics
  BY <1>1, <1>4 DEF TopicsOf, HasTopics, Topics
<1> QED
  BY <1>4, <1>5, <1>6

-----------------------------------------------------------------------------
(* Types *)

ReportKind == {"none", "count", "partition", "completed", "error"}

LEMMA TypeInit == Init => TypeOK
<1> SUFFICES ASSUME Init PROVE TypeOK
  OBVIOUS
<1>1. clientPc \in [Clients -> ClientLocation]
  BY DEF Init, ClientLocation
<1>2. /\ status \in Status
      /\ copy \in [Clients -> Status]
      /\ held \in [Coordinators -> Status]
      /\ workerCopy \in [Workers -> Status]
  BY FreshType DEF Init
<1>3. /\ owner \in [Coordinators -> Clients \cup {Nobody}]
      /\ coordinatorPc \in [Coordinators -> {"off", "wait", "done", "dead"}]
      /\ workerPc \in [Workers -> {"off", "topic", "read", "update", "done", "dead"}]
  BY DEF Init
<1>4. /\ topic \in [Workers -> Topics \cup {0}] /\ left \in [Workers -> Nat]
      /\ report \in [Workers -> ReportKind]
      /\ outcome \in [Coordinators -> [Topics -> {"none", "restored", "failed"}]]
  BY DEF Init, ReportKind
<1>5. calls \in Nat /\ produced \in Nat
  BY DEF Init
<1> QED
  BY <1>1, <1>2, <1>3, <1>4, <1>5 DEF TypeOK, ReportKind

(* An operation of a client that starts no coordinator. *)
ClientOnly(c) ==
  \/ Call(c) \/ CreateRestore(c)
  \/ GetForValidate(c) \/ ValidateUpdate(c) \/ ValidateCheck(c)
  \/ StartRestore(c) \/ StartValidate(c) \/ StartCheck(c) \/ StartFailed(c)
  \/ StartMetadata(c)
  \/ DeleteRestore(c) \/ GetRestoreStatus(c) \/ UpdateRestoreStatus(c)
  \/ Restart(c)

(* What such an operation may do: whatever it writes or holds is a status   *)
(* that was there, with no more counted.                                    *)
LEMMA ClientOnlyMoves ==
  ASSUME TypeOK, NEW c \in Clients, ClientOnly(c)
  PROVE  /\ UNCHANGED <<coordinatorVars, workerVars>>
         /\ \E l \in ClientLocation : Goto(c, l)
         /\ status' \in {status, Fresh("Pending"), Fresh("Absent"), copy[c],
                         Validating(copy[c]), FailedStatus(copy[c])}
         /\ copy' \in {copy, [copy EXCEPT ![c] = Fresh("Absent")],
                       [copy EXCEPT ![c] = status],
                       [copy EXCEPT ![c] = Validating(copy[c])]}
         /\ calls' \in {calls, calls + 1}
<1> USE DEF ClientLocation, NotRetrieved, Retrieved, WriteState, Return, Fail, Drop
<1>1. CASE Call(c) \/ CreateRestore(c) \/ GetForValidate(c) \/ Restart(c)
  BY <1>1 DEF Call, CreateRestore, GetForValidate, Restart
<1>2. CASE ValidateUpdate(c) \/ ValidateCheck(c)
  BY <1>2 DEF ValidateUpdate, ValidateCheck
<1>3. CASE StartRestore(c) \/ StartCheck(c) \/ StartMetadata(c)
  BY <1>3 DEF StartRestore, StartCheck, StartMetadata
<1>4. CASE StartValidate(c)
  <2>1. copy'[c] = Validating(copy[c])
    BY <1>4 DEF StartValidate, TypeOK
  <2> QED
    BY <1>4, <2>1 DEF StartValidate
<1>5. CASE StartFailed(c)
  BY <1>5 DEF StartFailed
<1>6. CASE DeleteRestore(c) \/ GetRestoreStatus(c) \/ UpdateRestoreStatus(c)
  BY <1>6 DEF DeleteRestore, GetRestoreStatus, UpdateRestoreStatus
<1> QED
  BY <1>1, <1>2, <1>3, <1>4, <1>5, <1>6 DEF ClientOnly

LEMMA TypeClient ==
  ASSUME TypeOK, NEW c \in Clients, ClientOnly(c)
  PROVE  TypeOK'
<1>1. UNCHANGED <<coordinatorVars, workerVars>>
  BY ClientOnlyMoves
<1>2. clientPc' \in [Clients -> ClientLocation]
  BY ClientOnlyMoves DEF Goto, TypeOK
<1>3. status' \in Status /\ copy' \in [Clients -> Status]
  <2>1. status \in Status /\ copy[c] \in Status /\ copy \in [Clients -> Status]
    BY DEF TypeOK
  <2> QED
    BY <2>1, ClientOnlyMoves, StatusTypes, FreshType
<1>4. calls' \in Nat
  BY ClientOnlyMoves DEF TypeOK
<1> QED
  BY <1>1, <1>2, <1>3, <1>4 DEF TypeOK, coordinatorVars, workerVars

LEMMA TypeStartUpdate ==
  ASSUME TypeOK, NEW c \in Clients, StartUpdate(c)
  PROVE  TypeOK'
<1>1. StartedStatus(copy[c]) \in Status
  BY StatusTypes DEF TypeOK
<1>2. /\ clientPc' \in [Clients -> ClientLocation]
      /\ copy' \in [Clients -> Status]
  BY FreshType DEF StartUpdate, Return, Fail, Drop, Goto, TypeOK, ClientLocation
<1>3. CASE UNCHANGED <<status, calls, coordinatorVars, workerVars>>
  BY <1>2, <1>3 DEF TypeOK, coordinatorVars, workerVars
<1>4. CASE /\ WriteState(StartedStatus(copy[c]))
           /\ SpawnCoordinator(c, StartedStatus(copy[c]))
           /\ UNCHANGED calls
  <2>1. status' \in Status
    BY <1>1, <1>4 DEF WriteState
  <2>2. /\ owner' \in [Coordinators -> Clients \cup {Nobody}]
        /\ coordinatorPc' \in [Coordinators -> {"off", "wait", "done", "dead"}]
        /\ held' \in [Coordinators -> Status]
    BY <1>1, <1>4 DEF SpawnCoordinator, TypeOK
  <2>3. workerPc' \in [Workers -> {"off", "topic", "read", "update", "done", "dead"}]
    BY <1>4 DEF SpawnCoordinator, TypeOK
  <2>4. topic' \in [Workers -> Topics \cup {0}]
    <3>1. ASSUME NEW x \in Workers, TopicsOf(x[2]) # {}
          PROVE  FirstTopic(x[2]) \in Topics
      <4>1. x[2] \in WorkerIds
        BY DEF Workers
      <4> QED
        BY <3>1, <4>1, Slices
    <3> QED
      BY <1>4, <3>1 DEF SpawnCoordinator, TypeOK
  <2>5. left' \in [Workers -> Nat]
    <3>1. SegmentsPerTopic \in Nat
      BY ServiceAssumption
    <3> QED
      BY <1>4, <3>1 DEF SpawnCoordinator, TypeOK
  <2>6. UNCHANGED <<calls, workerCopy, report, outcome, produced>>
    BY <1>4 DEF SpawnCoordinator
  <2> QED
    BY <1>2, <2>1, <2>2, <2>3, <2>4, <2>5, <2>6 DEF TypeOK
<1> QED
  BY <1>3, <1>4 DEF StartUpdate

(* Back to the segments, to the next topic, or done. *)
LEMMA TypeReported ==
  ASSUME TypeOK, NEW x \in Workers, Reported(x)
  PROVE  /\ workerPc' \in [Workers -> {"off", "topic", "read", "update", "done", "dead"}]
         /\ topic' \in [Workers -> Topics \cup {0}]
         /\ left' \in [Workers -> Nat]
         /\ report' \in [Workers -> ReportKind]
         /\ workerCopy' \in [Workers -> Status]
<1>1. workerPc' \in [Workers -> {"off", "topic", "read", "update", "done", "dead"}]
  BY DEF Reported, WorkerGoto, TypeOK
<1>2. topic' \in [Workers -> Topics \cup {0}]
  <2>1. CASE topic' = topic
    BY <2>1 DEF TypeOK
  <2>2. CASE topic[x] < LastTopic(x[2]) /\ topic' = [topic EXCEPT ![x] = topic[x] + 1]
    <3>1. x[2] \in WorkerIds
      BY DEF Workers
    <3>2. topic[x] \in Topics \cup {0}
      BY DEF TypeOK
    <3>3. topic[x] + 1 \in Topics
      BY <2>2, <3>1, <3>2, Slices, ServiceAssumption DEF Topics
    <3> QED
      BY <2>2, <3>3 DEF TypeOK
  <2> QED
    BY <2>1, <2>2 DEF Reported
<1>3. left' \in [Workers -> Nat]
  <2>1. left' \in {left, [left EXCEPT ![x] = SegmentsPerTopic], [left EXCEPT ![x] = 0]}
    BY DEF Reported
  <2>2. SegmentsPerTopic \in Nat
    BY ServiceAssumption
  <2> QED
    BY <2>1, <2>2 DEF TypeOK
<1>4. /\ report' \in [Workers -> ReportKind]
      /\ workerCopy' \in [Workers -> Status]
  BY FreshType DEF Reported, TypeOK, ReportKind
<1> QED
  BY <1>1, <1>2, <1>3, <1>4

LEMMA TypeWorker ==
  ASSUME TypeOK, NEW x \in Workers, WorkerStep(x)
  PROVE  TypeOK'
<1>0. x[1] \in Coordinators /\ x[2] \in WorkerIds
  BY DEF Workers
<1>1. CASE RestoreSegment(x) \/ RestoreTopic(x) \/ PartitionFails(x) \/ TopicFails(x)
  <2>1. UNCHANGED <<status, clientVars, coordinatorVars, workerCopy, topic>>
    BY <1>1 DEF RestoreSegment, RestoreTopic, PartitionFails, TopicFails
  <2>2. /\ workerPc' \in [Workers -> {"off", "topic", "read", "update", "done", "dead"}]
        /\ report' \in [Workers -> ReportKind]
    BY <1>1 DEF RestoreSegment, RestoreTopic, PartitionFails, TopicFails,
                WillReport, WorkerGoto, TypeOK, ReportKind
  <2>3. left' \in [Workers -> Nat] /\ produced' \in Nat
    <3>1. left[x] > 0 => left[x] - 1 \in Nat
      BY DEF TypeOK
    <3>2. left[x] > 0 => 0 .. left[x] - 1 \subseteq Nat
      BY <3>1
    <3>3. left' \in [Workers -> Nat]
      BY <1>1, <3>1, <3>2
      DEF RestoreSegment, RestoreTopic, PartitionFails, TopicFails, TypeOK
    <3>4. produced' \in Nat
      BY <1>1 DEF RestoreSegment, RestoreTopic, PartitionFails, TopicFails, TypeOK
    <3> QED
      BY <3>3, <3>4
  <2>4. outcome' \in [Coordinators -> [Topics -> {"none", "restored", "failed"}]]
    BY <1>0, <1>1
    DEF RestoreSegment, RestoreTopic, PartitionFails, TopicFails, Ended, TypeOK
  <2> QED
    BY <2>1, <2>2, <2>3, <2>4 DEF TypeOK, ReportKind, clientVars, coordinatorVars
<1>2. CASE WorkerFails(x)
  <2>1. /\ UNCHANGED <<status, clientVars, coordinatorVars, workerCopy, topic,
                       report, produced>>
        /\ workerPc' \in [Workers -> {"off", "topic", "read", "update", "done", "dead"}]
        /\ left' \in [Workers -> Nat]
    BY <1>2 DEF WorkerFails, WorkerGoto, TypeOK
  <2>2. outcome' \in [Coordinators -> [Topics -> {"none", "restored", "failed"}]]
    BY <1>0, <1>2 DEF WorkerFails, TypeOK
  <2> QED
    BY <2>1, <2>2 DEF TypeOK, clientVars, coordinatorVars
<1>3. CASE WorkerRead(x)
  <2>1. UNCHANGED <<status, clientVars, coordinatorVars, outcome, produced>>
    BY <1>3 DEF WorkerRead
  <2>2. CASE Reported(x)
    BY <2>1, <2>2, TypeReported DEF TypeOK, ReportKind, clientVars, coordinatorVars
  <2>3. CASE ~Reported(x)
    <3>1. /\ workerCopy' = [workerCopy EXCEPT ![x] = status]
          /\ workerPc' = [workerPc EXCEPT ![x] = "update"]
          /\ UNCHANGED <<topic, left, report>>
      BY <1>3, <2>3 DEF WorkerRead, WorkerGoto
    <3> QED
      BY <2>1, <3>1 DEF TypeOK, clientVars, coordinatorVars
  <2> QED
    BY <2>2, <2>3
<1>4. CASE WorkerUpdate(x)
  <2>1. UNCHANGED <<clientVars, coordinatorVars, outcome, produced>>
    BY <1>4 DEF WorkerUpdate
  <2>2. ReportedStatus(x) \in Status
    BY ReportedStatusType DEF TypeOK
  <2>3. status' \in Status
    BY <1>4, <2>2 DEF WorkerUpdate, WriteState, TypeOK
  <2>4. Reported(x)
    BY <1>4 DEF WorkerUpdate
  <2> QED
    BY <2>1, <2>3, <2>4, TypeReported DEF TypeOK, ReportKind, clientVars, coordinatorVars
<1> QED
  BY <1>1, <1>2, <1>3, <1>4 DEF WorkerStep

LEMMA TypeFinish ==
  ASSUME TypeOK, NEW k \in Coordinators, Finish(k)
  PROVE  TypeOK'
<1>1. [held[k] EXCEPT !.phase = "Completed"] \in Status
  BY StatusTypes DEF TypeOK
<1>2. status' \in Status
  BY <1>1 DEF Finish, WriteState, TypeOK
<1>3. /\ coordinatorPc' \in [Coordinators -> {"off", "wait", "done", "dead"}]
      /\ held' \in [Coordinators -> Status]
  BY FreshType DEF Finish, TypeOK
<1>4. UNCHANGED <<clientVars, owner, workerVars>>
  BY DEF Finish
<1> QED
  BY <1>2, <1>3, <1>4 DEF TypeOK, clientVars, workerVars

LEMMA TypeCrash ==
  ASSUME TypeOK, NEW c \in Clients, Crash(c)
  PROVE  TypeOK'
<1>1. /\ clientPc' \in [Clients -> ClientLocation]
      /\ copy' \in [Clients -> Status]
  BY FreshType DEF Crash, Goto, Drop, TypeOK, ClientLocation
<1>2. /\ coordinatorPc' \in [Coordinators -> {"off", "wait", "done", "dead"}]
      /\ held' \in [Coordinators -> Status]
  BY FreshType DEF Crash, TypeOK
<1>3. /\ workerPc' \in [Workers -> {"off", "topic", "read", "update", "done", "dead"}]
      /\ workerCopy' \in [Workers -> Status]
      /\ report' \in [Workers -> ReportKind]
  BY FreshType DEF Crash, TypeOK, ReportKind
<1>4. UNCHANGED <<status, calls, owner, topic, outcome, produced>>
  BY DEF Crash
<1>5. left' \in [Workers -> Nat]
  BY DEF Crash, TypeOK
<1> QED
  BY <1>1, <1>2, <1>3, <1>4, <1>5 DEF TypeOK, ReportKind

LEMMA WorkerOf ==
  ASSUME NEW k \in Coordinators, NEW i \in WorkerIds
  PROVE  <<k, i>> \in Workers
BY DEF Workers

LEMMA TypeStep == TypeOK /\ [Next]_vars => TypeOK'
<1> SUFFICES ASSUME TypeOK, [Next]_vars PROVE TypeOK'
  OBVIOUS
<1>1. ASSUME NEW c \in Clients, ClientStep(c) PROVE TypeOK'
  <2>1. ClientOnly(c) \/ StartUpdate(c) \/ Crash(c)
    BY <1>1, Zenon DEF ClientStep, ClientOnly
  <2> QED
    BY <2>1, TypeClient, TypeStartUpdate, TypeCrash
<1>2. ASSUME NEW k \in Coordinators, CoordinatorStep(k) PROVE TypeOK'
  BY <1>2, TypeFinish, TypeWorker, WorkerOf DEF CoordinatorStep
<1>3. CASE UNCHANGED vars
  BY <1>3 DEF vars, clientVars, coordinatorVars, workerVars, TypeOK
<1> QED
  BY <1>1, <1>2, <1>3 DEF Next, Waiting

(* Every variable of the service, its clients, coordinators and workers     *)
(* keeps its type; in particular a worker never restores a topic that is    *)
(* not one (the slices of coordinator.go).                                  *)
THEOREM TypeCorrect == Spec => []TypeOK
<1> QED
  BY TypeInit, TypeStep, PTL DEF Spec
-----------------------------------------------------------------------------
(* The statuses that are about *)

(* In the repository, or held by somebody who may write it back. *)
Known ==
  {Fresh("Absent"), status} \cup {copy[c] : c \in Clients}
                            \cup {held[k] : k \in Coordinators}
                            \cup {workerCopy[x] : x \in Workers}

(* A status that counts what s counts, and is no more completed than s, nor *)
(* is any of its topics.                                                    *)
ComesFrom(r, s) ==
  /\ r.restored = s.restored
  /\ r.phase = "Completed" => s.phase = "Completed"
  /\ \A t \in Topics : r.progress[t] = "completed" => s.progress[t] = "completed"

NotNew(r) == \E s \in Known : ComesFrom(r, s)

LEMMA KnownTypes ==
  ASSUME TypeOK
  PROVE  /\ \A s \in Known : s \in Status /\ NotNew(s)
         /\ status \in Known /\ Fresh("Absent") \in Known
         /\ \A c \in Clients : copy[c] \in Known
         /\ \A k \in Coordinators : held[k] \in Known
         /\ \A x \in Workers : workerCopy[x] \in Known
<1>1. \A s \in Known : s \in Status
  BY FreshType DEF Known, TypeOK
<1>2. \A s \in Known : NotNew(s)
  BY DEF NotNew, ComesFrom
<1> QED
  BY <1>1, <1>2 DEF Known

LEMMA FreshNotNew ==
  ASSUME TypeOK
  PROVE  NotNew(Fresh("Absent")) /\ NotNew(Fresh("Pending"))
<1>1. Fresh("Absent").phase = "Absent" /\ Fresh("Pending").phase = "Pending"
  BY DEF Fresh
<1>2. Fresh("Pending").progress = Fresh("Absent").progress
  BY DEF Fresh
<1>3. ComesFrom(Fresh("Absent"), Fresh("Absent")) /\ ComesFrom(Fresh("Pending"), Fresh("Absent"))
  BY <1>1, <1>2, FreshType DEF ComesFrom
<1> QED
  BY <1>3, KnownTypes DEF NotNew

LEMMA ChangedNotNew ==
  ASSUME TypeOK, NEW s \in Known
  PROVE  /\ NotNew(s) /\ NotNew(Validating(s)) /\ NotNew(FailedStatus(s))
         /\ NotNew(StartedStatus(s))
<1>1. s \in Status
  BY KnownTypes
<1>2. /\ Validating(s).phase = "Validating"
      /\ FailedStatus(s).phase = "Failed"
      /\ StartedStatus(s).phase = "Running"
  BY <1>1 DEF Validating, FailedStatus, StartedStatus, Status
<1>3. /\ Validating(s).progress = s.progress
      /\ FailedStatus(s).progress = s.progress
      /\ StartedStatus(s).progress = [t \in Topics |-> "pending"]
  BY <1>1 DEF Validating, FailedStatus, StartedStatus, Status
<1>4. /\ ComesFrom(Validating(s), s)
      /\ ComesFrom(FailedStatus(s), s)
      /\ ComesFrom(StartedStatus(s), s)
  BY <1>1, <1>2, <1>3, StatusTypes DEF ComesFrom
<1> QED
  BY <1>4, KnownTypes DEF NotNew

(* After a step nobody holds a status that is new; the repository does      *)
(* after the update of a worker and at the end of a coordinator.            *)
HoldNothingNew ==
  /\ \A c \in Clients : NotNew(copy'[c])
  /\ \A k \in Coordinators : NotNew(held'[k])
  /\ \A x \in Workers : NotNew(workerCopy'[x])

LEMMA HeldByClient ==
  ASSUME TypeOK, NEW c \in Clients, ClientOnly(c) \/ StartUpdate(c) \/ Crash(c)
  PROVE  HoldNothingNew /\ NotNew(status')
<1>1. copy' \in {copy, [copy EXCEPT ![c] = Fresh("Absent")],
                 [copy EXCEPT ![c] = status],
                 [copy EXCEPT ![c] = Validating(copy[c])]}
  BY ClientOnlyMoves DEF StartUpdate, Return, Fail, Drop, Crash
<1>2. ASSUME NEW d \in Clients PROVE NotNew(copy'[d])
  <2>1. copy'[d] \in {copy[d], Fresh("Absent"), status, Validating(copy[c])}
    BY <1>1 DEF TypeOK
  <2> QED
    BY <2>1, KnownTypes, FreshNotNew, ChangedNotNew
<1>3. ASSUME NEW k \in Coordinators PROVE NotNew(held'[k])
  <2>1. held'[k] \in {held[k], Fresh("Absent"), StartedStatus(copy[c])}
    BY ClientOnlyMoves
    DEF StartUpdate, SpawnCoordinator, Crash, coordinatorVars, TypeOK
  <2> QED
    BY <2>1, KnownTypes, FreshNotNew, ChangedNotNew
<1>4. ASSUME NEW x \in Workers PROVE NotNew(workerCopy'[x])
  <2>1. workerCopy'[x] \in {workerCopy[x], Fresh("Absent")}
    BY ClientOnlyMoves
    DEF StartUpdate, SpawnCoordinator, Crash, workerVars, TypeOK
  <2> QED
    BY <2>1, KnownTypes, FreshNotNew
<1>5. NotNew(status')
  <2>1. status' \in {status, Fresh("Pending"), Fresh("Absent"), copy[c],
                     Validating(copy[c]), FailedStatus(copy[c]),
                     StartedStatus(copy[c])}
    BY ClientOnlyMoves DEF StartUpdate, WriteState, Crash
  <2> QED
    BY <2>1, KnownTypes, FreshNotNew, ChangedNotNew
<1> QED
  BY <1>2, <1>3, <1>4, <1>5 DEF HoldNothingNew

LEMMA HeldByWorker ==
  ASSUME TypeOK, NEW x \in Workers, WorkerStep(x)
  PROVE  /\ HoldNothingNew
         /\ \/ NotNew(status')
            \/ WorkerUpdate(x) /\ status' = ReportedStatus(x)
<1>1. UNCHANGED <<clientVars, coordinatorVars>>
  BY DEF WorkerStep, RestoreSegment, RestoreTopic, PartitionFails, TopicFails,
         WorkerFails, WorkerRead, WorkerUpdate
<1>2. ASSUME NEW y \in Workers PROVE NotNew(workerCopy'[y])
  <2>1. workerCopy'[y] \in {workerCopy[y], Fresh("Absent"), status}
    BY DEF WorkerStep, RestoreSegment, RestoreTopic, PartitionFails, TopicFails,
           WorkerFails, WorkerRead, WorkerUpdate, Reported, TypeOK
  <2> QED
    BY <2>1, KnownTypes, FreshNotNew
<1>3. status' = status \/ (WorkerUpdate(x) /\ status' = ReportedStatus(x))
  BY DEF WorkerStep, RestoreSegment, RestoreTopic, PartitionFails, TopicFails,
         WorkerFails, WorkerRead, WorkerUpdate, WriteState
<1>4. \/ NotNew(status')
      \/ WorkerUpdate(x) /\ status' = ReportedStatus(x)
  BY <1>3, KnownTypes
<1>5. /\ \A c \in Clients : NotNew(copy'[c])
      /\ \A k \in Coordinators : NotNew(held'[k])
  BY <1>1, KnownTypes DEF clientVars, coordinatorVars
<1> QED
  BY <1>2, <1>4, <1>5 DEF HoldNothingNew

LEMMA HeldByCoordinator ==
  ASSUME TypeOK, NEW k \in Coordinators, Finish(k)
  PROVE  /\ HoldNothingNew
         /\ NotNew(status') \/ status' = [held[k] EXCEPT !.phase = "Completed"]
<1>1. UNCHANGED <<clientVars, workerVars>>
  BY DEF Finish
<1>2. ASSUME NEW l \in Coordinators PROVE NotNew(held'[l])
  <2>1. held'[l] \in {held[l], Fresh("Absent")}
    BY DEF Finish, TypeOK
  <2> QED
    BY <2>1, KnownTypes, FreshNotNew
<1>3. status' = status \/ status' = [held[k] EXCEPT !.phase = "Completed"]
  BY DEF Finish, WriteState
<1>4. NotNew(status') \/ status' = [held[k] EXCEPT !.phase = "Completed"]
  BY <1>3, KnownTypes
<1>5. /\ \A c \in Clients : NotNew(copy'[c])
      /\ \A x \in Workers : NotNew(workerCopy'[x])
  BY <1>1, KnownTypes DEF clientVars, workerVars
<1> QED
  BY <1>2, <1>4, <1>5 DEF HoldNothingNew

LEMMA KnownNext ==
  ASSUME HoldNothingNew, NEW s \in Known'
  PROVE  s = Fresh("Absent") \/ s = status' \/ NotNew(s)
BY DEF Known, HoldNothingNew

-----------------------------------------------------------------------------
(* The counter *)

(* The workers that have produced a message and have still to count it. *)
Pending == {x \in Workers : workerPc[x] \in {"read", "update"} /\ report[x] = "count"}

(* What a status may claim: it never decreases, although updates get lost.  *)
Countable == produced - Cardinality(Pending)

(* CountersNeverOverstate is not inductive: every status that somebody may  *)
(* write back has to be covered, and a worker that is about to count must   *)
(* find room for it.                                                        *)
CountInv == \A s \in Known : s.restored <= Countable

LEMMA WorkersFinite ==
  \A S \in SUBSET Workers : IsFiniteSet(S) /\ Cardinality(S) \in Nat
<1>1. IsFiniteSet(Coordinators) /\ IsFiniteSet(WorkerIds)
  BY FS_Interval, ServiceAssumption DEF Coordinators, WorkerIds
<1>2. IsFiniteSet(Workers)
  BY <1>1, FS_Product DEF Workers
<1> QED
  BY <1>2, FS_Subset, FS_CardinalityType

LEMMA PendingFinite ==
  /\ IsFiniteSet(Pending) /\ Cardinality(Pending) \in Nat
  /\ TypeOK => Countable \in Int
BY WorkersFinite DEF Pending, Countable, TypeOK

LEMMA PendingShrinks ==
  ASSUME TypeOK, produced' \in {produced, produced + 1}, Pending' \subseteq Pending
  PROVE  Countable <= Countable' /\ Countable' \in Int
<1>1. IsFiniteSet(Pending) /\ Cardinality(Pending) \in Nat
  BY PendingFinite
<1>2. Cardinality(Pending') \in Nat /\ Cardinality(Pending') <= Cardinality(Pending)
  BY <1>1, FS_Subset, FS_CardinalityType
<1> QED
  BY <1>1, <1>2 DEF Countable, TypeOK

(* A worker that has counted makes room for what it has counted. *)
LEMMA PendingLess ==
  ASSUME TypeOK, produced' = produced, NEW x \in Pending, Pending' = Pending \ {x}
  PROVE  Countable' = Countable + 1
<1>1. IsFiniteSet(Pending) /\ Cardinality(Pending) \in Nat
  BY PendingFinite
<1>2. Cardinality(Pending') = Cardinality(Pending) - 1
  BY <1>1, FS_RemoveElement
<1> QED
  BY <1>1, <1>2 DEF Countable, TypeOK

LEMMA PendingMore ==
  ASSUME TypeOK, produced' = produced + 1, NEW x, x \notin Pending,
         Pending' = Pending \cup {x}
  PROVE  Countable' = Countable
<1>1. IsFiniteSet(Pending) /\ Cardinality(Pending) \in Nat
  BY PendingFinite
<1>2. Cardinality(Pending') = Cardinality(Pending) + 1
  BY <1>1, FS_AddElement
<1> QED
  BY <1>1, <1>2 DEF Countable, TypeOK

(* Nothing is counted, and what may be counted does not decrease. *)
LEMMA CountKept ==
  ASSUME TypeOK, CountInv, HoldNothingNew, NotNew(status'),
         Countable <= Countable', Countable' \in Int
  PROVE  CountInv'
<1>1. Countable \in Int
  BY PendingFinite
<1>2. ASSUME NEW r, NotNew(r) PROVE r.restored <= Countable'
  <2>1. PICK s \in Known : ComesFrom(r, s)
    BY <1>2 DEF NotNew
  <2>2. s.restored \in Nat /\ s.restored <= Countable /\ r.restored = s.restored
    BY <2>1, KnownTypes, StatusTypes DEF CountInv, ComesFrom
  <2> QED
    BY <1>1, <2>2
<1>3. ASSUME NEW s \in Known' PROVE NotNew(s)
  BY KnownNext, FreshNotNew
<1> QED
  BY <1>2, <1>3 DEF CountInv

LEMMA CountClient ==
  ASSUME TypeOK, NEW c \in Clients, ClientOnly(c) \/ StartUpdate(c) \/ Crash(c)
  PROVE  Countable <= Countable' /\ Countable' \in Int
<1>1. produced' = produced
  BY ClientOnlyMoves DEF StartUpdate, SpawnCoordinator, Crash, workerVars
<1>2. Pending' \subseteq Pending
  <2>1. CASE UNCHANGED workerVars
    BY <2>1 DEF Pending, workerVars
  <2>2. CASE SpawnCoordinator(c, StartedStatus(copy[c]))
    BY <2>2 DEF SpawnCoordinator, Pending, TypeOK
  <2>3. CASE Crash(c)
    BY <2>3 DEF Crash, Pending, TypeOK
  <2> QED
    BY <2>1, <2>2, <2>3, ClientOnlyMoves DEF StartUpdate
<1> QED
  BY <1>1, <1>2, PendingShrinks

LEMMA CountWorker ==
  ASSUME TypeOK, CountInv, NEW x \in Workers, WorkerStep(x)
  PROVE  CountInv'
<1>1. CASE RestoreSegment(x)
  <2>1. x \notin Pending /\ Pending' = Pending \cup {x} /\ produced' = produced + 1
    BY <1>1 DEF RestoreSegment, WillReport, WorkerGoto, Pending, TypeOK
  <2>2. Countable <= Countable' /\ Countable' \in Int
    BY <2>1, PendingMore, PendingFinite
  <2>3. NotNew(status')
    BY <1>1, KnownTypes DEF RestoreSegment
  <2> QED
    BY <2>2, <2>3, HeldByWorker, CountKept
<1>2. CASE \/ RestoreTopic(x) \/ PartitionFails(x) \/ TopicFails(x)
           \/ WorkerFails(x) \/ WorkerRead(x)
  <2>1. Pending' \subseteq Pending
    BY <1>2 DEF RestoreTopic, PartitionFails, TopicFails, WorkerFails, WorkerRead,
                Reported, WillReport, WorkerGoto, Pending, TypeOK
  <2>2. produced' \in {produced, produced + 1} /\ status' = status
    BY <1>2 DEF RestoreTopic, PartitionFails, TopicFails, WorkerFails, WorkerRead
  <2>3. NotNew(status')
    BY <2>2, KnownTypes
  <2> QED
    BY <2>1, <2>2, <2>3, PendingShrinks, HeldByWorker, CountKept
<1>3. CASE WorkerUpdate(x)
  <2>1. produced' = produced /\ workerCopy[x] \in Status
    BY <1>3 DEF WorkerUpdate, TypeOK
  <2>2. Pending' = Pending \ {x}
    <3>1. /\ report' = [report EXCEPT ![x] = "none"]
          /\ \A y \in Workers \ {x} : workerPc'[y] = workerPc[y]
      BY <1>3 DEF WorkerUpdate, Reported, WorkerGoto, TypeOK
    <3> QED
      BY <3>1 DEF Pending, TypeOK
  <2>3. CASE report[x] = "count"
    <3>1. x \in Pending
      BY <1>3, <2>3 DEF WorkerUpdate, Pending
    <3>2. Countable' = Countable + 1 /\ Countable \in Int
      BY <2>1, <2>2, <3>1, PendingLess, PendingFinite
    <3>3. ASSUME NEW s \in Known PROVE s.restored \in Nat /\ s.restored <= Countable
      BY KnownTypes, StatusTypes DEF CountInv
    <3>4. ASSUME NEW r, NotNew(r) PROVE r.restored <= Countable'
      <4>1. PICK s \in Known : ComesFrom(r, s)
        BY <3>4 DEF NotNew
      <4>2. s.restored \in Nat /\ s.restored <= Countable /\ r.restored = s.restored
        BY <3>3, <4>1 DEF ComesFrom
      <4> QED
        BY <3>2, <4>2
    <3>5. status'.restored <= Countable'
      <4>1. CASE NotNew(status')
        BY <3>4, <4>1
      <4>2. CASE status' = ReportedStatus(x)
        <5>1. status'.restored = workerCopy[x].restored + 1
          BY <2>1, <2>3, <4>2, ReportedStatusType
        <5>2. workerCopy[x].restored \in Nat /\ workerCopy[x].restored <= Countable
          BY <3>3, KnownTypes
        <5> QED
          BY <3>2, <5>1, <5>2
      <4> QED
        BY <4>1, <4>2, HeldByWorker
    <3> QED
      BY <3>4, <3>5, HeldByWorker, KnownNext, FreshNotNew DEF CountInv
  <2>4. CASE report[x] # "count"
    <3>1. Countable <= Countable' /\ Countable' \in Int /\ Countable \in Int
      BY <2>1, <2>2, PendingShrinks, PendingFinite
    <3>2. ASSUME NEW r, NEW s \in Known, r.restored = s.restored
          PROVE  r.restored <= Countable'
      <4>1. s.restored \in Nat /\ s.restored <= Countable
        BY KnownTypes, StatusTypes DEF CountInv
      <4> QED
        BY <3>1, <3>2, <4>1
    <3>3. status'.restored <= Countable'
      <4>1. CASE NotNew(status')
        BY <3>2, <4>1 DEF NotNew, ComesFrom
      <4>2. CASE status' = ReportedStatus(x)
        BY <2>1, <2>4, <3>2, <4>2, ReportedStatusType, KnownTypes
      <4> QED
        BY <4>1, <4>2, HeldByWorker
    <3>4. ASSUME NEW r, NotNew(r) PROVE r.restored <= Countable'
      BY <3>2, <3>4 DEF NotNew, ComesFrom
    <3> QED
      BY <3>3, <3>4, HeldByWorker, KnownNext, FreshNotNew DEF CountInv
  <2> QED
    BY <2>3, <2>4
<1> QED
  BY <1>1, <1>2, <1>3 DEF WorkerStep

LEMMA CountFinish ==
  ASSUME TypeOK, CountInv, NEW k \in Coordinators, Finish(k)
  PROVE  CountInv'
<1>1. Countable <= Countable' /\ Countable' \in Int /\ Countable \in Int
  <2>1. produced' = produced /\ Pending' \subseteq Pending
    BY DEF Finish, workerVars, Pending
  <2> QED
    BY <2>1, PendingShrinks, PendingFinite
<1>2. ASSUME NEW r, NEW s \in Known, r.restored = s.restored
      PROVE  r.restored <= Countable'
  <2>1. s.restored \in Nat /\ s.restored <= Countable
    BY KnownTypes, StatusTypes DEF CountInv
  <2> QED
    BY <1>1, <1>2, <2>1
<1>3. ASSUME NEW r, NotNew(r) PROVE r.restored <= Countable'
  BY <1>2, <1>3 DEF NotNew, ComesFrom
<1>4. status'.restored <= Countable'
  <2>1. held[k] \in Known /\ held[k] \in Status
    BY KnownTypes
  <2>2. [held[k] EXCEPT !.phase = "Completed"].restored = held[k].restored
    BY <2>1, StatusTypes
  <2> QED
    BY <1>2, <1>3, <2>1, <2>2, HeldByCoordinator
<1> QED
  BY <1>3, <1>4, HeldByCoordinator, KnownNext, FreshNotNew DEF CountInv

LEMMA ClientCases ==
  ASSUME NEW c \in Clients, ClientStep(c)
  PROVE  ClientOnly(c) \/ StartUpdate(c) \/ Crash(c)
BY Zenon DEF ClientStep, ClientOnly

LEMMA CountStep == TypeOK /\ CountInv /\ [Next]_vars => CountInv'
<1> SUFFICES ASSUME TypeOK, CountInv, [Next]_vars PROVE CountInv'
  OBVIOUS
<1>1. ASSUME NEW c \in Clients, ClientStep(c) PROVE CountInv'
  BY <1>1, ClientCases, CountClient, HeldByClient, CountKept
<1>2. ASSUME NEW k \in Coordinators, CoordinatorStep(k) PROVE CountInv'
  BY <1>2, CountFinish, CountWorker, WorkerOf DEF CoordinatorStep
<1>3. CASE UNCHANGED vars
  BY <1>3 DEF vars, clientVars, coordinatorVars, workerVars, CountInv, Known,
              Countable, Pending
<1> QED
  BY <1>1, <1>2, <1>3 DEF Next, Waiting

LEMMA KnownInit == Init => Known = {Fresh("Absent")}
BY DEF Init, Known

LEMMA CountInit == Init => CountInv
<1> SUFFICES ASSUME Init PROVE CountInv
  OBVIOUS
<1>1. Pending = {}
  BY DEF Init, Pending
<1>2. Countable = 0
  BY <1>1, FS_EmptySet DEF Init, Countable
<1> QED
  BY <1>2, FreshType, KnownInit DEF CountInv

(* MessagesRestored never claims a message that was not produced: not for   *)
(* any number of clients and coordinators that overwrite the status with    *)
(* what they read before, nor for any number of workers that update it at   *)
(* the same time (service.go, Worker.updateWorkerStatus).                   *)
THEOREM CountersAreHonest == Spec => []CountersNeverOverstate
<1>1. TypeOK /\ CountInv => CountersNeverOverstate
  <2> SUFFICES ASSUME TypeOK, CountInv PROVE CountersNeverOverstate
    OBVIOUS
  <2>1. /\ Cardinality(Pending) \in Nat /\ produced \in Nat
        /\ status.restored \in Nat
    BY PendingFinite, StatusTypes DEF TypeOK
  <2>2. status.restored <= produced - Cardinality(Pending)
    BY KnownTypes DEF CountInv, Countable
  <2> QED
    BY <2>1, <2>2 DEF CountersNeverOverstate
<1>2. Spec => [](TypeOK /\ CountInv)
  BY TypeInit, TypeStep, CountInit, CountStep, PTL DEF Spec
<1> QED
  BY <1>1, <1>2, PTL
-----------------------------------------------------------------------------
(* Completed *)

Settled(k) ==
  coordinatorPc[k] = "done" /\ \A i \in WorkerIds : ~Active(<<k, i>>)

(* A status that is Completed may be written back much later: the           *)
(* coordinator that completed it must still be over then.                   *)
SettledInv ==
  /\ \A k \in Coordinators : coordinatorPc[k] # "off" => owner[k] # Nobody
  /\ \A s \in Known : s.phase = "Completed" => \E k \in Coordinators : Settled(k)

LEMMA FreeIsFree ==
  ASSUME FreeCoordinators # {}
  PROVE  LET k == CHOOSE free \in FreeCoordinators : TRUE
         IN  k \in Coordinators /\ owner[k] = Nobody
BY DEF FreeCoordinators

LEMMA OwnedStep ==
  ASSUME TypeOK, SettledInv, Next
  PROVE  \A k \in Coordinators : coordinatorPc'[k] # "off" => owner'[k] # Nobody
<1>1. ASSUME NEW c \in Clients, ClientOnly(c)
      PROVE  UNCHANGED coordinatorVars
  BY <1>1, ClientOnlyMoves
<1>2. ASSUME NEW c \in Clients, StartUpdate(c)
      PROVE  \A k \in Coordinators : coordinatorPc'[k] # "off" => owner'[k] # Nobody
  <2>1. CASE UNCHANGED coordinatorVars
    BY <2>1 DEF coordinatorVars, SettledInv
  <2>2. CASE SpawnCoordinator(c, StartedStatus(copy[c]))
    <3>1. c # Nobody
      BY ServiceAssumption
    <3> QED
      BY <2>2, <3>1 DEF SpawnCoordinator, SettledInv, TypeOK
  <2> QED
    BY <1>2, <2>1, <2>2 DEF StartUpdate
<1>3. ASSUME NEW c \in Clients, Crash(c)
      PROVE  \A k \in Coordinators : coordinatorPc'[k] # "off" => owner'[k] # Nobody
  BY <1>3 DEF Crash, Victim, SettledInv, TypeOK
<1>4. ASSUME NEW x \in Workers, WorkerStep(x) PROVE UNCHANGED coordinatorVars
  BY <1>4 DEF WorkerStep, RestoreSegment, RestoreTopic, PartitionFails,
              TopicFails, WorkerFails, WorkerRead, WorkerUpdate
<1>5. ASSUME NEW k \in Coordinators, Finish(k)
      PROVE  \A l \in Coordinators : coordinatorPc'[l] # "off" => owner'[l] # Nobody
  BY <1>5 DEF Finish, SettledInv, TypeOK
<1>6. CASE UNCHANGED coordinatorVars
  BY <1>6 DEF coordinatorVars, SettledInv
<1>7. CASE UNCHANGED vars
  BY <1>6, <1>7 DEF vars
<1> QED
  BY <1>1, <1>2, <1>3, <1>4, <1>5, <1>6, <1>7, ClientCases, WorkerOf
  DEF Next, CoordinatorStep, Waiting

(* A worker that is not active never is again, unless its coordinator is    *)
(* started, once.                                                           *)
LEMMA SettledStays ==
  ASSUME TypeOK, SettledInv, Next, NEW k \in Coordinators, Settled(k)
  PROVE  Settled(k)'
<1>0. owner[k] # Nobody /\ coordinatorPc[k] = "done"
  BY DEF SettledInv, Settled
<1>1. ASSUME NEW i \in WorkerIds
      PROVE  <<k, i>> \in Workers /\ workerPc[<<k, i>>] \notin {"topic", "read", "update"}
  BY DEF Settled, Active, Workers
<1>2. ASSUME NEW c \in Clients, ClientOnly(c)
      PROVE  Settled(k)'
  <2>1. UNCHANGED <<coordinatorVars, workerVars>>
    BY <1>2, ClientOnlyMoves
  <2> QED
    BY <2>1 DEF coordinatorVars, workerVars, Settled, Active
<1>3. ASSUME NEW c \in Clients, StartUpdate(c)
      PROVE  Settled(k)'
  <2>1. CASE UNCHANGED <<status, calls, coordinatorVars, workerVars>>
    BY <2>1 DEF coordinatorVars, workerVars, Settled, Active
  <2>2. CASE FreeCoordinators # {} /\ SpawnCoordinator(c, StartedStatus(copy[c]))
    <3> DEFINE new == CHOOSE free \in FreeCoordinators : TRUE
    <3>1. new \in Coordinators /\ new # k
      BY <1>0, <2>2, FreeIsFree
    <3>2. coordinatorPc' = [coordinatorPc EXCEPT ![new] = "wait"]
      BY <2>2 DEF SpawnCoordinator
    <3>3. \A x \in Workers : x[1] # new => workerPc'[x] = workerPc[x]
      BY <2>2 DEF SpawnCoordinator
    <3> HIDE DEF new
    <3>4. ASSUME NEW i \in WorkerIds PROVE workerPc'[<<k, i>>] = workerPc[<<k, i>>]
      BY <1>1, <3>1, <3>3
    <3> QED
      BY <1>0, <1>1, <3>1, <3>2, <3>4 DEF Settled, Active, TypeOK
  <2> QED
    BY <1>3, <2>1, <2>2 DEF StartUpdate
<1>4. ASSUME NEW c \in Clients, Crash(c) PROVE Settled(k)'
  <2>1. coordinatorPc'[k] = "done"
    BY <1>0, <1>4 DEF Crash, Victim
  <2>2. ASSUME NEW i \in WorkerIds PROVE workerPc'[<<k, i>>] = workerPc[<<k, i>>]
    BY <1>0, <1>1, <1>4 DEF Crash, Victim
  <2> QED
    BY <1>1, <2>1, <2>2 DEF Settled, Active
<1>5. ASSUME NEW x \in Workers, WorkerStep(x) PROVE Settled(k)'
  <2>1. workerPc[x] \in {"topic", "read", "update"} /\ UNCHANGED coordinatorVars
    BY <1>5 DEF WorkerStep, RestoreSegment, RestoreTopic, PartitionFails,
                TopicFails, WorkerFails, WorkerRead, WorkerUpdate
  <2>2. \A y \in Workers \ {x} : workerPc'[y] = workerPc[y]
    BY <1>5
    DEF WorkerStep, RestoreSegment, RestoreTopic, PartitionFails, TopicFails,
        WorkerFails, WorkerRead, WorkerUpdate, Reported, WillReport, WorkerGoto,
        TypeOK
  <2> QED
    BY <1>0, <1>1, <2>1, <2>2 DEF Settled, Active, coordinatorVars
<1>6. ASSUME NEW l \in Coordinators, Finish(l) PROVE Settled(k)'
  <2>1. coordinatorPc'[k] = "done" /\ workerPc' = workerPc
    BY <1>0, <1>6 DEF Finish, workerVars, TypeOK
  <2> QED
    BY <1>1, <2>1 DEF Settled, Active
<1>7. CASE UNCHANGED vars
  BY <1>7 DEF vars, coordinatorVars, workerVars, Settled, Active
<1> QED
  BY <1>2, <1>3, <1>4, <1>5, <1>6, <1>7, ClientCases, WorkerOf
  DEF Next, CoordinatorStep, Waiting

LEMMA ReportedPhase ==
  ASSUME NEW x \in Workers, workerCopy[x] \in Status
  PROVE  ReportedStatus(x).phase = workerCopy[x].phase
BY DEF ReportedStatus, CountSegment, CompleteTopic, RecordError, Status

LEMMA SettledStep == TypeOK /\ SettledInv /\ [Next]_vars => SettledInv'
<1> SUFFICES ASSUME TypeOK, SettledInv, [Next]_vars PROVE SettledInv'
  OBVIOUS
<1>1. CASE UNCHANGED vars
  BY <1>1 DEF vars, clientVars, coordinatorVars, workerVars, SettledInv, Known,
              Settled, Active
<1>2. CASE Next
  <2>1. ASSUME NEW s \in Known, s.phase = "Completed"
        PROVE  \E k \in Coordinators : Settled(k)'
    BY <1>2, <2>1, SettledStays DEF SettledInv
  <2>2. ASSUME NEW r, NotNew(r), r.phase = "Completed"
        PROVE  \E k \in Coordinators : Settled(k)'
    BY <2>1, <2>2 DEF NotNew, ComesFrom
  <2>3. ASSUME HoldNothingNew,
               status'.phase = "Completed" => \E k \in Coordinators : Settled(k)'
        PROVE  SettledInv'
    <3>1. ASSUME NEW s \in Known', s.phase = "Completed"
          PROVE  \E k \in Coordinators : Settled(k)'
      <4>1. s = Fresh("Absent") => s.phase # "Completed"
        BY DEF Fresh
      <4> QED
        BY <2>2, <2>3, <3>1, <4>1, KnownNext
    <3> QED
      BY <1>2, <3>1, OwnedStep DEF SettledInv
  <2>4. ASSUME NEW c \in Clients, ClientStep(c) PROVE SettledInv'
    BY <2>2, <2>3, <2>4, ClientCases, HeldByClient
  <2>5. ASSUME NEW x \in Workers, WorkerStep(x) PROVE SettledInv'
    <3>1. status'.phase = "Completed" => \E k \in Coordinators : Settled(k)'
      <4>1. CASE NotNew(status')
        BY <2>2, <4>1
      <4>2. CASE status' = ReportedStatus(x)
        <5>1. status'.phase = workerCopy[x].phase /\ workerCopy[x] \in Known
          BY <4>2, ReportedPhase, KnownTypes DEF TypeOK
        <5> QED
          BY <2>1, <5>1
      <4> QED
        BY <2>5, <4>1, <4>2, HeldByWorker
    <3> QED
      BY <2>3, <2>5, <3>1, HeldByWorker
  <2>6. ASSUME NEW k \in Coordinators, Finish(k) PROVE SettledInv'
    <3>1. Settled(k)'
      BY <2>6 DEF Finish, WorkersDone, Settled, Active, TypeOK, workerVars
    <3> QED
      BY <2>3, <2>6, <3>1, HeldByCoordinator
  <2>7. CASE Waiting
    BY <1>1, <2>7 DEF Waiting
  <2> QED
    BY <1>2, <2>4, <2>5, <2>6, <2>7, WorkerOf DEF Next, CoordinatorStep
<1> QED
  BY <1>1, <1>2

LEMMA SettledInit == Init => SettledInv
<1> SUFFICES ASSUME Init PROVE SettledInv
  OBVIOUS
<1>1. \A k \in Coordinators : coordinatorPc[k] = "off"
  BY DEF Init
<1>2. Fresh("Absent").phase # "Completed"
  BY DEF Fresh
<1> QED
  BY <1>1, <1>2, KnownInit DEF SettledInv

(* A restore is Completed only when the workers of one of its starts have   *)
(* all returned, whichever outdated status is written over the other        *)
(* (StartRestore's goroutine, Coordinator.Start and its WaitGroup).         *)
THEOREM CompletedMeansOver == Spec => []CompletedIsOver
<1>1. TypeOK /\ SettledInv => CompletedIsOver
  BY KnownTypes DEF SettledInv, Settled, CompletedIsOver
<1> QED
  BY <1>1, TypeInit, TypeStep, SettledInit, SettledStep, PTL DEF Spec
-----------------------------------------------------------------------------
(* The slices again: they are disjoint, and leave no topic out *)

LEMMA DivRound ==
  ASSUME NEW n \in Nat, NEW w \in Nat \ {0}
  PROVE  LET q == (n + w - 1) \div w IN q \in Nat /\ n <= q * w
OBVIOUS

LEMMA DivFloor ==
  ASSUME NEW t \in Nat, NEW d \in Nat \ {0}
  PROVE  LET i == t \div d IN i \in Nat /\ i * d <= t /\ t < i * d + d
OBVIOUS

LEMMA Multiples ==
  ASSUME NEW i \in Nat, NEW j \in Nat, i < j, NEW d \in Nat
  PROVE  i * d + d <= j * d
OBVIOUS

LEMMA Below ==
  ASSUME NEW i \in Nat, NEW w \in Nat, NEW d \in Nat, NEW t \in Nat, NEW n \in Nat,
         i * d <= t, t < n, n <= d * w
  PROVE  i < w
OBVIOUS

LEMMA SlicesDisjoint ==
  ASSUME NEW i \in WorkerIds, NEW j \in WorkerIds, i < j
  PROVE  LastTopic(i) < FirstTopic(j)
<1>1. NumTopics \in Nat /\ NumWorkers \in Nat \ {0}
  BY ServiceAssumption
<1>2. TopicsPerWorker \in Nat
  BY <1>1, DivRound DEF TopicsPerWorker
<1>3. i \in Nat /\ j \in Nat
  BY <1>1 DEF WorkerIds
<1>4. /\ FirstTopic(i) \in Nat /\ FirstTopic(j) \in Nat
      /\ FirstTopic(i) + TopicsPerWorker <= FirstTopic(j)
  BY <1>2, <1>3, Slices, Multiples DEF FirstTopic
<1> HIDE DEF FirstTopic, TopicsPerWorker
<1> QED
  BY <1>1, <1>2, <1>4 DEF LastTopic

LEMMA SlicesCover ==
  ASSUME NEW t \in Topics
  PROVE  \E i \in WorkerIds : TopicsOf(i) # {} /\ t \in FirstTopic(i) .. LastTopic(i)
<1>1. /\ NumTopics \in Nat /\ NumWorkers \in Nat \ {0}
      /\ t \in Nat /\ t < NumTopics
  BY ServiceAssumption DEF Topics
<1>2. TopicsPerWorker \in Nat /\ NumTopics <= TopicsPerWorker * NumWorkers
  BY <1>1, DivRound DEF TopicsPerWorker
<1>3. TopicsPerWorker # 0
  BY <1>1, <1>2
<1> DEFINE i == t \div TopicsPerWorker
<1>4. /\ i \in Nat /\ i * TopicsPerWorker <= t
      /\ t < i * TopicsPerWorker + TopicsPerWorker
  BY <1>1, <1>2, <1>3, DivFloor
<1> HIDE DEF i
<1>5. i < NumWorkers
  BY <1>1, <1>2, <1>4, Below
<1>6. i \in WorkerIds
  BY <1>1, <1>4, <1>5 DEF WorkerIds
<1>7. FirstTopic(i) \in Nat /\ FirstTopic(i) <= t /\ t < FirstTopic(i) + TopicsPerWorker
  BY <1>4, <1>6, Slices DEF FirstTopic
<1>8. t \in FirstTopic(i) .. LastTopic(i)
  BY <1>1, <1>2, <1>7 DEF LastTopic
<1>9. TopicsOf(i) # {}
  BY <1>1, <1>7, <1>8 DEF TopicsOf, HasTopics
<1> QED
  BY <1>6, <1>8, <1>9

-----------------------------------------------------------------------------
(* What becomes of each topic *)

(* The topics that worker x has still to end. *)
Remaining(x) ==
  IF report[x] \in {"completed", "error"}
    THEN topic[x] + 1 .. LastTopic(x[2]) ELSE topic[x] .. LastTopic(x[2])

Diligent(x) ==
  Active(x) =>
    /\ FirstTopic(x[2]) <= topic[x] /\ topic[x] <= LastTopic(x[2])
    /\ workerPc[x] = "topic" <=> report[x] = "none"
    /\ \A t \in Remaining(x) : outcome[x[1]][t] = "none"
    /\ report[x] = "completed" => outcome[x[1]][topic[x]] = "restored"
    /\ report[x] = "error" => outcome[x[1]][topic[x]] = "failed"

(* Neither NoTopicForgotten nor ProgressIsEarned is inductive: a topic      *)
(* without an outcome has a worker that will come to it, and no other       *)
(* worker of the coordinator touches its outcome.                           *)
SliceInv ==
  /\ \A k \in Coordinators : owner[k] = Nobody =>
       /\ \A t \in Topics : outcome[k][t] = "none"
       /\ \A i \in WorkerIds : workerPc[<<k, i>>] = "off" /\ report[<<k, i>>] = "none"
  /\ \A x \in Workers : Diligent(x)
  /\ \A k \in Coordinators : coordinatorPc[k] = "wait" =>
       \A t \in Topics : outcome[k][t] = "none" =>
         \E i \in WorkerIds : Active(<<k, i>>) /\ t \in Remaining(<<k, i>>)
  /\ \A k \in Coordinators : coordinatorPc[k] = "done" =>
       \A t \in Topics : outcome[k][t] # "none"

LEMMA SliceInit == Init => SliceInv
<1> SUFFICES ASSUME Init PROVE SliceInv
  OBVIOUS
<1>1. /\ \A k \in Coordinators : coordinatorPc[k] = "off"
      /\ \A x \in Workers : workerPc[x] = "off" /\ report[x] = "none"
      /\ \A k \in Coordinators : \A t \in Topics : outcome[k][t] = "none"
  BY DEF Init
<1>2. \A x \in Workers : Diligent(x)
  BY <1>1 DEF Diligent, Active
<1> QED
  BY <1>1, <1>2, WorkerOf DEF SliceInv

LEMMA Pairs ==
  ASSUME NEW x \in Workers
  PROVE  x[1] \in Coordinators /\ x[2] \in WorkerIds /\ x = <<x[1], x[2]>>
BY DEF Workers

LEMMA RemainingAreTopics ==
  ASSUME TypeOK, NEW x \in Workers, Active(x), Diligent(x)
  PROVE  /\ topic[x] \in Topics
         /\ Remaining(x) \subseteq topic[x] .. LastTopic(x[2])
         /\ topic[x] .. LastTopic(x[2]) \subseteq Topics
<1>1. x[2] \in WorkerIds
  BY Pairs
<1>2. /\ topic[x] \in Nat /\ LastTopic(x[2]) \in Int
      /\ topic[x] <= LastTopic(x[2]) /\ LastTopic(x[2]) <= NumTopics - 1
      /\ NumTopics \in Nat
  BY <1>1, Slices, ServiceAssumption DEF TypeOK, Topics, Diligent
<1> QED
  BY <1>2 DEF Remaining, Topics

(* One worker moves: it gives an outcome to some of the topics it has still *)
(* to end, and the others remain with it.                                   *)
LEMMA OneWorkerMoves ==
  ASSUME TypeOK, SliceInv, NEW x \in Workers, Active(x), NEW ended,
         ended \subseteq Remaining(x),
         UNCHANGED coordinatorVars,
         \A y \in Workers \ {x} : /\ workerPc'[y] = workerPc[y]
                                  /\ topic'[y] = topic[y]
                                  /\ report'[y] = report[y],
         \A k \in Coordinators : \A t \in Topics :
           k # x[1] \/ t \notin ended => outcome'[k][t] = outcome[k][t],
         \A t \in ended : outcome'[x[1]][t] # "none",
         Diligent(x)',
         \A t \in Remaining(x) \ ended : Active(x)' /\ t \in Remaining(x)'
  PROVE  SliceInv'
<1>0. x[1] \in Coordinators /\ x[2] \in WorkerIds /\ x = <<x[1], x[2]>> /\ Diligent(x)
  BY Pairs DEF SliceInv
<1>1. owner[x[1]] # Nobody
  BY <1>0 DEF SliceInv, Active
<1>2. ASSUME NEW k \in Coordinators, owner'[k] = Nobody
      PROVE  /\ \A t \in Topics : outcome'[k][t] = "none"
             /\ \A i \in WorkerIds : workerPc'[<<k, i>>] = "off" /\ report'[<<k, i>>] = "none"
  <2>1. owner[k] = Nobody /\ k # x[1]
    BY <1>1, <1>2 DEF coordinatorVars
  <2>2. \A i \in WorkerIds : <<k, i>> \in Workers \ {x}
    BY <1>0, <2>1, WorkerOf
  <2> QED
    BY <2>1, <2>2 DEF SliceInv
<1>3. ASSUME NEW y \in Workers PROVE Diligent(y)'
  <2>1. CASE y = x
    BY <2>1
  <2>2. CASE y # x /\ Active(y)
    <3>1. y[1] \in Coordinators /\ y[2] \in WorkerIds /\ y = <<y[1], y[2]>> /\ Diligent(y)
      BY Pairs DEF SliceInv
    <3>2. y[1] = x[1] => y[2] # x[2]
      BY <1>0, <2>2, <3>1
    <3>3. /\ FirstTopic(x[2]) \in Nat /\ LastTopic(x[2]) \in Int
          /\ FirstTopic(y[2]) \in Nat /\ LastTopic(y[2]) \in Int
      BY <1>0, <3>1, Slices
    <3>4. x[2] \in Int /\ y[2] \in Int
      BY <1>0, <3>1, ServiceAssumption DEF WorkerIds
    <3>5. /\ FirstTopic(x[2]) <= topic[x] /\ topic[x] \in Int
          /\ FirstTopic(y[2]) <= topic[y] /\ topic[y] \in Int
      <4>1. topic[x] \in Topics /\ topic[y] \in Topics
        BY <1>0, <2>2, <3>1, RemainingAreTopics
      <4> QED
        BY <1>0, <2>2, <3>1, <4>1, ServiceAssumption DEF Diligent, Topics
    <3>6. ASSUME NEW t \in topic[y] .. LastTopic(y[2]), y[1] = x[1]
          PROVE  t \notin topic[x] .. LastTopic(x[2])
      <4>1. CASE x[2] < y[2]
        BY <1>0, <3>1, <3>3, <3>5, <4>1, SlicesDisjoint
      <4>2. CASE y[2] < x[2]
        BY <1>0, <3>1, <3>3, <3>5, <4>2, SlicesDisjoint
      <4> QED
        BY <3>2, <3>4, <3>6, <4>1, <4>2
    <3>7. ASSUME NEW t \in topic[y] .. LastTopic(y[2])
          PROVE  outcome'[y[1]][t] = outcome[y[1]][t]
      <4>1. t \in Topics /\ Remaining(x) \subseteq topic[x] .. LastTopic(x[2])
        BY <1>0, <2>2, <3>1, RemainingAreTopics
      <4>2. y[1] # x[1] \/ t \notin ended
        BY <3>6, <4>1
      <4> QED
        BY <3>1, <4>1, <4>2
    <3>8. /\ workerPc'[y] = workerPc[y] /\ topic'[y] = topic[y] /\ report'[y] = report[y]
      BY <2>2
    <3>9. topic[y] \in topic[y] .. LastTopic(y[2])
      BY <2>2, <3>1, <3>3, <3>5 DEF Diligent
    <3>10. Remaining(y)' = Remaining(y) /\ Remaining(y) \subseteq topic[y] .. LastTopic(y[2])
      BY <2>2, <3>1, <3>8, RemainingAreTopics DEF Remaining
    <3> QED
      BY <2>2, <3>1, <3>7, <3>8, <3>9, <3>10 DEF Diligent, Active
  <2>3. CASE y # x /\ ~Active(y)
    BY <2>3 DEF Diligent, Active
  <2> QED
    BY <2>1, <2>2, <2>3
<1>4. ASSUME NEW k \in Coordinators, coordinatorPc'[k] = "wait",
             NEW t \in Topics, outcome'[k][t] = "none"
      PROVE  \E i \in WorkerIds : Active(<<k, i>>)' /\ t \in Remaining(<<k, i>>)'
  <2>1. ~(k = x[1] /\ t \in ended)
    BY <1>4
  <2>2. outcome[k][t] = "none" /\ coordinatorPc[k] = "wait"
    BY <1>4, <2>1 DEF coordinatorVars
  <2>3. PICK i \in WorkerIds : Active(<<k, i>>) /\ t \in Remaining(<<k, i>>)
    BY <2>2 DEF SliceInv
  <2>4. CASE <<k, i>> = x
    <3>1. k = x[1]
      BY <1>0, <2>4
    <3> QED
      BY <2>1, <2>3, <2>4, <3>1
  <2>5. CASE <<k, i>> # x
    <3>1. <<k, i>> \in Workers \ {x}
      BY <2>5, WorkerOf
    <3>2. Active(<<k, i>>)' /\ Remaining(<<k, i>>)' = Remaining(<<k, i>>)
      BY <2>3, <3>1 DEF Active, Remaining
    <3> QED
      BY <2>3, <3>2
  <2> QED
    BY <2>4, <2>5
<1>5. ASSUME NEW k \in Coordinators, coordinatorPc'[k] = "done", NEW t \in Topics
      PROVE  outcome'[k][t] # "none"
  <2>1. outcome[k][t] # "none"
    BY <1>5 DEF coordinatorVars, SliceInv
  <2>2. CASE k = x[1] /\ t \in ended
    BY <2>2
  <2>3. CASE k # x[1] \/ t \notin ended
    BY <2>1, <2>3
  <2> QED
    BY <2>2, <2>3
<1> QED
  BY <1>2, <1>3, <1>4, <1>5 DEF SliceInv
LEMMA OthersStay ==
  ASSUME TypeOK, NEW x \in Workers, WorkerStep(x)
  PROVE  /\ Active(x) /\ UNCHANGED coordinatorVars
         /\ \A y \in Workers \ {x} : /\ workerPc'[y] = workerPc[y]
                                     /\ topic'[y] = topic[y]
                                     /\ report'[y] = report[y]
<1>1. Active(x) /\ UNCHANGED coordinatorVars
  BY DEF WorkerStep, RestoreSegment, RestoreTopic, PartitionFails, TopicFails,
         WorkerFails, WorkerRead, WorkerUpdate, Active
<1>2. ASSUME NEW y \in Workers \ {x}
      PROVE  /\ workerPc'[y] = workerPc[y] /\ topic'[y] = topic[y]
             /\ report'[y] = report[y]
  <2>1. CASE \/ RestoreSegment(x) \/ RestoreTopic(x) \/ PartitionFails(x)
             \/ TopicFails(x) \/ WorkerFails(x)
    BY <2>1 DEF RestoreSegment, RestoreTopic, PartitionFails, TopicFails,
                WorkerFails, WillReport, WorkerGoto, TypeOK
  <2>2. CASE WorkerRead(x) \/ WorkerUpdate(x)
    BY <2>2 DEF WorkerRead, WorkerUpdate, Reported, WorkerGoto, TypeOK
  <2> QED
    BY <2>1, <2>2 DEF WorkerStep
<1> QED
  BY <1>1, <1>2

(* No topic ends: those that remained with the worker still do. *)
LEMMA NoTopicEnds ==
  ASSUME TypeOK, SliceInv, NEW x \in Workers, WorkerStep(x),
         outcome' = outcome, Diligent(x)',
         \A t \in Remaining(x) : Active(x)' /\ t \in Remaining(x)'
  PROVE  SliceInv'
<1>1. PICK none : none = {}
  OBVIOUS
<1>2. none \subseteq Remaining(x)
  BY <1>1
<1>3. \A t \in none : outcome'[x[1]][t] # "none"
  BY <1>1
<1>4. \A k \in Coordinators : \A t \in Topics :
        k # x[1] \/ t \notin none => outcome'[k][t] = outcome[k][t]
  OBVIOUS
<1>5. \A t \in Remaining(x) \ none : Active(x)' /\ t \in Remaining(x)'
  OBVIOUS
<1> QED
  BY <1>2, <1>3, <1>4, <1>5, OthersStay, OneWorkerMoves

(* A segment, the end of a partition and the reading of the status: no topic *)
(* ends.                                                                    *)
LEMMA SliceSame ==
  ASSUME TypeOK, SliceInv, NEW x \in Workers, WorkerStep(x),
         outcome' = outcome, topic'[x] = topic[x], Active(x)',
         \/ report'[x] = report[x] /\ (workerPc'[x] = "topic" <=> workerPc[x] = "topic")
         \/ /\ report[x] = "none" /\ workerPc'[x] # "topic"
            /\ report'[x] \in {"count", "partition"}
         \/ /\ report[x] \in {"count", "partition"}
            /\ report'[x] = "none" /\ workerPc'[x] = "topic"
  PROVE  SliceInv'
<1>1. Remaining(x)' = Remaining(x)
  BY DEF Remaining
<1>2. Diligent(x) /\ Active(x)
  BY OthersStay DEF SliceInv
<1>3. Diligent(x)'
  BY <1>1, <1>2 DEF Diligent
<1> QED
  BY <1>1, <1>3, NoTopicEnds

LEMMA SliceReported ==
  ASSUME TypeOK, SliceInv, NEW x \in Workers, WorkerRead(x) \/ WorkerUpdate(x),
         Reported(x)
  PROVE  SliceInv'
<1>1. WorkerStep(x) /\ outcome' = outcome /\ workerPc[x] \in {"read", "update"}
  BY DEF WorkerStep, WorkerRead, WorkerUpdate
<1>2. report'[x] = "none" /\ report[x] \in ReportKind
  BY DEF Reported, TypeOK, ReportKind
<1>3. Diligent(x) /\ Active(x) /\ report[x] # "none"
  BY <1>1, <1>2, OthersStay DEF SliceInv, Diligent
<1>4. CASE report[x] \in {"count", "partition"}
  <2>1. workerPc'[x] = "topic" /\ topic' = topic
    BY <1>4 DEF Reported, WorkerGoto, TypeOK
  <2>2. Active(x)'
    BY <2>1 DEF Active
  <2> QED
    BY <1>1, <1>2, <1>4, <2>1, <2>2, SliceSame
<1>5. CASE report[x] \notin {"count", "partition"}
  <2>1. Remaining(x) = topic[x] + 1 .. LastTopic(x[2])
    BY <1>2, <1>3, <1>5 DEF Remaining, ReportKind
  <2>2. /\ topic[x] \in Int /\ LastTopic(x[2]) \in Int /\ FirstTopic(x[2]) \in Int
        /\ FirstTopic(x[2]) <= topic[x] /\ topic[x] <= LastTopic(x[2])
    <3>1. x[2] \in WorkerIds /\ topic[x] \in Topics
      BY <1>3, Pairs, RemainingAreTopics
    <3> QED
      BY <1>3, <3>1, Slices DEF Diligent, Topics
  <2>3. CASE topic[x] < LastTopic(x[2])
    <3>1. workerPc'[x] = "topic" /\ topic'[x] = topic[x] + 1
      BY <1>5, <2>3 DEF Reported, WorkerGoto, TypeOK
    <3>2. Active(x)' /\ Remaining(x)' = Remaining(x)
      BY <1>2, <2>1, <3>1 DEF Active, Remaining
    <3>3. FirstTopic(x[2]) <= topic'[x] /\ topic'[x] <= LastTopic(x[2])
      BY <2>2, <2>3, <3>1
    <3>4. Diligent(x)'
      BY <1>1, <1>2, <1>3, <3>1, <3>2, <3>3 DEF Diligent
    <3> QED
      BY <1>1, <3>2, <3>4, NoTopicEnds
  <2>4. CASE ~(topic[x] < LastTopic(x[2]))
    <3>1. workerPc'[x] = "done"
      BY <1>5, <2>4 DEF Reported, WorkerGoto, TypeOK
    <3>2. Diligent(x)'
      BY <3>1 DEF Diligent, Active
    <3>3. Remaining(x) = {}
      BY <2>1, <2>2, <2>4
    <3> QED
      BY <1>1, <3>2, <3>3, NoTopicEnds
  <2> QED
    BY <2>3, <2>4
<1> QED
  BY <1>4, <1>5

LEMMA SliceEnded ==
  ASSUME TypeOK, SliceInv, NEW x \in Workers, RestoreTopic(x) \/ TopicFails(x)
  PROVE  SliceInv'
<1>1. WorkerStep(x) /\ workerPc[x] = "topic"
  BY DEF WorkerStep, RestoreTopic, TopicFails
<1>2. Diligent(x) /\ Active(x) /\ report[x] = "none"
  BY <1>1, OthersStay DEF SliceInv, Diligent
<1>3. /\ x[1] \in Coordinators /\ x[2] \in WorkerIds /\ topic[x] \in Topics
      /\ topic[x] .. LastTopic(x[2]) \subseteq Topics
  BY <1>2, Pairs, RemainingAreTopics
<1>4. /\ topic[x] \in Int /\ LastTopic(x[2]) \in Int
      /\ FirstTopic(x[2]) <= topic[x] /\ topic[x] <= LastTopic(x[2])
  BY <1>2, <1>3, Slices DEF Diligent, Topics
<1>5. Remaining(x) = topic[x] .. LastTopic(x[2])
  BY <1>2 DEF Remaining
<1>6. /\ workerPc'[x] = "read" /\ topic'[x] = topic[x]
      /\ \/ report'[x] = "completed" /\ outcome'[x[1]][topic[x]] = "restored"
         \/ report'[x] = "error" /\ outcome'[x[1]][topic[x]] = "failed"
  BY <1>3 DEF RestoreTopic, TopicFails, Ended, WillReport, WorkerGoto, TypeOK
<1>7. ASSUME NEW k \in Coordinators, NEW t \in Topics, k # x[1] \/ t \notin {topic[x]}
      PROVE  outcome'[k][t] = outcome[k][t]
  BY <1>3, <1>7 DEF RestoreTopic, TopicFails, Ended, TypeOK
<1>8. Active(x)' /\ Remaining(x)' = topic[x] + 1 .. LastTopic(x[2])
  BY <1>6 DEF Active, Remaining
<1>9. ASSUME NEW t \in topic[x] + 1 .. LastTopic(x[2])
      PROVE  t \in Remaining(x) /\ t # topic[x] /\ t \in Topics
  BY <1>3, <1>4, <1>5
<1>10. \A t \in Remaining(x)' : outcome'[x[1]][t] = "none"
  BY <1>2, <1>3, <1>7, <1>8, <1>9 DEF Diligent
<1>11. Diligent(x)'
  BY <1>4, <1>6, <1>8, <1>10 DEF Diligent
<1>12. /\ {topic[x]} \subseteq Remaining(x)
       /\ \A t \in Remaining(x) \ {topic[x]} : Active(x)' /\ t \in Remaining(x)'
  BY <1>4, <1>5, <1>8
<1>13. PICK ended : ended = {topic[x]}
  OBVIOUS
<1>14. \A t \in ended : outcome'[x[1]][t] # "none"
  BY <1>6, <1>13
<1>15. \A k \in Coordinators : \A t \in Topics :
         k # x[1] \/ t \notin ended => outcome'[k][t] = outcome[k][t]
  BY <1>7, <1>13
<1>16. /\ ended \subseteq Remaining(x)
       /\ \A t \in Remaining(x) \ ended : Active(x)' /\ t \in Remaining(x)'
  BY <1>12, <1>13
<1> QED
  BY <1>1, <1>2, <1>11, <1>14, <1>15, <1>16, OthersStay, OneWorkerMoves

LEMMA SliceGivenUp ==
  ASSUME TypeOK, SliceInv, NEW x \in Workers, WorkerFails(x)
  PROVE  SliceInv'
<1>1. WorkerStep(x) /\ workerPc[x] = "topic"
  BY DEF WorkerStep, WorkerFails
<1>2. Diligent(x) /\ Active(x) /\ report[x] = "none"
  BY <1>1, OthersStay DEF SliceInv, Diligent
<1>3. x[1] \in Coordinators /\ topic[x] .. LastTopic(x[2]) \subseteq Topics
  BY <1>2, Pairs, RemainingAreTopics
<1>4. Remaining(x) = topic[x] .. LastTopic(x[2])
  BY <1>2 DEF Remaining
<1>5. ASSUME NEW k \in Coordinators, NEW t \in Topics, k # x[1] \/ t \notin Remaining(x)
      PROVE  outcome'[k][t] = outcome[k][t]
  BY <1>3, <1>4, <1>5 DEF WorkerFails, TypeOK
<1>6. \A t \in Remaining(x) : outcome'[x[1]][t] # "none"
  BY <1>3, <1>4 DEF WorkerFails, TypeOK
<1>7. Diligent(x)'
  BY DEF WorkerFails, WorkerGoto, TypeOK, Diligent, Active
<1>8. \A t \in Remaining(x) \ Remaining(x) : Active(x)' /\ t \in Remaining(x)'
  OBVIOUS
<1> QED
  BY <1>1, <1>2, <1>5, <1>6, <1>7, <1>8, OthersStay, OneWorkerMoves

LEMMA SliceWorker ==
  ASSUME TypeOK, SliceInv, NEW x \in Workers, WorkerStep(x)
  PROVE  SliceInv'
<1>1. CASE RestoreSegment(x) \/ PartitionFails(x)
  <2>1. /\ outcome' = outcome /\ topic' = topic
        /\ workerPc[x] = "topic" /\ workerPc'[x] = "read"
        /\ report'[x] \in {"count", "partition"}
    BY <1>1 DEF RestoreSegment, PartitionFails, WillReport, WorkerGoto, TypeOK
  <2>2. report[x] = "none" /\ Active(x)'
    BY <2>1, OthersStay DEF SliceInv, Diligent, Active
  <2> QED
    BY <2>1, <2>2, SliceSame
<1>2. CASE WorkerRead(x) /\ ~Reported(x)
  <2>1. /\ outcome' = outcome /\ topic' = topic /\ report' = report
        /\ workerPc[x] = "read" /\ workerPc'[x] = "update"
    BY <1>2 DEF WorkerRead, WorkerGoto, TypeOK
  <2>2. Active(x)'
    BY <2>1 DEF Active
  <2> QED
    BY <2>1, <2>2, SliceSame
<1>3. CASE (WorkerRead(x) /\ Reported(x)) \/ WorkerUpdate(x)
  <2>1. Reported(x)
    BY <1>3 DEF WorkerUpdate
  <2> QED
    BY <1>3, <2>1, SliceReported
<1> QED
  BY <1>1, <1>2, <1>3, SliceEnded, SliceGivenUp DEF WorkerStep

LEMMA SliceUnchanged ==
  ASSUME SliceInv, UNCHANGED <<coordinatorVars, workerVars>>
  PROVE  SliceInv'
<1>1. UNCHANGED <<owner, coordinatorPc, workerPc, report, topic, outcome>>
  BY DEF coordinatorVars, workerVars
<1>2. \A x : Diligent(x) = Diligent(x)' /\ Active(x) = Active(x)' /\ Remaining(x) = Remaining(x)'
  BY <1>1 DEF Diligent, Active, Remaining
<1> QED
  BY <1>1, <1>2 DEF SliceInv

LEMMA SliceFinish ==
  ASSUME TypeOK, SliceInv, NEW k \in Coordinators, Finish(k)
  PROVE  SliceInv'
<1>1. /\ UNCHANGED <<owner, workerPc, report, topic, outcome>>
      /\ coordinatorPc[k] = "wait"
      /\ coordinatorPc' = [coordinatorPc EXCEPT ![k] = "done"]
  BY DEF Finish, workerVars
<1>2. \A x : Diligent(x)' = Diligent(x) /\ Active(x)' = Active(x) /\ Remaining(x)' = Remaining(x)
  BY <1>1 DEF Diligent, Active, Remaining
<1>3. \A t \in Topics : outcome[k][t] # "none"
  BY <1>1 DEF Finish, WorkersDone, SliceInv
<1>4. ASSUME NEW l \in Coordinators, l # k PROVE coordinatorPc'[l] = coordinatorPc[l]
  BY <1>1, <1>4 DEF TypeOK
<1>5. coordinatorPc'[k] = "done"
  BY <1>1 DEF TypeOK
<1> QED
  BY <1>1, <1>2, <1>3, <1>4, <1>5 DEF SliceInv

LEMMA SliceCrash ==
  ASSUME TypeOK, SliceInv, NEW c \in Clients, Crash(c)
  PROVE  SliceInv'
<1>1. UNCHANGED <<owner, topic, outcome>>
  BY DEF Crash
<1>2. ASSUME NEW k \in Coordinators, Victim(c, k)
      PROVE  /\ coordinatorPc'[k] = "dead" /\ owner[k] # Nobody
             /\ \A i \in WorkerIds : workerPc'[<<k, i>>] = "dead"
  BY <1>2, WorkerOf, ServiceAssumption DEF Crash, Victim
<1>3. ASSUME NEW k \in Coordinators, ~Victim(c, k)
      PROVE  /\ coordinatorPc'[k] = coordinatorPc[k]
             /\ \A i \in WorkerIds : /\ workerPc'[<<k, i>>] = workerPc[<<k, i>>]
                                     /\ report'[<<k, i>>] = report[<<k, i>>]
  BY <1>3, WorkerOf DEF Crash
<1>4. ASSUME NEW k \in Coordinators, NEW i \in WorkerIds
      PROVE  /\ Diligent(<<k, i>>)'
             /\ ~Victim(c, k) =>
                  /\ Active(<<k, i>>)' = Active(<<k, i>>)
                  /\ Remaining(<<k, i>>)' = Remaining(<<k, i>>)
  <2>1. CASE Victim(c, k)
    BY <1>2, <2>1 DEF Diligent, Active
  <2>2. CASE ~Victim(c, k)
    <3>1. Diligent(<<k, i>>)
      BY WorkerOf DEF SliceInv
    <3>2. workerPc'[<<k, i>>] = workerPc[<<k, i>>] /\ report'[<<k, i>>] = report[<<k, i>>]
      BY <1>3, <2>2
    <3> QED
      BY <1>1, <3>1, <3>2 DEF Diligent, Active, Remaining
  <2> QED
    BY <2>1, <2>2
<1>5. \A x \in Workers : Diligent(x)'
  BY <1>4, Pairs
<1>6. ASSUME NEW k \in Coordinators, owner'[k] = Nobody
      PROVE  /\ \A t \in Topics : outcome'[k][t] = "none"
             /\ \A i \in WorkerIds : workerPc'[<<k, i>>] = "off" /\ report'[<<k, i>>] = "none"
  <2>1. ~Victim(c, k)
    BY <1>1, <1>2, <1>6
  <2> QED
    BY <1>1, <1>3, <1>6, <2>1 DEF SliceInv
<1>7. ASSUME NEW k \in Coordinators, coordinatorPc'[k] \in {"wait", "done"}
      PROVE  ~Victim(c, k) /\ coordinatorPc'[k] = coordinatorPc[k]
  BY <1>2, <1>3, <1>7
<1>8. ASSUME NEW k \in Coordinators, coordinatorPc'[k] = "wait",
             NEW t \in Topics, outcome'[k][t] = "none"
      PROVE  \E i \in WorkerIds : Active(<<k, i>>)' /\ t \in Remaining(<<k, i>>)'
  BY <1>1, <1>4, <1>7, <1>8 DEF SliceInv
<1>9. ASSUME NEW k \in Coordinators, coordinatorPc'[k] = "done", NEW t \in Topics
      PROVE  outcome'[k][t] # "none"
  BY <1>1, <1>7, <1>9 DEF SliceInv
<1> QED
  BY <1>5, <1>6, <1>8, <1>9 DEF SliceInv

LEMMA SliceSpawn ==
  ASSUME TypeOK, SliceInv, NEW c \in Clients, NEW s, FreeCoordinators # {},
         SpawnCoordinator(c, s)
  PROVE  SliceInv'
<1>1. PICK new \in Coordinators :
        /\ owner[new] = Nobody
        /\ owner' = [owner EXCEPT ![new] = c]
        /\ coordinatorPc' = [coordinatorPc EXCEPT ![new] = "wait"]
        /\ \A x \in Workers : x[1] # new =>
             workerPc'[x] = workerPc[x] /\ topic'[x] = topic[x]
        /\ \A x \in Workers : x[1] = new =>
             IF TopicsOf(x[2]) # {}
               THEN workerPc'[x] = "topic" /\ topic'[x] = FirstTopic(x[2])
               ELSE workerPc'[x] = workerPc[x] /\ topic'[x] = topic[x]
  BY FreeIsFree DEF SpawnCoordinator
<1>2. report' = report /\ outcome' = outcome
  BY DEF SpawnCoordinator
<1>3. /\ owner'[new] = c /\ c # Nobody /\ coordinatorPc'[new] = "wait"
      /\ \A k \in Coordinators \ {new} :
           owner'[k] = owner[k] /\ coordinatorPc'[k] = coordinatorPc[k]
  BY <1>1, ServiceAssumption DEF TypeOK
<1>4. ASSUME NEW i \in WorkerIds, TopicsOf(i) # {}
      PROVE  FirstTopic(i) <= LastTopic(i) /\ FirstTopic(i) .. LastTopic(i) \subseteq Topics
  <2>1. /\ FirstTopic(i) \in Nat /\ LastTopic(i) \in Int
        /\ LastTopic(i) <= NumTopics - 1 /\ NumTopics \in Nat
    BY Slices, ServiceAssumption
  <2>2. \E t : t \in FirstTopic(i) .. LastTopic(i)
    BY <1>4 DEF TopicsOf
  <2> QED
    BY <2>1, <2>2 DEF Topics
<1>5. ASSUME NEW k \in Coordinators \ {new}, NEW i \in WorkerIds
      PROVE  /\ Diligent(<<k, i>>)'
             /\ Active(<<k, i>>)' = Active(<<k, i>>)
             /\ Remaining(<<k, i>>)' = Remaining(<<k, i>>)
             /\ workerPc'[<<k, i>>] = workerPc[<<k, i>>]
  <2>1. Diligent(<<k, i>>)
    BY WorkerOf DEF SliceInv
  <2>2. workerPc'[<<k, i>>] = workerPc[<<k, i>>] /\ topic'[<<k, i>>] = topic[<<k, i>>]
    BY <1>1, WorkerOf
  <2> QED
    BY <1>2, <2>1, <2>2 DEF Diligent, Active, Remaining
<1>6. ASSUME NEW i \in WorkerIds
      PROVE  /\ report'[<<new, i>>] = "none"
             /\ TopicsOf(i) # {} =>
                  /\ Active(<<new, i>>)'
                  /\ Remaining(<<new, i>>)' = FirstTopic(i) .. LastTopic(i)
                  /\ workerPc'[<<new, i>>] = "topic" /\ topic'[<<new, i>>] = FirstTopic(i)
             /\ TopicsOf(i) = {} => ~Active(<<new, i>>)'
  <2>1. workerPc[<<new, i>>] = "off" /\ report[<<new, i>>] = "none"
    BY <1>1 DEF SliceInv
  <2>2. <<new, i>> \in Workers /\ <<new, i>>[1] = new /\ <<new, i>>[2] = i
    BY WorkerOf
  <2>3. IF TopicsOf(i) # {}
          THEN workerPc'[<<new, i>>] = "topic" /\ topic'[<<new, i>>] = FirstTopic(i)
          ELSE workerPc'[<<new, i>>] = workerPc[<<new, i>>]
    BY <1>1, <2>2
  <2> QED
    BY <1>2, <2>1, <2>3 DEF Active, Remaining
<1>7. \A t \in Topics : outcome'[new][t] = "none"
  BY <1>1, <1>2 DEF SliceInv
<1>8. ASSUME NEW i \in WorkerIds PROVE Diligent(<<new, i>>)'
  <2>1. CASE TopicsOf(i) = {}
    BY <1>6, <2>1 DEF Diligent
  <2>2. CASE TopicsOf(i) # {}
    <3>1. FirstTopic(i) <= FirstTopic(i)
      BY Slices
    <3> QED
      BY <1>4, <1>6, <1>7, <2>2, <3>1 DEF Diligent
  <2> QED
    BY <2>1, <2>2
<1>9. ASSUME NEW x \in Workers PROVE Diligent(x)'
  <2>1. CASE x[1] = new
    BY <1>8, <2>1, Pairs
  <2>2. CASE x[1] # new
    BY <1>5, <2>2, Pairs
  <2> QED
    BY <2>1, <2>2
<1>10. ASSUME NEW k \in Coordinators, owner'[k] = Nobody
       PROVE  /\ \A t \in Topics : outcome'[k][t] = "none"
              /\ \A i \in WorkerIds : workerPc'[<<k, i>>] = "off" /\ report'[<<k, i>>] = "none"
  <2>1. k \in Coordinators \ {new} /\ owner[k] = Nobody
    BY <1>3, <1>10
  <2> QED
    BY <1>2, <1>5, <2>1 DEF SliceInv
<1>11. ASSUME NEW k \in Coordinators, coordinatorPc'[k] = "wait",
              NEW t \in Topics, outcome'[k][t] = "none"
       PROVE  \E i \in WorkerIds : Active(<<k, i>>)' /\ t \in Remaining(<<k, i>>)'
  <2>1. CASE k = new
    BY <1>6, <2>1, SlicesCover
  <2>2. CASE k # new
    <3>1. coordinatorPc[k] = "wait" /\ outcome[k][t] = "none"
      BY <1>2, <1>3, <1>11, <2>2
    <3>2. PICK i \in WorkerIds : Active(<<k, i>>) /\ t \in Remaining(<<k, i>>)
      BY <3>1 DEF SliceInv
    <3> QED
      BY <1>5, <2>2, <3>2
  <2> QED
    BY <2>1, <2>2
<1>12. ASSUME NEW k \in Coordinators, coordinatorPc'[k] = "done", NEW t \in Topics
       PROVE  outcome'[k][t] # "none"
  BY <1>2, <1>3, <1>12 DEF SliceInv
<1> QED
  BY <1>9, <1>10, <1>11, <1>12 DEF SliceInv

LEMMA SliceStep == TypeOK /\ SliceInv /\ [Next]_vars => SliceInv'
<1> SUFFICES ASSUME TypeOK, SliceInv, [Next]_vars PROVE SliceInv'
  OBVIOUS
<1>1. ASSUME NEW c \in Clients, ClientStep(c) PROVE SliceInv'
  <2>1. CASE ClientOnly(c)
    BY <2>1, ClientOnlyMoves, SliceUnchanged
  <2>2. CASE StartUpdate(c)
    BY <2>2, SliceSpawn, SliceUnchanged DEF StartUpdate
  <2> QED
    BY <1>1, <2>1, <2>2, SliceCrash, ClientCases
<1>2. ASSUME NEW k \in Coordinators, CoordinatorStep(k) PROVE SliceInv'
  BY <1>2, SliceFinish, SliceWorker, WorkerOf DEF CoordinatorStep
<1>3. CASE UNCHANGED vars
  <2>1. UNCHANGED <<coordinatorVars, workerVars>>
    BY <1>3 DEF vars
  <2> QED
    BY <2>1, SliceUnchanged
<1> QED
  BY <1>1, <1>2, <1>3 DEF Next, Waiting

(* The slices of the coordinator leave no topic out, for any number of      *)
(* topics and workers: when the coordinator is done, each topic has been    *)
(* restored or has failed (Coordinator.Start, Worker.Start).                *)
THEOREM EveryTopicEnds == Spec => []NoTopicForgotten
<1>1. SliceInv => NoTopicForgotten
  BY DEF SliceInv, NoTopicForgotten
<1> QED
  BY <1>1, TypeInit, TypeStep, SliceInit, SliceStep, PTL DEF Spec
-----------------------------------------------------------------------------
(* Progress *)

(* What became of a topic is never changed: each outcome has one worker.    *)
LEMMA OutcomesStay ==
  ASSUME TypeOK, SliceInv, Next, NEW k \in Coordinators, NEW t \in Topics,
         outcome[k][t] # "none"
  PROVE  outcome'[k][t] = outcome[k][t]
<1>1. ASSUME NEW c \in Clients, ClientStep(c) PROVE outcome' = outcome
  BY <1>1, ClientCases, ClientOnlyMoves
  DEF StartUpdate, SpawnCoordinator, Crash, workerVars
<1>2. ASSUME NEW l \in Coordinators, Finish(l) PROVE outcome' = outcome
  BY <1>2 DEF Finish, workerVars
<1>3. ASSUME NEW x \in Workers, WorkerStep(x) PROVE outcome'[k][t] = outcome[k][t]
  <2>1. CASE RestoreTopic(x) \/ TopicFails(x) \/ WorkerFails(x)
    <3>1. workerPc[x] = "topic" /\ Diligent(x) /\ Active(x) /\ report[x] = "none"
      BY <2>1 DEF RestoreTopic, TopicFails, WorkerFails, SliceInv, Active, Diligent
    <3>2. Remaining(x) = topic[x] .. LastTopic(x[2])
      BY <3>1 DEF Remaining
    <3>3. topic[x] \in Remaining(x)
      <4>1. x[2] \in WorkerIds /\ topic[x] \in Topics
        BY <3>1, Pairs, RemainingAreTopics
      <4> QED
        BY <3>1, <3>2, <4>1, Slices DEF Diligent, Topics
    <3>4. k # x[1] \/ t \notin Remaining(x)
      BY <3>1 DEF Diligent
    <3> QED
      BY <2>1, <3>2, <3>3, <3>4
      DEF RestoreTopic, TopicFails, WorkerFails, Ended, TypeOK
  <2>2. CASE RestoreSegment(x) \/ PartitionFails(x) \/ WorkerRead(x) \/ WorkerUpdate(x)
    BY <2>2 DEF RestoreSegment, PartitionFails, WorkerRead, WorkerUpdate
  <2> QED
    BY <1>3, <2>1, <2>2 DEF WorkerStep
<1>4. CASE UNCHANGED vars
  BY <1>4 DEF vars, workerVars
<1> QED
  BY <1>1, <1>2, <1>3, <1>4, WorkerOf DEF Next, CoordinatorStep, Waiting

Restored(t) == \E k \in Coordinators : outcome[k][t] = "restored"

EarnedInv ==
  \A s \in Known : \A t \in Topics : s.progress[t] = "completed" => Restored(t)

LEMMA ReportedProgress ==
  ASSUME TypeOK, SliceInv, NEW x \in Workers, Active(x), NEW t \in Topics,
         ReportedStatus(x).progress[t] = "completed"
  PROVE  workerCopy[x].progress[t] = "completed" \/ Restored(t)
<1>1. workerCopy[x] \in Status
  BY DEF TypeOK
<1>2. CASE report[x] = "completed"
  <2>1. outcome[x[1]][topic[x]] = "restored" /\ x[1] \in Coordinators
    BY <1>2, Pairs DEF SliceInv, Diligent
  <2>2. ReportedStatus(x) = CompleteTopic(workerCopy[x], topic[x])
    BY <1>2 DEF ReportedStatus
  <2>3. workerCopy[x].progress[t] = "completed" \/ t = topic[x]
    BY <1>1, <2>2 DEF CompleteTopic, Status
  <2> QED
    BY <2>1, <2>3 DEF Restored
<1>3. CASE report[x] # "completed"
  <2>1. ReportedStatus(x).progress = workerCopy[x].progress
    BY <1>1, <1>3 DEF ReportedStatus, CountSegment, RecordError, Status
  <2> QED
    BY <2>1
<1> QED
  BY <1>2, <1>3

LEMMA EarnedStep == TypeOK /\ SliceInv /\ EarnedInv /\ [Next]_vars => EarnedInv'
<1> SUFFICES ASSUME TypeOK, SliceInv, EarnedInv, [Next]_vars PROVE EarnedInv'
  OBVIOUS
<1>1. CASE UNCHANGED vars
  BY <1>1 DEF vars, clientVars, coordinatorVars, workerVars, EarnedInv, Known,
              Restored
<1>2. CASE Next
  <2>1. ASSUME NEW t \in Topics, Restored(t) PROVE Restored(t)'
    BY <1>2, <2>1, OutcomesStay DEF Restored
  <2>2. ASSUME NEW s \in Known, NEW t \in Topics, s.progress[t] = "completed"
        PROVE  Restored(t)'
    BY <2>1, <2>2 DEF EarnedInv
  <2>3. ASSUME NEW r, NotNew(r), NEW t \in Topics, r.progress[t] = "completed"
        PROVE  Restored(t)'
    BY <2>2, <2>3 DEF NotNew, ComesFrom
  <2>4. ASSUME HoldNothingNew,
               \A t \in Topics : status'.progress[t] = "completed" => Restored(t)'
        PROVE  EarnedInv'
    <3>1. \A t \in Topics : Fresh("Absent").progress[t] # "completed"
      BY DEF Fresh
    <3> QED
      BY <2>3, <2>4, <3>1, KnownNext DEF EarnedInv
  <2>5. ASSUME NEW c \in Clients, ClientStep(c) PROVE EarnedInv'
    BY <2>3, <2>4, <2>5, ClientCases, HeldByClient
  <2>6. ASSUME NEW x \in Workers, WorkerStep(x) PROVE EarnedInv'
    <3>1. ASSUME NEW t \in Topics, status'.progress[t] = "completed" PROVE Restored(t)'
      <4>1. CASE NotNew(status')
        BY <2>3, <3>1, <4>1
      <4>2. CASE status' = ReportedStatus(x)
        BY <2>1, <2>2, <2>6, <3>1, <4>2, ReportedProgress, OthersStay, KnownTypes
      <4> QED
        BY <2>6, <4>1, <4>2, HeldByWorker
    <3> QED
      BY <2>4, <2>6, <3>1, HeldByWorker
  <2>7. ASSUME NEW k \in Coordinators, Finish(k) PROVE EarnedInv'
    <3>1. held[k] \in Known /\ held[k] \in Status
      BY KnownTypes
    <3>2. [held[k] EXCEPT !.phase = "Completed"].progress = held[k].progress
      BY <3>1 DEF Status
    <3>3. ASSUME NEW t \in Topics, status'.progress[t] = "completed" PROVE Restored(t)'
      BY <2>2, <2>3, <2>7, <3>1, <3>2, <3>3, HeldByCoordinator
    <3> QED
      BY <2>4, <2>7, <3>3, HeldByCoordinator
  <2>8. CASE Waiting
    BY <1>1, <2>8 DEF Waiting
  <2> QED
    BY <1>2, <2>5, <2>6, <2>7, <2>8, WorkerOf DEF Next, CoordinatorStep
<1> QED
  BY <1>1, <1>2

LEMMA EarnedInit == Init => EarnedInv
BY KnownInit DEF EarnedInv, Fresh

(* A topic is shown as completed only when restoreTopic has returned nil    *)
(* for it, in this or an earlier start of the restore                       *)
(* (Worker.updateTopicProgress).                                            *)
THEOREM ProgressIsHonest == Spec => []ProgressIsEarned
<1>1. TypeOK /\ EarnedInv => ProgressIsEarned
  BY KnownTypes DEF EarnedInv, Restored, ProgressIsEarned
<1> QED
  BY <1>1, TypeInit, TypeStep, SliceInit, SliceStep, EarnedInit, EarnedStep,
     PTL DEF Spec
=============================================================================
