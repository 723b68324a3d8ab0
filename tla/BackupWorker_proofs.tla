------------------------ MODULE BackupWorker_proofs ------------------------
(***************************************************************************)
(* Theorems about BackupWorker, for any number of runs, partitions and     *)
(* messages, any batch size, either object store and any faults.           *)
(***************************************************************************)
EXTENDS BackupWorker, TLAPS

(* Between the first poll of a partition and the last flush. *)
InPartition(r) == pc[r] \in {"poll", "put", "write", "meta"}

(* TypeOK is not inductive: that an append cannot overfill the batch needs *)
(* the polling loop to be entered with room in it, and that a key names a  *)
(* partition needs the loop over the partitions to end in time.            *)
RoomInv(r) ==
  /\ part[r] <= NumPartitions
  /\ InPartition(r) => part[r] < NumPartitions
  /\ Len(batch[r]) <= BatchSize
  /\ pc[r] = "poll" => Len(batch[r]) < BatchSize

TypeInv ==
  /\ KafkaTypeOK
  /\ StoreTypeOK
  /\ RunTypeOK
  /\ \A r \in Runs : RoomInv(r)

LEMMA WriteType ==
  ASSUME NEW f, NEW K, NEW S, NEW k \in K, NEW v \in S,
         DOMAIN f \subseteq K, \A x \in DOMAIN f : f[x] \in S
  PROVE  /\ DOMAIN Write(f, k, v) \subseteq K
         /\ \A x \in DOMAIN Write(f, k, v) : Write(f, k, v)[x] \in S
BY DEF Write

LEMMA TypeInit == Init => TypeInv
<1> SUFFICES ASSUME Init PROVE TypeInv
  OBVIOUS
<1>1. NoClaim \in OffsetRange /\ "loop" \in Reason /\ "idle" \in Location
  BY DEF NoClaim, OffsetRange, Reason, Location
<1>2. /\ logStart \in [Partitions -> Nat]
      /\ logEnd \in [Partitions -> Nat]
      /\ log \in [Partitions -> SUBSET Nat]
  BY WorkerAssumption DEF Init
<1>3. DOMAIN store = {} /\ DOMAIN segMeta = {}
  BY DEF Init
<1>4. /\ pc \in [Runs -> Location]
      /\ part \in [Runs -> Nat]
      /\ offsets \in [Runs -> OffsetRange]
      /\ pos \in [Runs -> [Partitions -> Nat]]
      /\ segmentNum \in [Runs -> Nat]
      /\ total \in [Runs -> Nat]
      /\ why \in [Runs -> Reason]
      /\ cancelled \in [Runs -> BOOLEAN]
      /\ claimed \in [Runs -> [Partitions -> OffsetRange]]
  BY <1>1 DEF Init
<1>5. batch \in [Runs -> Seq(Message)] /\ \A r \in Runs : Len(batch[r]) = 0
  BY DEF Init
<1>6. ASSUME NEW r \in Runs PROVE pc[r] = "idle" /\ part[r] = 0 /\ Len(batch[r]) = 0
  BY <1>5 DEF Init
<1>7. ASSUME NEW r \in Runs PROVE RoomInv(r)
  BY <1>6, WorkerAssumption DEF RoomInv, InPartition
<1> QED
  BY <1>2, <1>3, <1>4, <1>5, <1>7
  DEF TypeInv, KafkaTypeOK, StoreTypeOK, RunTypeOK

LEMMA TypeBroker ==
  ASSUME TypeInv, BrokerStep
  PROVE  TypeInv'
<1> PICK p \in Partitions : Produce(p) \/ Retain(p) \/ Compact(p)
  BY DEF BrokerStep
<1>1. UNCHANGED <<storeVars, runVars>>
  BY DEF Produce, Retain, Compact
<1>2. KafkaTypeOK
  BY DEF TypeInv
<1>3. KafkaTypeOK'
  <2>1. CASE Produce(p)
    BY <1>2, <2>1 DEF Produce, KafkaTypeOK
  <2>2. CASE Retain(p)
    BY <1>2, <2>2 DEF Retain, KafkaTypeOK
  <2>3. CASE Compact(p)
    BY <1>2, <2>3 DEF Compact, KafkaTypeOK
  <2> QED
    BY <2>1, <2>2, <2>3
<1>4. StoreTypeOK' /\ RunTypeOK' /\ \A r \in Runs : RoomInv(r)'
  BY <1>1
  DEF TypeInv, StoreTypeOK, RunTypeOK, RoomInv, InPartition, storeVars,
      runVars, batchVars
<1> QED
  BY <1>3, <1>4 DEF TypeInv

(* A step of run r leaves the other runs' bounds alone. *)
LEMMA RoomOfStep ==
  ASSUME TypeInv, NEW r \in Runs, RoomInv(r)',
         \A q \in Runs \ {r} : /\ pc'[q] = pc[q]
                               /\ part'[q] = part[q]
                               /\ batch'[q] = batch[q]
  PROVE  \A q \in Runs : RoomInv(q)'
BY DEF TypeInv, RoomInv, InPartition

LEMMA TypeStart ==
  ASSUME TypeInv, NEW r \in Runs, Start(r) \/ Finish(r) \/ OpenFails(r)
  PROVE  TypeInv'
<1>1. UNCHANGED <<kafkaVars, storeVars, offsets, batchVars, cancelled, claimed>>
  BY DEF Start, Finish, OpenFails
<1>2. KafkaTypeOK' /\ StoreTypeOK'
  BY <1>1 DEF TypeInv, KafkaTypeOK, StoreTypeOK, kafkaVars, storeVars
<1>3. KafkaTypeOK /\ RunTypeOK /\ RoomInv(r)
  BY DEF TypeInv
<1>4. RunTypeOK' /\ RoomInv(r)' /\ \A q \in Runs \ {r} : pc'[q] = pc[q] /\ part'[q] = part[q]
  <2>1. CASE Start(r)
    BY <1>1, <1>3, <2>1 DEF Start, KafkaTypeOK, RunTypeOK, RoomInv, InPartition, Location, batchVars
  <2>2. CASE Finish(r)
    BY <1>1, <1>3, <2>2 DEF Finish, RunTypeOK, RoomInv, InPartition, Location, Terminal, batchVars
  <2>3. CASE OpenFails(r)
    BY <1>1, <1>3, <2>3, WorkerAssumption
    DEF OpenFails, HasNextPartition, RunTypeOK, RoomInv, InPartition, batchVars
  <2> QED
    BY <2>1, <2>2, <2>3
<1> QED
  BY <1>1, <1>2, <1>4, RoomOfStep DEF TypeInv, batchVars

LEMMA TypeOpen ==
  ASSUME TypeInv, NEW r \in Runs, OpenPartition(r)
  PROVE  TypeInv'
<1>1. KafkaTypeOK /\ RunTypeOK /\ RoomInv(r) /\ part[r] < NumPartitions
  BY DEF TypeInv, OpenPartition, HasNextPartition
<1>2. KafkaTypeOK' /\ StoreTypeOK'
  BY DEF TypeInv, OpenPartition, KafkaTypeOK, StoreTypeOK, kafkaVars, storeVars
<1>3. part[r] \in Partitions
  BY <1>1, WorkerAssumption DEF RunTypeOK, Partitions
<1>4. [low |-> logStart[part[r]], high |-> logEnd[part[r]]] \in OffsetRange
  BY <1>1, <1>3 DEF KafkaTypeOK, OffsetRange
<1>5. /\ offsets' \in [Runs -> OffsetRange]
      /\ pc' \in [Runs -> Location]
      /\ segmentNum' \in [Runs -> Nat]
      /\ total' \in [Runs -> Nat]
      /\ batch' \in [Runs -> Seq(Message)]
  BY <1>1, <1>4 DEF OpenPartition, RunTypeOK, Location
<1>6. pos' \in [Runs -> [Partitions -> Nat]]
  BY <1>1, <1>3 DEF OpenPartition, Seek, RunTypeOK, KafkaTypeOK
<1>7. RunTypeOK'
  BY <1>1, <1>5, <1>6 DEF OpenPartition, RunTypeOK
<1>8. part'[r] = part[r] /\ batch'[r] = <<>>
  BY <1>1 DEF OpenPartition, RunTypeOK
<1>9. RoomInv(r)'
  BY <1>1, <1>8, WorkerAssumption DEF RoomInv, InPartition
<1>10. \A q \in Runs \ {r} : /\ pc'[q] = pc[q]
                             /\ part'[q] = part[q]
                             /\ batch'[q] = batch[q]
  BY <1>1 DEF OpenPartition, RunTypeOK
<1> QED
  BY <1>2, <1>7, <1>9, <1>10, RoomOfStep DEF TypeInv

(* The log of a partition holds a message at the offset polled, and the    *)
(* batch has room for it.                                                  *)
LEMMA TypePoll ==
  ASSUME TypeInv, NEW r \in Runs, PollMessage(r)
  PROVE  TypeInv'
<1>1. KafkaTypeOK /\ RunTypeOK /\ RoomInv(r) /\ pc[r] = "poll"
  BY DEF TypeInv, PollMessage
<1>2. PICK p \in PolledPartitions(r) : \E o \in log[p] : Take(r, p, o)
  BY DEF PollMessage
<1>3. PICK o \in log[p] : Take(r, p, o)
  BY <1>2
<1>4. UNCHANGED <<kafkaVars, storeVars, part, offsets, segmentNum, cancelled, claimed>>
  BY DEF PollMessage
<1>5. part[r] \in Partitions /\ Len(batch[r]) < BatchSize
  BY <1>1, WorkerAssumption DEF RunTypeOK, RoomInv, InPartition, Partitions
<1>6. p \in Partitions
  BY <1>5, WorkerAssumption DEF PolledPartitions
<1>7. o \in Nat /\ [part |-> p, off |-> o] \in Message
  BY <1>1, <1>6 DEF KafkaTypeOK, Message
<1> DEFINE b == Append(batch[r], [part |-> p, off |-> o])
<1>8. b \in Seq(Message) /\ Len(b) = Len(batch[r]) + 1
  BY <1>1, <1>7 DEF RunTypeOK
<1>9. batch' = [batch EXCEPT ![r] = b]
  BY <1>3 DEF Take
<1>10. batch' \in [Runs -> Seq(Message)] /\ batch'[r] = b
  BY <1>1, <1>8, <1>9 DEF RunTypeOK
<1>11. /\ total' \in [Runs -> Nat]
       /\ pos' \in [Runs -> [Partitions -> Nat]]
  BY <1>1, <1>3, <1>6, <1>7 DEF Take, RunTypeOK
<1>12. pc' \in [Runs -> Location] /\ why' \in [Runs -> Reason]
  BY <1>1, <1>3 DEF Take, RunTypeOK, Location, Reason
<1>13. pc'[r] = "poll" => ~BatchIsFull(b)
  BY <1>1, <1>3, <1>10 DEF Take, RunTypeOK
<1>14. KafkaTypeOK' /\ StoreTypeOK'
  BY <1>4 DEF TypeInv, KafkaTypeOK, StoreTypeOK, kafkaVars, storeVars
<1>15. RunTypeOK'
  BY <1>1, <1>4, <1>10, <1>11, <1>12 DEF RunTypeOK
<1>16. Len(b) \in Nat /\ Len(b) <= BatchSize
  BY <1>1, <1>5, <1>8, WorkerAssumption DEF RunTypeOK
<1>17. RoomInv(r)'
  BY <1>1, <1>4, <1>5, <1>10, <1>13, <1>16, WorkerAssumption
  DEF RoomInv, InPartition, BatchIsFull
<1>18. \A q \in Runs \ {r} : /\ pc'[q] = pc[q]
                             /\ part'[q] = part[q]
                             /\ batch'[q] = batch[q]
  BY <1>1, <1>3, <1>4, <1>9 DEF Take, RunTypeOK
<1> QED
  BY <1>14, <1>15, <1>17, <1>18, RoomOfStep DEF TypeInv

LEMMA TypeReturn ==
  ASSUME TypeInv, NEW r \in Runs, part[r] < NumPartitions,
         ReturnNil(r) \/ ReturnError(r),
         UNCHANGED <<offsets, pos, total, cancelled>>
  PROVE  RunTypeOK' /\ \A q \in Runs : RoomInv(q)'
<1>1. RunTypeOK
  BY DEF TypeInv
<1>2. Return(r)
  BY DEF ReturnNil, ReturnError
<1>3. claimed' \in [Runs -> [Partitions -> OffsetRange]]
  <2>1. claimed \in [Runs -> [Partitions -> OffsetRange]] /\ offsets[r] \in OffsetRange
    BY <1>1 DEF RunTypeOK
  <2>2. CASE ReturnNil(r)
    BY <2>1, <2>2 DEF ReturnNil
  <2>3. CASE ReturnError(r)
    BY <2>1, <2>3 DEF ReturnError
  <2> QED
    BY <2>2, <2>3
<1>4. RunTypeOK'
  <2>1. batch' \in [Runs -> Seq(Message)]
    BY <1>1, <1>2 DEF Return, RunTypeOK
  <2>2. pc' \in [Runs -> Location] /\ part' \in [Runs -> Nat]
    BY <1>1, <1>2 DEF Return, RunTypeOK, Location
  <2> QED
    BY <1>1, <1>2, <1>3, <2>1, <2>2 DEF Return, RunTypeOK
<1>5. part'[r] = part[r] + 1 /\ pc'[r] = "next" /\ Len(batch'[r]) = 0
  BY <1>1, <1>2 DEF Return, RunTypeOK
<1>6. RoomInv(r)'
  BY <1>1, <1>5, WorkerAssumption DEF RoomInv, InPartition, RunTypeOK
<1>7. \A q \in Runs \ {r} : /\ pc'[q] = pc[q]
                            /\ part'[q] = part[q]
                            /\ batch'[q] = batch[q]
  BY <1>1, <1>2 DEF Return, RunTypeOK
<1> QED
  BY <1>4, <1>6, <1>7, RoomOfStep

(* Steps that move the run and change none of what RoomInv bounds. *)
LEMMA TypeMove ==
  ASSUME TypeInv, NEW r \in Runs, NEW location \in Location,
         pc' = [pc EXCEPT ![r] = location], location # "poll",
         location \in {"put", "write", "meta"} => InPartition(r),
         why' \in [Runs -> Reason],
         UNCHANGED <<part, offsets, pos, batch, segmentNum, total, cancelled, claimed>>
  PROVE  RunTypeOK' /\ \A q \in Runs : RoomInv(q)'
<1>1. RunTypeOK /\ RoomInv(r)
  BY DEF TypeInv
<1>2. RunTypeOK'
  BY <1>1 DEF RunTypeOK
<1>3. pc'[r] = location /\ \A q \in Runs \ {r} : pc'[q] = pc[q]
  BY <1>1 DEF RunTypeOK
<1>4. RoomInv(r)'
  BY <1>1, <1>3 DEF RoomInv, InPartition
<1> QED
  BY <1>2, <1>3, <1>4, RoomOfStep

LEMMA TypePollEnds ==
  ASSUME TypeInv, NEW r \in Runs, PollNil(r) \/ CtxDone(r)
  PROVE  TypeInv'
<1>1. UNCHANGED <<kafkaVars, storeVars, offsets, pos, total, cancelled>>
  BY DEF PollNil, CtxDone
<1>2. KafkaTypeOK' /\ StoreTypeOK'
  BY <1>1 DEF TypeInv, KafkaTypeOK, StoreTypeOK, kafkaVars, storeVars
<1>3. RunTypeOK /\ pc[r] = "poll" /\ part[r] < NumPartitions
  BY DEF TypeInv, RoomInv, InPartition, PollNil, CtxDone
<1>4. CASE \E reason \in Reason : FlushRest(r, reason)
  <2>1. why' \in [Runs -> Reason]
    BY <1>3, <1>4 DEF FlushRest, RunTypeOK
  <2>2. "put" \in Location /\ InPartition(r)
    BY <1>3 DEF Location, InPartition
  <2>3. RunTypeOK' /\ \A q \in Runs : RoomInv(q)'
    BY <1>1, <1>4, <2>1, <2>2, TypeMove DEF FlushRest
  <2> QED
    BY <1>2, <2>3 DEF TypeInv
<1>5. CASE ReturnNil(r) \/ ReturnError(r)
  BY <1>1, <1>2, <1>3, <1>5, TypeReturn DEF TypeInv
<1> QED
  BY <1>4, <1>5 DEF PollNil, CtxDone, Reason

LEMMA TypeStore ==
  ASSUME TypeInv, NEW r \in Runs, part[r] < NumPartitions,
         NEW object \in Object, StoreObject(r, object), UNCHANGED segMeta
  PROVE  StoreTypeOK'
<1>1. StoreTypeOK /\ SegmentKey(r) \in Key
  BY WorkerAssumption DEF TypeInv, RunTypeOK, SegmentKey, Key, Partitions
<1>2. /\ DOMAIN store' \subseteq Key
      /\ \A k \in DOMAIN store' : store'[k] \in Object
  BY <1>1, WriteType DEF StoreTypeOK, StoreObject
<1> QED
  BY <1>1, <1>2 DEF StoreTypeOK

LEMMA TypePut ==
  ASSUME TypeInv, NEW r \in Runs,
         PutObject(r) \/ CreateFile(r) \/ WriteFile(r)
  PROVE  TypeInv'
<1>1. InPartition(r) /\ RunTypeOK
  BY DEF TypeInv, InPartition, PutObject, CreateFile, WriteFile
<1>2. part[r] < NumPartitions
  BY <1>1 DEF TypeInv, RoomInv
<1>3. PICK location \in {"meta", "write"} : PutGoesTo(r, location)
  BY DEF PutObject, CreateFile, WriteFile
<1>4. /\ Whole(batch[r]) \in Object
      /\ Broken("empty") \in Object
      /\ Broken("torn") \in Object
  BY <1>1 DEF RunTypeOK, Whole, Broken, Object
<1>5. StoreTypeOK'
  <2>1. UNCHANGED segMeta
    BY <1>3 DEF PutGoesTo
  <2>2. PICK object \in Object : StoreObject(r, object)
    BY <1>4 DEF PutObject, CreateFile, WriteFile
  <2> QED
    BY <1>2, <2>1, <2>2, TypeStore
<1>6. RunTypeOK' /\ \A q \in Runs : RoomInv(q)'
  BY <1>1, <1>3, TypeMove DEF PutGoesTo, batchVars, Location, RunTypeOK
<1>7. KafkaTypeOK'
  BY <1>3 DEF PutGoesTo, TypeInv, KafkaTypeOK, kafkaVars
<1> QED
  BY <1>5, <1>6, <1>7 DEF TypeInv

LEMMA TypePutFails ==
  ASSUME TypeInv, NEW r \in Runs, PutFails(r)
  PROVE  TypeInv'
<1>1. InPartition(r) /\ RunTypeOK /\ StoreTypeOK
  BY DEF TypeInv, InPartition, PutFails
<1>2. part[r] < NumPartitions
  BY <1>1 DEF TypeInv, RoomInv
<1>3. /\ Whole(batch[r]) \in Object
      /\ Broken("torn") \in Object
  BY <1>1 DEF RunTypeOK, Whole, Broken, Object
<1>4. UNCHANGED <<kafkaVars, segMeta, offsets, pos, total, cancelled>>
  BY DEF PutFails
<1>5. StoreTypeOK'
  <2>1. CASE UNCHANGED store
    BY <1>1, <1>4, <2>1 DEF StoreTypeOK
  <2>2. CASE \E object \in Object : StoreObject(r, object)
    BY <1>2, <1>4, <2>2, TypeStore
  <2> QED
    BY <1>3, <2>1, <2>2 DEF PutFails
<1>6. RunTypeOK' /\ \A q \in Runs : RoomInv(q)'
  BY <1>2, <1>4, TypeReturn DEF PutFails, FlushFailed
<1>7. KafkaTypeOK'
  BY <1>4 DEF TypeInv, KafkaTypeOK, kafkaVars
<1> QED
  BY <1>5, <1>6, <1>7 DEF TypeInv

LEMMA TypeMeta ==
  ASSUME TypeInv, NEW r \in Runs, SaveSegmentMetadata(r)
  PROVE  TypeInv'
<1>1. RunTypeOK /\ StoreTypeOK /\ RoomInv(r) /\ InPartition(r)
  BY DEF TypeInv, InPartition, SaveSegmentMetadata
<1>2. part[r] < NumPartitions
  BY <1>1 DEF RoomInv
<1>3. UNCHANGED <<kafkaVars, store, offsets, pos, total, cancelled>>
  BY DEF SaveSegmentMetadata
<1>4. StoreTypeOK'
  <2>1. SegmentKey(r) \in Key
    BY <1>1, <1>2, WorkerAssumption DEF RunTypeOK, SegmentKey, Key, Partitions
  <2>2. offsets[r].low \in Nat /\ total[r] \in Nat /\ Len(batch[r]) \in Nat
    BY <1>1 DEF RunTypeOK, OffsetRange
  <2>3. SegmentOffsets(r) \in [low : Int, high : Int]
    BY <2>2 DEF SegmentOffsets, StartOffset
  <2>4. CASE segMeta' = Write(segMeta, SegmentKey(r), SegmentOffsets(r))
    <3>1. /\ DOMAIN segMeta' \subseteq Key
          /\ \A k \in DOMAIN segMeta' : segMeta'[k] \in [low : Int, high : Int]
      BY <1>1, <2>1, <2>3, <2>4 DEF StoreTypeOK, Write
    <3> QED
      BY <1>1, <1>3, <3>1 DEF StoreTypeOK
  <2>5. CASE UNCHANGED segMeta
    BY <1>1, <1>3, <2>5 DEF StoreTypeOK
  <2> QED
    BY <2>4, <2>5 DEF SaveSegmentMetadata
<1>5. KafkaTypeOK'
  BY <1>3 DEF TypeInv, KafkaTypeOK, kafkaVars
<1>6. CASE why[r] = "loop"
  <2>1. /\ pc' = [pc EXCEPT ![r] = "poll"]
        /\ batch' = [batch EXCEPT ![r] = <<>>]
        /\ segmentNum' = [segmentNum EXCEPT ![r] = @ + 1]
        /\ UNCHANGED <<part, why, claimed>>
    BY <1>6 DEF SaveSegmentMetadata, FlushDone, NextSegment
  <2>2. batch' \in [Runs -> Seq(Message)] /\ Len(batch'[r]) = 0
    BY <1>1, <2>1 DEF RunTypeOK
  <2>3. RunTypeOK'
    BY <1>1, <1>3, <2>1, <2>2 DEF RunTypeOK, Location
  <2>4. RoomInv(r)'
    BY <1>1, <1>2, <2>1, <2>2, WorkerAssumption DEF RoomInv, InPartition
  <2>5. \A q \in Runs \ {r} : /\ pc'[q] = pc[q]
                              /\ part'[q] = part[q]
                              /\ batch'[q] = batch[q]
    BY <1>1, <2>1 DEF RunTypeOK
  <2> QED
    BY <1>4, <1>5, <2>3, <2>4, <2>5, RoomOfStep DEF TypeInv
<1>7. CASE ReturnNil(r) \/ ReturnError(r)
  BY <1>2, <1>3, <1>4, <1>5, <1>7, TypeReturn DEF TypeInv
<1> QED
  BY <1>6, <1>7 DEF SaveSegmentMetadata, FlushDone

LEMMA TypeProcess ==
  ASSUME TypeInv, NEW r \in Runs, Cancel(r) \/ MainReturns(r) \/ Crash(r)
  PROVE  TypeInv'
<1>1. RunTypeOK
  BY DEF TypeInv
<1>2. CASE Cancel(r)
  BY <1>1, <1>2
  DEF Cancel, TypeInv, KafkaTypeOK, StoreTypeOK, RunTypeOK, RoomInv,
      InPartition, kafkaVars, storeVars, batchVars
<1>3. CASE \E location \in {"exited", "crashed"} : ProcessEnds(r, location)
  <2>1. PICK location \in {"exited", "crashed"} : ProcessEnds(r, location)
    BY <1>3
  <2>2. RunTypeOK' /\ \A q \in Runs : RoomInv(q)'
    BY <1>1, <2>1, TypeMove DEF ProcessEnds, batchVars, Location, Terminal, RunTypeOK
  <2> QED
    BY <2>1, <2>2
    DEF ProcessEnds, TypeInv, KafkaTypeOK, StoreTypeOK, kafkaVars, storeVars
<1> QED
  BY <1>2, <1>3 DEF MainReturns, Crash

LEMMA TypeStep == TypeInv /\ [Next]_vars => TypeInv'
<1> SUFFICES ASSUME TypeInv, [Next]_vars PROVE TypeInv'
  OBVIOUS
<1>1. CASE BrokerStep
  BY <1>1, TypeBroker
<1>2. ASSUME NEW r \in Runs, WorkerStep(r)
      PROVE  TypeInv'
  <2>1. CASE Start(r) \/ Finish(r) \/ OpenFails(r)
    BY <2>1, TypeStart
  <2>2. CASE OpenPartition(r)
    BY <2>2, TypeOpen
  <2>3. CASE PollMessage(r)
    BY <2>3, TypePoll
  <2>4. CASE PollNil(r) \/ CtxDone(r)
    BY <2>4, TypePollEnds
  <2>5. CASE PutObject(r) \/ CreateFile(r) \/ WriteFile(r)
    BY <2>5, TypePut
  <2>6. CASE PutFails(r)
    BY <2>6, TypePutFails
  <2>7. CASE SaveSegmentMetadata(r)
    BY <2>7, TypeMeta
  <2>8. CASE PollFails(r)
    BY <2>8
    DEF PollFails, vars, TypeInv, KafkaTypeOK, StoreTypeOK, RunTypeOK, RoomInv,
        InPartition, kafkaVars, storeVars, runVars, batchVars
  <2> QED
    BY <1>2, <2>1, <2>2, <2>3, <2>4, <2>5, <2>6, <2>7, <2>8 DEF WorkerStep, OwnStep, Poll
<1>3. ASSUME NEW r \in Runs, Cancel(r) \/ MainReturns(r) \/ Crash(r)
      PROVE  TypeInv'
  BY <1>3, TypeProcess
<1>4. CASE UNCHANGED vars
  BY <1>4
  DEF vars, TypeInv, KafkaTypeOK, StoreTypeOK, RunTypeOK, RoomInv,
      InPartition, kafkaVars, storeVars, runVars, batchVars
<1> QED
  BY <1>1, <1>2, <1>3, <1>4 DEF Next, Terminating

LEMMA TypeInvariant == Spec => []TypeInv
<1> QED
  BY TypeInit, TypeStep, PTL DEF Spec

(* Every variable keeps its type, no key leaves the partitions of the      *)
(* topic, and no batch outgrows Backup.BatchSize.                          *)
THEOREM TypeCorrect == Spec => []TypeOK
<1>1. TypeInv => TypeOK
  BY DEF TypeInv, TypeOK, RoomInv
<1> QED
  BY <1>1, TypeInvariant, PTL

-----------------------------------------------------------------------------
(* SegmentIsSlice, for every number of runs that write the same keys, every *)
(* log, batch size, object store and fault, as long as the consumer does    *)
(* what repository.Consumer says.                                           *)

BelowEnd(msgs, p) == \A i \in DOMAIN msgs : msgs[i].off < logEnd[p]

LogInv == \A p \in Partitions : \A o \in log[p] : o < logEnd[p]

(* The batch is a slice too, and the consumer stands right behind it. *)
BatchInv(r) ==
  InPartition(r) =>
    /\ IsSlice(batch[r], part[r])
    /\ BelowEnd(batch[r], part[r])
    /\ batch[r] # <<>> => pos[r][part[r]] = LastOf(batch[r]).off + 1
    /\ pc[r] # "poll" => batch[r] # <<>>

(* A segment that is complete keeps being a slice only because what is     *)
(* appended to the log later lies above it.                                *)
ObjectInv(k) ==
  store[k].state = "whole" =>
    /\ store[k].msgs # <<>>
    /\ IsSlice(store[k].msgs, k[1])
    /\ BelowEnd(store[k].msgs, k[1])

SliceInv ==
  /\ LogInv
  /\ \A r \in Runs : BatchInv(r)
  /\ \A k \in DOMAIN store : ObjectInv(k)

LEMMA SliceInit == Init => SliceInv
<1> SUFFICES ASSUME Init PROVE SliceInv
  OBVIOUS
<1>1. LogInv
  BY WorkerAssumption DEF Init, LogInv
<1>2. ASSUME NEW r \in Runs PROVE BatchInv(r)
  <2>1. pc[r] = "idle"
    BY DEF Init
  <2> QED
    BY <2>1 DEF BatchInv, InPartition
<1>3. DOMAIN store = {}
  BY DEF Init
<1> QED
  BY <1>1, <1>2, <1>3 DEF SliceInv

LEMMA MessageOf ==
  ASSUME NEW msgs \in Seq(Message), NEW i \in DOMAIN msgs
  PROVE  msgs[i] \in Message /\ msgs[i].off \in Nat
<1>1. msgs[i] \in Message
  OBVIOUS
<1> QED
  BY <1>1 DEF Message

(* Messages that are all below the end of the log stay a slice of it       *)
(* through whatever the broker does.                                       *)
LEMMA SliceOfLaterLog ==
  ASSUME NEW p \in Partitions, NEW msgs \in Seq(Message), KafkaTypeOK,
         log'[p] \subseteq log[p] \cup {logEnd[p]}, logEnd'[p] \in Nat,
         logEnd'[p] >= logEnd[p], IsSlice(msgs, p), BelowEnd(msgs, p)
  PROVE  IsSlice(msgs, p)' /\ BelowEnd(msgs, p)'
<1>1. \A i \in DOMAIN msgs : msgs[i].off \in Nat
  BY MessageOf
<1>2. logEnd[p] \in Nat
  BY DEF KafkaTypeOK
<1>3. BelowEnd(msgs, p)'
  BY <1>1, <1>2 DEF BelowEnd
<1>4. ASSUME NEW o \in log'[p], NEW i \in DOMAIN msgs, NEW j \in DOMAIN msgs,
             msgs[i].off <= o, o <= msgs[j].off
      PROVE  \E m \in DOMAIN msgs : msgs[m].off = o
  <2>1. o \in log[p]
    BY <1>1, <1>2, <1>4 DEF BelowEnd
  <2> QED
    BY <1>4, <2>1 DEF IsSlice
<1>5. IsSlice(msgs, p)'
  BY <1>4 DEF IsSlice
<1> QED
  BY <1>3, <1>5

(* What the consumer returns next extends a slice that ends right before   *)
(* its position.                                                           *)
LEMMA AppendSlice ==
  ASSUME NEW p \in Partitions, NEW msgs \in Seq(Message), NEW o \in log[p],
         NEW from \in Nat, IsNext(o, p, from), KafkaTypeOK, LogInv,
         IsSlice(msgs, p), BelowEnd(msgs, p),
         msgs # <<>> => from = LastOf(msgs).off + 1
  PROVE  LET b == Append(msgs, [part |-> p, off |-> o]) IN
           IsSlice(b, p) /\ BelowEnd(b, p) /\ b # <<>> /\ LastOf(b).off = o
<1> DEFINE b == Append(msgs, [part |-> p, off |-> o])
           n == Len(msgs)
<1>1. o \in Nat /\ n \in Nat /\ DOMAIN msgs = 1 .. n
  BY DEF KafkaTypeOK
<1>2. /\ Len(b) = n + 1
      /\ DOMAIN b = 1 .. n + 1
      /\ b[n + 1] = [part |-> p, off |-> o]
      /\ \A i \in 1 .. n : b[i] = msgs[i]
  BY <1>1
<1>3. \A i \in 1 .. n : msgs[i].off \in Nat /\ msgs[i].part = p
  BY <1>1, MessageOf DEF IsSlice
<1>4. \A i \in 1 .. n : msgs[i].off <= msgs[n].off /\ n \in 1 .. n
  BY <1>1, <1>3 DEF IsSlice
<1>5. \A i \in 1 .. n : msgs[n].off + 1 = from
  BY <1>1 DEF LastOf
<1>6. \A i \in 1 .. n : msgs[i].off < o
  BY <1>1, <1>3, <1>4, <1>5 DEF IsNext
<1>7. \A i \in DOMAIN b : b[i].part = p
  BY <1>2, <1>3
<1>8. \A i, j \in DOMAIN b : i < j => b[i].off < b[j].off
  BY <1>1, <1>2, <1>6 DEF IsSlice
<1>9. ASSUME NEW q \in log[p], NEW i \in DOMAIN b, NEW j \in DOMAIN b,
             b[i].off <= q, q <= b[j].off
      PROVE  \E m \in DOMAIN b : b[m].off = q
  <2>1. q \in Nat /\ q <= o
    <3>1. q \in Nat
      BY DEF KafkaTypeOK
    <3>2. b[j].off \in Nat /\ b[j].off <= o
      BY <1>1, <1>2, <1>3, <1>6
    <3> QED
      BY <1>1, <1>9, <3>1, <3>2
  <2>2. CASE q >= from
    <3>1. o = q
      BY <1>1, <2>1, <2>2 DEF IsNext
    <3> QED
      BY <1>1, <1>2, <3>1
  <2>3. CASE q < from
    <3>1. i \in 1 .. n
      BY <1>1, <1>2, <1>9, <2>1, <2>3 DEF IsNext
    <3>2. msgs[i].off <= q /\ q <= msgs[n].off
      BY <1>2, <1>3, <1>4, <1>5, <1>9, <2>1, <2>3, <3>1
    <3>3. \E m \in 1 .. n : msgs[m].off = q
      BY <1>1, <1>4, <3>1, <3>2 DEF IsSlice
    <3> QED
      BY <1>1, <1>2, <3>3
  <2> QED
    BY <2>1, <2>2, <2>3
<1>10. IsSlice(b, p)
  BY <1>7, <1>8, <1>9 DEF IsSlice
<1>11. BelowEnd(b, p)
  BY <1>1, <1>2 DEF BelowEnd, LogInv
<1>12. b # <<>> /\ LastOf(b).off = o
  BY <1>1, <1>2 DEF LastOf
<1> QED
  BY <1>10, <1>11, <1>12

LEMMA SliceBroker ==
  ASSUME TypeInv, SliceInv, BrokerStep
  PROVE  SliceInv'
<1> PICK p \in Partitions : Produce(p) \/ Retain(p) \/ Compact(p)
  BY DEF BrokerStep
<1>1. UNCHANGED <<storeVars, runVars>>
  BY DEF Produce, Retain, Compact
<1>2. KafkaTypeOK /\ RunTypeOK /\ StoreTypeOK /\ KafkaTypeOK'
  BY TypeBroker DEF TypeInv
<1>3. ASSUME NEW q \in Partitions
      PROVE  /\ log'[q] \subseteq log[q] \cup {logEnd[q]}
             /\ logEnd'[q] \in Nat
             /\ logEnd'[q] >= logEnd[q]
             /\ logEnd[q] \in log'[q] => logEnd'[q] > logEnd[q] \/ logEnd[q] \in log[q]
  <2>1. CASE Produce(p)
    BY <1>2, <2>1 DEF Produce, KafkaTypeOK
  <2>2. CASE Retain(p)
    BY <1>2, <2>2 DEF Retain, KafkaTypeOK
  <2>3. CASE Compact(p)
    BY <1>2, <2>3 DEF Compact, KafkaTypeOK
  <2> QED
    BY <2>1, <2>2, <2>3
<1>4. LogInv'
  BY <1>2, <1>3 DEF SliceInv, LogInv, KafkaTypeOK
<1>5. ASSUME NEW r \in Runs PROVE BatchInv(r)'
  <2>1. UNCHANGED <<pc, part, batch, pos>>
    BY <1>1 DEF runVars, batchVars
  <2>2. CASE InPartition(r)
    <3>1. part[r] \in Partitions
      BY <1>2, <2>2, WorkerAssumption DEF TypeInv, RoomInv, RunTypeOK, Partitions
    <3>2. batch[r] \in Seq(Message) /\ IsSlice(batch[r], part[r]) /\ BelowEnd(batch[r], part[r])
      BY <1>2, <2>2 DEF SliceInv, BatchInv, RunTypeOK
    <3>3. IsSlice(batch[r], part[r])' /\ BelowEnd(batch[r], part[r])'
      BY <1>2, <1>3, <2>1, <3>1, <3>2, SliceOfLaterLog DEF IsSlice, BelowEnd
    <3> QED
      BY <2>1, <2>2, <3>3 DEF SliceInv, BatchInv, InPartition
  <2>3. CASE ~InPartition(r)
    BY <2>1, <2>3 DEF BatchInv, InPartition
  <2> QED
    BY <2>2, <2>3
<1>6. ASSUME NEW k \in DOMAIN store PROVE ObjectInv(k)'
  <2>1. UNCHANGED store
    BY <1>1 DEF storeVars
  <2>2. k[1] \in Partitions /\ store[k].msgs \in Seq(Message)
    BY <1>2 DEF StoreTypeOK, Key, Object
  <2>3. ObjectInv(k)
    BY DEF SliceInv
  <2>4. CASE store[k].state = "whole"
    <3>1. IsSlice(store[k].msgs, k[1])' /\ BelowEnd(store[k].msgs, k[1])'
      BY <1>2, <1>3, <2>1, <2>2, <2>3, <2>4, SliceOfLaterLog
      DEF ObjectInv, IsSlice, BelowEnd
    <3> QED
      BY <2>1, <2>3, <2>4, <3>1 DEF ObjectInv
  <2>5. CASE store[k].state # "whole"
    BY <2>1, <2>5 DEF ObjectInv
  <2> QED
    BY <2>4, <2>5
<1>7. DOMAIN store' = DOMAIN store
  BY <1>1 DEF storeVars
<1> QED
  BY <1>4, <1>5, <1>6, <1>7 DEF SliceInv

(* A step of run r that leaves the broker alone has to show the invariant  *)
(* for that run and for the object it writes only.                         *)
LEMMA SliceOfStep ==
  ASSUME SliceInv, RunTypeOK, NEW r \in Runs, UNCHANGED kafkaVars, BatchInv(r)',
         \A q \in Runs \ {r} : /\ pc'[q] = pc[q]
                               /\ part'[q] = part[q]
                               /\ pos'[q] = pos[q]
                               /\ batch'[q] = batch[q],
         \A k \in DOMAIN store' : \/ k \in DOMAIN store /\ store'[k] = store[k]
                                  \/ ObjectInv(k)'
  PROVE  SliceInv'
<1>1. UNCHANGED <<log, logEnd>>
  BY DEF kafkaVars
<1>2. LogInv'
  BY <1>1 DEF SliceInv, LogInv
<1>3. ASSUME NEW q \in Runs, q # r PROVE BatchInv(q)'
  <2>1. pc'[q] = pc[q] /\ part'[q] = part[q] /\ pos'[q] = pos[q] /\ batch'[q] = batch[q]
    BY <1>3
  <2>2. BatchInv(q)
    BY DEF SliceInv
  <2> QED
    BY <1>1, <2>1, <2>2 DEF BatchInv, InPartition, IsSlice, BelowEnd, LastOf
<1>4. ASSUME NEW k \in DOMAIN store' PROVE ObjectInv(k)'
  <2>1. CASE k \in DOMAIN store /\ store'[k] = store[k]
    <3>1. ObjectInv(k)
      BY <2>1 DEF SliceInv
    <3> QED
      BY <1>1, <2>1, <3>1 DEF ObjectInv, IsSlice, BelowEnd
  <2> QED
    BY <2>1
<1> QED
  BY <1>2, <1>3, <1>4 DEF SliceInv

(* Outside backupPartition there is nothing to show for the run. *)
LEMMA SliceLeave ==
  ASSUME SliceInv, RunTypeOK, NEW r \in Runs, UNCHANGED kafkaVars, ~InPartition(r)',
         \A q \in Runs \ {r} : /\ pc'[q] = pc[q]
                               /\ part'[q] = part[q]
                               /\ pos'[q] = pos[q]
                               /\ batch'[q] = batch[q],
         \A k \in DOMAIN store' : \/ k \in DOMAIN store /\ store'[k] = store[k]
                                  \/ ObjectInv(k)'
  PROVE  SliceInv'
<1>1. BatchInv(r)'
  BY DEF BatchInv
<1> QED
  BY <1>1, SliceOfStep

LEMMA SliceOutside ==
  ASSUME TypeInv, SliceInv, NEW r \in Runs,
         \/ Start(r) \/ Finish(r) \/ OpenFails(r)
         \/ Cancel(r) \/ MainReturns(r) \/ Crash(r)
  PROVE  SliceInv'
<1>1. RunTypeOK /\ UNCHANGED kafkaVars /\ UNCHANGED storeVars
  BY DEF TypeInv, Start, Finish, OpenFails, Cancel, MainReturns, Crash, ProcessEnds
<1>2. \A k \in DOMAIN store' : k \in DOMAIN store /\ store'[k] = store[k]
  BY <1>1 DEF storeVars
<1>3. \A q \in Runs \ {r} : /\ pc'[q] = pc[q]
                            /\ part'[q] = part[q]
                            /\ pos'[q] = pos[q]
                            /\ batch'[q] = batch[q]
  <2>1. CASE Start(r)
    BY <1>1, <2>1 DEF Start, RunTypeOK, batchVars
  <2>2. CASE Finish(r) \/ OpenFails(r)
    BY <1>1, <2>2 DEF Finish, OpenFails, RunTypeOK, batchVars
  <2>3. CASE Cancel(r) \/ MainReturns(r) \/ Crash(r)
    BY <1>1, <2>3 DEF Cancel, MainReturns, Crash, ProcessEnds, RunTypeOK, batchVars
  <2> QED
    BY <2>1, <2>2, <2>3
<1>4. CASE Cancel(r)
  <2>1. UNCHANGED <<pc, part, pos, batch>>
    BY <1>4 DEF Cancel, batchVars
  <2>2. BatchInv(r)
    BY DEF SliceInv
  <2>3. BatchInv(r)'
    BY <1>1, <2>1, <2>2 DEF BatchInv, InPartition, IsSlice, BelowEnd, LastOf, kafkaVars
  <2> QED
    BY <1>1, <1>2, <1>3, <2>3, SliceOfStep
<1>5. CASE ~Cancel(r)
  <2>1. pc'[r] \in {"next", "finished", "exited", "crashed"}
    <3>1. CASE Start(r) \/ Finish(r)
      BY <1>1, <3>1 DEF Start, Finish, RunTypeOK
    <3>2. CASE OpenFails(r)
      BY <1>1, <3>2 DEF OpenFails, HasNextPartition, RunTypeOK
    <3>3. CASE MainReturns(r) \/ Crash(r)
      BY <1>1, <3>3 DEF MainReturns, Crash, ProcessEnds, RunTypeOK
    <3> QED
      BY <1>5, <3>1, <3>2, <3>3
  <2>2. ~InPartition(r)'
    BY <2>1 DEF InPartition
  <2> QED
    BY <1>1, <1>2, <1>3, <2>2, SliceLeave
<1> QED
  BY <1>4, <1>5

LEMMA SliceOpen ==
  ASSUME TypeInv, SliceInv, NEW r \in Runs, OpenPartition(r)
  PROVE  SliceInv'
<1>1. KafkaTypeOK /\ RunTypeOK /\ UNCHANGED kafkaVars /\ UNCHANGED storeVars
  BY DEF TypeInv, OpenPartition
<1>2. batch'[r] = <<>> /\ pc'[r] = "poll"
  BY <1>1 DEF OpenPartition, RunTypeOK
<1>3. BatchInv(r)'
  BY <1>2 DEF BatchInv, IsSlice, BelowEnd
<1>4. \A q \in Runs \ {r} : /\ pc'[q] = pc[q]
                            /\ part'[q] = part[q]
                            /\ pos'[q] = pos[q]
                            /\ batch'[q] = batch[q]
  BY <1>1 DEF OpenPartition, Seek, RunTypeOK
<1>5. \A k \in DOMAIN store' : k \in DOMAIN store /\ store'[k] = store[k]
  BY <1>1 DEF storeVars
<1> QED
  BY <1>1, <1>3, <1>4, <1>5, SliceOfStep

LEMMA SlicePoll ==
  ASSUME TypeInv, SliceInv, NEW r \in Runs, PollMessage(r), Consumer = "port"
  PROVE  SliceInv'
<1>1. KafkaTypeOK /\ RunTypeOK /\ pc[r] = "poll" /\ BatchInv(r) /\ LogInv
  BY DEF TypeInv, PollMessage, SliceInv
<1>2. UNCHANGED <<kafkaVars, storeVars, part>>
  BY DEF PollMessage
<1> DEFINE p == part[r]
<1>3. p \in Partitions
  BY <1>1, WorkerAssumption DEF TypeInv, RoomInv, InPartition, RunTypeOK, Partitions
<1>4. PICK o \in log[p] : IsNext(o, p, pos[r][p]) /\ Take(r, p, o)
  BY DEF PollMessage, PolledPartitions
<1> DEFINE b == Append(batch[r], [part |-> p, off |-> o])
<1>5. /\ IsSlice(batch[r], p)
      /\ BelowEnd(batch[r], p)
      /\ batch[r] # <<>> => pos[r][p] = LastOf(batch[r]).off + 1
  BY <1>1 DEF BatchInv, InPartition
<1>6. batch[r] \in Seq(Message) /\ pos[r][p] \in Nat
  BY <1>1, <1>3 DEF RunTypeOK
<1>7. IsSlice(b, p) /\ BelowEnd(b, p) /\ b # <<>> /\ LastOf(b).off = o
  BY <1>1, <1>3, <1>4, <1>5, <1>6, AppendSlice
<1>8. batch'[r] = b /\ pos'[r][p] = o + 1
  BY <1>1, <1>3, <1>4 DEF Take, RunTypeOK
<1>9. part'[r] = p /\ UNCHANGED <<log, logEnd>>
  BY <1>2 DEF kafkaVars
<1>10. BatchInv(r)'
  <2>1. IsSlice(batch[r], part[r])' /\ BelowEnd(batch[r], part[r])'
    BY <1>7, <1>8, <1>9 DEF IsSlice, BelowEnd
  <2>2. (pos[r][part[r]] = LastOf(batch[r]).off + 1)'
    BY <1>7, <1>8, <1>9 DEF LastOf
  <2> QED
    BY <1>7, <1>8, <2>1, <2>2 DEF BatchInv
<1>11. \A q \in Runs \ {r} : /\ pc'[q] = pc[q]
                             /\ part'[q] = part[q]
                             /\ pos'[q] = pos[q]
                             /\ batch'[q] = batch[q]
  BY <1>1, <1>2, <1>4 DEF Take, RunTypeOK
<1>12. \A k \in DOMAIN store' : k \in DOMAIN store /\ store'[k] = store[k]
  BY <1>2 DEF storeVars
<1> QED
  BY <1>1, <1>2, <1>10, <1>11, <1>12, SliceOfStep

(* backupPartition returns. *)
LEMMA SliceReturn ==
  ASSUME SliceInv, RunTypeOK, NEW r \in Runs, Return(r), UNCHANGED <<kafkaVars, pos>>,
         \A k \in DOMAIN store' : \/ k \in DOMAIN store /\ store'[k] = store[k]
                                  \/ ObjectInv(k)'
  PROVE  SliceInv'
<1>1. pc'[r] = "next"
  BY DEF Return, RunTypeOK
<1>2. ~InPartition(r)'
  BY <1>1 DEF InPartition
<1>3. \A q \in Runs \ {r} : /\ pc'[q] = pc[q]
                            /\ part'[q] = part[q]
                            /\ pos'[q] = pos[q]
                            /\ batch'[q] = batch[q]
  BY DEF Return, RunTypeOK
<1> QED
  BY <1>2, <1>3, SliceLeave

(* The run moves on and keeps its batch, which must not be empty. *)
LEMMA SliceMove ==
  ASSUME SliceInv, RunTypeOK, NEW r \in Runs, NEW location \in Location,
         pc' = [pc EXCEPT ![r] = location], InPartition(r), batch[r] # <<>>,
         UNCHANGED <<kafkaVars, part, pos, batch>>,
         \A k \in DOMAIN store' : \/ k \in DOMAIN store /\ store'[k] = store[k]
                                  \/ ObjectInv(k)'
  PROVE  SliceInv'
<1>1. BatchInv(r)
  BY DEF SliceInv
<1>2. UNCHANGED <<log, logEnd>>
  BY DEF kafkaVars
<1>3. BatchInv(r)'
  BY <1>1, <1>2 DEF BatchInv, InPartition, IsSlice, BelowEnd, LastOf
<1>4. \A q \in Runs \ {r} : pc'[q] = pc[q]
  BY DEF RunTypeOK
<1> QED
  BY <1>3, <1>4, SliceOfStep

LEMMA SlicePollEnds ==
  ASSUME TypeInv, SliceInv, NEW r \in Runs, PollNil(r) \/ CtxDone(r)
  PROVE  SliceInv'
<1>1. RunTypeOK /\ InPartition(r) /\ UNCHANGED <<kafkaVars, storeVars, pos>>
  BY DEF TypeInv, InPartition, PollNil, CtxDone
<1>2. \A k \in DOMAIN store' : k \in DOMAIN store /\ store'[k] = store[k]
  BY <1>1 DEF storeVars
<1>3. CASE \E reason \in Reason : FlushRest(r, reason)
  <2>1. "put" \in Location
    BY DEF Location
  <2> QED
    BY <1>1, <1>2, <1>3, <2>1, SliceMove DEF FlushRest
<1>4. CASE Return(r)
  BY <1>1, <1>2, <1>4, SliceReturn
<1> QED
  BY <1>3, <1>4 DEF PollNil, CtxDone, Reason, ReturnNil, ReturnError

(* Whatever is put under the key of the run leaves every object a slice. *)
LEMMA SliceStored ==
  ASSUME SliceInv, NEW r \in Runs, InPartition(r), batch[r] # <<>>,
         UNCHANGED kafkaVars,
         NEW object \in {Whole(batch[r]), Broken("empty"), Broken("torn")},
         StoreObject(r, object)
  PROVE  \A k \in DOMAIN store' : \/ k \in DOMAIN store /\ store'[k] = store[k]
                                  \/ ObjectInv(k)'
<1> SUFFICES ASSUME NEW k \in DOMAIN store', ~(k \in DOMAIN store /\ store'[k] = store[k])
             PROVE  ObjectInv(k)'
  OBVIOUS
<1>1. k = <<part[r], segmentNum[r]>> /\ store'[k] = object
  BY DEF StoreObject, Write, SegmentKey
<1>2. IsSlice(batch[r], part[r]) /\ BelowEnd(batch[r], part[r])
  BY DEF SliceInv, BatchInv
<1>3. UNCHANGED <<log, logEnd>>
  BY DEF kafkaVars
<1>4. CASE object = Whole(batch[r])
  <2>1. store'[k].msgs = batch[r] /\ k[1] = part[r]
    BY <1>1, <1>4 DEF Whole
  <2> QED
    BY <1>2, <1>3, <2>1 DEF ObjectInv, IsSlice, BelowEnd
<1>5. CASE object # Whole(batch[r])
  <2>1. store'[k].state # "whole"
    BY <1>1, <1>5 DEF Broken
  <2> QED
    BY <2>1 DEF ObjectInv
<1> QED
  BY <1>4, <1>5

LEMMA BatchToFlush ==
  ASSUME SliceInv, NEW r \in Runs, pc[r] \in {"put", "write", "meta"}
  PROVE  InPartition(r) /\ batch[r] # <<>>
BY DEF SliceInv, BatchInv, InPartition

LEMMA SlicePut ==
  ASSUME TypeInv, SliceInv, NEW r \in Runs,
         PutObject(r) \/ CreateFile(r) \/ WriteFile(r)
  PROVE  SliceInv'
<1>1. RunTypeOK /\ InPartition(r) /\ batch[r] # <<>>
  BY BatchToFlush DEF TypeInv, PutObject, CreateFile, WriteFile
<1>2. PICK location \in {"meta", "write"} : PutGoesTo(r, location)
  BY DEF PutObject, CreateFile, WriteFile
<1>3. UNCHANGED <<kafkaVars, part, pos, batch>>
  BY <1>2 DEF PutGoesTo, batchVars
<1>4. \A k \in DOMAIN store' : \/ k \in DOMAIN store /\ store'[k] = store[k]
                               \/ ObjectInv(k)'
  BY <1>1, <1>3, SliceStored DEF PutObject, CreateFile, WriteFile
<1> QED
  BY <1>1, <1>2, <1>3, <1>4, SliceMove DEF PutGoesTo, Location

LEMMA SlicePutFails ==
  ASSUME TypeInv, SliceInv, NEW r \in Runs, PutFails(r)
  PROVE  SliceInv'
<1>1. RunTypeOK /\ InPartition(r) /\ batch[r] # <<>>
  BY BatchToFlush DEF TypeInv, PutFails
<1>2. UNCHANGED <<kafkaVars, pos>> /\ Return(r)
  BY DEF PutFails, FlushFailed, ReturnNil, ReturnError
<1>3. \A k \in DOMAIN store' : \/ k \in DOMAIN store /\ store'[k] = store[k]
                               \/ ObjectInv(k)'
  BY <1>1, <1>2, SliceStored DEF PutFails
<1> QED
  BY <1>1, <1>2, <1>3, SliceReturn

LEMMA SliceMeta ==
  ASSUME TypeInv, SliceInv, NEW r \in Runs, SaveSegmentMetadata(r)
  PROVE  SliceInv'
<1>1. RunTypeOK /\ UNCHANGED <<kafkaVars, store, pos>>
  BY DEF TypeInv, SaveSegmentMetadata
<1>2. \A k \in DOMAIN store' : k \in DOMAIN store /\ store'[k] = store[k]
  BY <1>1
<1>3. CASE why[r] = "loop"
  <2>1. /\ pc' = [pc EXCEPT ![r] = "poll"]
        /\ batch' = [batch EXCEPT ![r] = <<>>]
        /\ UNCHANGED part
    BY <1>3 DEF SaveSegmentMetadata, FlushDone
  <2>2. pc'[r] = "poll" /\ batch'[r] = <<>>
    BY <1>1, <2>1 DEF RunTypeOK
  <2>3. BatchInv(r)'
    BY <2>2 DEF BatchInv, IsSlice, BelowEnd
  <2>4. \A q \in Runs \ {r} : pc'[q] = pc[q] /\ batch'[q] = batch[q]
    BY <1>1, <2>1 DEF RunTypeOK
  <2> QED
    BY <1>1, <1>2, <2>1, <2>3, <2>4, SliceOfStep
<1>4. CASE Return(r)
  BY <1>1, <1>2, <1>4, SliceReturn
<1> QED
  BY <1>3, <1>4 DEF SaveSegmentMetadata, FlushDone, ReturnNil, ReturnError

LEMMA SliceUnchanged == SliceInv /\ UNCHANGED vars => SliceInv'
<1> SUFFICES ASSUME SliceInv, UNCHANGED vars PROVE SliceInv'
  OBVIOUS
<1>1. UNCHANGED <<log, logEnd, store, pc, part, pos, batch>>
  BY DEF vars, kafkaVars, storeVars, runVars, batchVars
<1> QED
  BY <1>1 DEF SliceInv, LogInv, BatchInv, ObjectInv, InPartition, IsSlice, BelowEnd, LastOf

LEMMA SliceStep ==
  ASSUME Consumer = "port", TypeInv, SliceInv, [Next]_vars
  PROVE  SliceInv'
<1>1. CASE BrokerStep
  BY <1>1, SliceBroker
<1>2. ASSUME NEW r \in Runs, WorkerStep(r)
      PROVE  SliceInv'
  <2>1. CASE Start(r) \/ Finish(r) \/ OpenFails(r)
    BY <2>1, SliceOutside
  <2>2. CASE OpenPartition(r)
    BY <2>2, SliceOpen
  <2>3. CASE PollMessage(r)
    BY <2>3, SlicePoll
  <2>4. CASE PollNil(r) \/ CtxDone(r)
    BY <2>4, SlicePollEnds
  <2>5. CASE PutObject(r) \/ CreateFile(r) \/ WriteFile(r)
    BY <2>5, SlicePut
  <2>6. CASE PutFails(r)
    BY <2>6, SlicePutFails
  <2>7. CASE SaveSegmentMetadata(r)
    BY <2>7, SliceMeta
  <2>8. CASE PollFails(r)
    BY <2>8, SliceUnchanged DEF PollFails
  <2> QED
    BY <1>2, <2>1, <2>2, <2>3, <2>4, <2>5, <2>6, <2>7, <2>8 DEF WorkerStep, OwnStep, Poll
<1>3. ASSUME NEW r \in Runs, Cancel(r) \/ MainReturns(r) \/ Crash(r)
      PROVE  SliceInv'
  BY <1>3, SliceOutside
<1>4. CASE UNCHANGED vars
  BY <1>4, SliceUnchanged
<1> QED
  BY <1>1, <1>2, <1>3, <1>4 DEF Next, Terminating

(* However many runs of a backup write the same keys, and whatever fails   *)
(* meanwhile, a segment that can be read holds messages of its partition   *)
(* alone, in order, and skips none that the log still holds: flushBatch    *)
(* and the polling loop of backupPartition.                                *)
THEOREM SegmentsAreSlices == Consumer = "port" => (Spec => []SegmentIsSlice)
<1> SUFFICES ASSUME Consumer = "port" PROVE Spec => []SegmentIsSlice
  OBVIOUS
<1>1. TypeInv /\ SliceInv /\ [Next]_vars => SliceInv'
  BY SliceStep
<1>2. SliceInv => SegmentIsSlice
  BY DEF SliceInv, ObjectInv, SegmentIsSlice
<1> QED
  BY <1>1, <1>2, SliceInit, TypeInvariant, PTL DEF Spec
=============================================================================
