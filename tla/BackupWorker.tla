---------------------------- MODULE BackupWorker ----------------------------
(***************************************************************************)
(* The data path of a backup: Worker.backupTopic, backupPartition and      *)
(* flushBatch of internal/app/backup/worker.go, over the consumer and the  *)
(* object store they are written against.                                  *)
(*                                                                         *)
(* A "run" is one execution of the worker of a backup.  Every run of the   *)
(* same backup writes the same keys: the operator starts one pod per       *)
(* worker with the same configuration, Service.StopBackup leaves the       *)
(* worker it stops running, and a restarted pod begins again.  A run holds *)
(* one topic's loop over its partitions.                                   *)
(*                                                                         *)
(* The status counters that flushBatch also updates are a separate state,  *)
(* never read here: module BackupService has them.                         *)
(***************************************************************************)
EXTENDS Integers, Sequences

CONSTANTS
  Runs,            \* the executions of the worker
  NumPartitions,   \* partitions of the topic
  BatchSize,       \* Backup.BatchSize
  MaxOffset,       \* bound: offsets of a log stay below it
  Consumer,        \* which consumer the run is given, see PolledPartitions
  AtomicPut,       \* TRUE: S3Repository.Put; FALSE: LocalRepository.Put
  LogEvents,       \* what the broker does meanwhile
  Faults           \* what may go wrong

ASSUME WorkerAssumption ==
  /\ NumPartitions \in Nat
  /\ BatchSize \in Nat \ {0}
  /\ MaxOffset \in Nat
  /\ Consumer \in {"port", "subscribed", "shipped"}
  /\ AtomicPut \in BOOLEAN
  /\ LogEvents \subseteq {"produce", "marker", "retain", "compact"}
  /\ Faults \subseteq
       {"connect", "offsets", "poll", "put", "meta", "cancel", "crash"}

Partitions == 0 .. NumPartitions - 1

VARIABLES
  log,        \* log[p]: the offsets that hold a message
  logStart,   \* logStart[p]: sarama.OffsetOldest
  logEnd,     \* logEnd[p]: sarama.OffsetNewest
  store,      \* object store: <<partition, segment>> -> object
  segMeta,    \* metadata repository: <<partition, segment>> -> offsets
  pc,         \* pc[r]: where run r is
  part,       \* part[r]: the partition it backs up
  offsets,    \* offsets[r]: lowOffset and highOffset
  pos,        \* pos[r][p]: the consumer's position
  batch,      \* batch[r]
  segmentNum, \* segmentNum[r]
  total,      \* total[r]: totalMessages
  why,        \* why[r]: the call site of flushBatch
  cancelled,  \* cancelled[r]: ctx.Done() is closed
  claimed     \* claimed[r][p]: offsets backupPartition returned nil for

kafkaVars == <<log, logStart, logEnd>>
storeVars == <<store, segMeta>>
batchVars == <<batch, segmentNum, total, why>>
runVars == <<pc, part, offsets, pos, batchVars, cancelled, claimed>>
vars == <<kafkaVars, storeVars, runVars>>

-----------------------------------------------------------------------------
(* State *)

Message == [part : Partitions, off : Nat]

(* "empty": os.Create done, nothing written.  "torn": bytes of no one      *)
(* segment.  Neither decodes.                                              *)
Object == [state : {"empty", "torn", "whole"}, msgs : Seq(Message)]

Broken(state) == [state |-> state, msgs |-> <<>>]
Whole(msgs) == [state |-> "whole", msgs |-> msgs]

Key == Partitions \X Nat

(* Why flushBatch is called: from the loop, on "No more messages", or on   *)
(* the cancelled context.                                                  *)
Reason == {"loop", "eof", "cancel"}

Terminal == {"finished", "exited", "crashed"}

Location == {"idle", "next", "poll", "put", "write", "meta"} \cup Terminal

OffsetRange == [low : Nat, high : Nat]

NoClaim == [low |-> 0, high |-> 0]

Init ==
  /\ logStart = [p \in Partitions |-> 0]
  /\ logEnd \in [Partitions -> 0 .. MaxOffset]
  /\ log = [p \in Partitions |-> 0 .. logEnd[p] - 1]
  /\ store = [k \in {} |-> Broken("empty")]
  /\ segMeta = [k \in {} |-> NoClaim]
  /\ pc = [r \in Runs |-> "idle"]
  /\ part = [r \in Runs |-> 0]
  /\ offsets = [r \in Runs |-> NoClaim]
  /\ pos = [r \in Runs |-> [p \in Partitions |-> 0]]
  /\ batch = [r \in Runs |-> <<>>]
  /\ segmentNum = [r \in Runs |-> 0]
  /\ total = [r \in Runs |-> 0]
  /\ why = [r \in Runs |-> "loop"]
  /\ cancelled = [r \in Runs |-> FALSE]
  /\ claimed = [r \in Runs |-> [p \in Partitions |-> NoClaim]]

Write(f, k, v) == [x \in DOMAIN f \cup {k} |-> IF x = k THEN v ELSE f[x]]

-----------------------------------------------------------------------------
(* The broker (external).  A transaction marker takes an offset and is     *)
(* never delivered.                                                        *)

Produce(p) ==
  /\ logEnd[p] < MaxOffset
  /\ logEnd' = [logEnd EXCEPT ![p] = @ + 1]
  /\ \/ /\ "produce" \in LogEvents
        /\ log' = [log EXCEPT ![p] = @ \cup {logEnd[p]}]
     \/ /\ "marker" \in LogEvents
        /\ UNCHANGED log
  /\ UNCHANGED <<logStart, storeVars, runVars>>

Retain(p) ==
  /\ "retain" \in LogEvents
  /\ logStart[p] < logEnd[p]
  /\ logStart' = [logStart EXCEPT ![p] = @ + 1]
  /\ log' = [log EXCEPT ![p] = @ \ {logStart[p]}]
  /\ UNCHANGED <<logEnd, storeVars, runVars>>

Compact(p) ==
  /\ "compact" \in LogEvents
  /\ \E o \in log[p] : log' = [log EXCEPT ![p] = @ \ {o}]
  /\ UNCHANGED <<logStart, logEnd, storeVars, runVars>>

BrokerStep == \E p \in Partitions : Produce(p) \/ Retain(p) \/ Compact(p)

-----------------------------------------------------------------------------
(* The consumer.                                                           *)
(*   "port"       what repository.Consumer says: Seek positions, Poll      *)
(*                returns the messages from there, nil when there are none *)
(*   "subscribed" kafka.Consumer with its partitions subscribed: Seek does *)
(*                nothing, Poll takes from any partition, and returns nil  *)
(*                whenever nothing has been fetched yet                    *)
(*   "shipped"    kafka.Consumer as the worker leaves it: Subscribe is     *)
(*                never called, so there is nothing to poll                *)

PolledPartitions_AnyPartition(r) == Partitions

PolledPartitions(r) ==
  CASE Consumer = "port" -> {part[r]}
    [] Consumer = "subscribed" -> Partitions
    [] OTHER -> {}

IsNext(o, p, from) ==
  /\ o \in log[p]
  /\ o >= from
  /\ \A q \in log[p] : q >= from => o <= q

Seek(r, low) ==
  pos' = IF Consumer = "port" THEN [pos EXCEPT ![r][part[r]] = low] ELSE pos

PollMayReturnNil(r) ==
  Consumer = "port" => \A o \in log[part[r]] : o < pos[r][part[r]]

-----------------------------------------------------------------------------
(* Worker.Start with one topic, and backupTopic: the loop over partitions *)

Start(r) ==
  /\ pc[r] = "idle"
  /\ ~cancelled[r]
  /\ pc' = [pc EXCEPT ![r] = "next"]
  /\ pos' = [pos EXCEPT ![r] = logStart]
  /\ UNCHANGED <<kafkaVars, storeVars, part, offsets, batchVars, cancelled,
                 claimed>>

(* No consumer, no admin client or no list of partitions: nothing is done. *)
NoConnection(r) == "connect" \in Faults /\ pc[r] = "idle"

Finish(r) ==
  /\ \/ pc[r] = "next" /\ part[r] = NumPartitions
     \/ pc[r] \in {"idle", "next"} /\ cancelled[r]
     \/ NoConnection(r)
  /\ pc' = [pc EXCEPT ![r] = "finished"]
  /\ UNCHANGED <<kafkaVars, storeVars, part, offsets, pos, batchVars,
                 cancelled, claimed>>

HasNextPartition(r) ==
  pc[r] = "next" /\ part[r] < NumPartitions /\ ~cancelled[r]

(* GetOffsets and Seek.  highOffset is read, logged and never used again. *)
OpenPartition(r) ==
  /\ HasNextPartition(r)
  /\ pc' = [pc EXCEPT ![r] = "poll"]
  /\ offsets' = [offsets EXCEPT ![r] = [low |-> logStart[part[r]],
                                        high |-> logEnd[part[r]]]]
  /\ Seek(r, logStart[part[r]])
  /\ batch' = [batch EXCEPT ![r] = <<>>]
  /\ segmentNum' = [segmentNum EXCEPT ![r] = 0]
  /\ total' = [total EXCEPT ![r] = 0]
  /\ UNCHANGED <<kafkaVars, storeVars, part, why, cancelled, claimed>>

OpenFails_Stops(r) ==
  /\ "offsets" \in Faults
  /\ HasNextPartition(r)
  /\ pc' = [pc EXCEPT ![r] = "finished"]
  /\ UNCHANGED <<kafkaVars, storeVars, part, offsets, pos, batchVars,
                 cancelled, claimed>>

(* GetOffsets or Seek fails: backupTopic logs it and takes the next one. *)
OpenFails(r) ==
  /\ "offsets" \in Faults
  /\ HasNextPartition(r)
  /\ part' = [part EXCEPT ![r] = @ + 1]
  /\ UNCHANGED <<kafkaVars, storeVars, pc, offsets, pos, batchVars,
                 cancelled, claimed>>

(* backupPartition returns and its batch is gone. *)
Return(r) ==
  /\ pc' = [pc EXCEPT ![r] = "next"]
  /\ part' = [part EXCEPT ![r] = @ + 1]
  /\ batch' = [batch EXCEPT ![r] = <<>>]
  /\ UNCHANGED <<segmentNum, why>>

(* Returning nil claims that the partition is backed up. *)
ReturnNil(r) ==
  /\ Return(r)
  /\ claimed' = [claimed EXCEPT ![r][part[r]] = offsets[r]]

(* backupTopic logs the error and goes on with the next partition. *)
ReturnError(r) == Return(r) /\ UNCHANGED claimed

-----------------------------------------------------------------------------
(* backupPartition: the polling loop *)

BatchIsFull_OffByOne(b) == Len(b) > BatchSize

BatchIsFull(b) == Len(b) >= BatchSize

(* A message is appended; the batch is flushed when it is full or when the *)
(* flush interval has passed, which may be at any time.                    *)
Take(r, p, o) ==
  /\ batch' = [batch EXCEPT ![r] = Append(@, [part |-> p, off |-> o])]
  /\ total' = [total EXCEPT ![r] = @ + 1]
  /\ pos' = [pos EXCEPT ![r][p] = o + 1]
  /\ \E intervalPassed \in BOOLEAN :
       IF BatchIsFull(batch'[r]) \/ intervalPassed
         THEN /\ pc' = [pc EXCEPT ![r] = "put"]
              /\ why' = [why EXCEPT ![r] = "loop"]
         ELSE UNCHANGED <<pc, why>>

PollMessage(r) ==
  /\ pc[r] = "poll"
  /\ ~cancelled[r]
  /\ \E p \in PolledPartitions(r) : \E o \in log[p] :
       IsNext(o, p, pos[r][p]) /\ Take(r, p, o)
  /\ UNCHANGED <<kafkaVars, storeVars, part, offsets, segmentNum, cancelled,
                 claimed>>

PollFails(r) ==
  /\ "poll" \in Faults
  /\ pc[r] = "poll"
  /\ ~cancelled[r]
  /\ UNCHANGED vars

FlushRest(r, reason) ==
  /\ batch[r] # <<>>
  /\ pc' = [pc EXCEPT ![r] = "put"]
  /\ why' = [why EXCEPT ![r] = reason]
  /\ UNCHANGED <<part, batch, segmentNum, claimed>>

PollNil_DropsRest(r) ==
  /\ pc[r] = "poll"
  /\ ~cancelled[r]
  /\ PollMayReturnNil(r)
  /\ ReturnNil(r)
  /\ UNCHANGED <<kafkaVars, storeVars, offsets, pos, total, cancelled>>

PollNil(r) ==
  /\ pc[r] = "poll"
  /\ ~cancelled[r]
  /\ PollMayReturnNil(r)
  /\ \/ FlushRest(r, "eof")
     \/ batch[r] = <<>> /\ ReturnNil(r)
  /\ UNCHANGED <<kafkaVars, storeVars, offsets, pos, total, cancelled>>

(* break in the select leaves the select, not the loop. *)
CtxDone_BreaksSelect(r) ==
  /\ pc[r] = "poll"
  /\ cancelled[r]
  /\ FlushRest(r, "loop")
  /\ UNCHANGED <<kafkaVars, storeVars, offsets, pos, total, cancelled>>

CtxDone(r) ==
  /\ pc[r] = "poll"
  /\ cancelled[r]
  /\ \/ FlushRest(r, "cancel")
     \/ batch[r] = <<>> /\ ReturnError(r)
  /\ UNCHANGED <<kafkaVars, storeVars, offsets, pos, total, cancelled>>

-----------------------------------------------------------------------------
(* flushBatch.  Put is given the worker's context: S3 refuses a call whose *)
(* context is cancelled already, the local file system does not look.      *)

SegmentKey(r) == <<part[r], segmentNum[r]>>

StoreObject(r, object) == store' = Write(store, SegmentKey(r), object)

PutGoesTo(r, location) ==
  /\ pc' = [pc EXCEPT ![r] = location]
  /\ UNCHANGED <<kafkaVars, segMeta, part, offsets, pos, batchVars, cancelled,
                 claimed>>

S3Accepts(r) == AtomicPut /\ why[r] # "cancel"

PutObject(r) ==
  /\ pc[r] = "put"
  /\ S3Accepts(r)
  /\ StoreObject(r, Whole(batch[r]))
  /\ PutGoesTo(r, "meta")

CreateFile(r) ==
  /\ pc[r] = "put"
  /\ ~AtomicPut
  /\ StoreObject(r, Broken("empty"))
  /\ PutGoesTo(r, "write")

(* io.Copy writes at offset 0 of a file another run may have written since *)
(* this one truncated it: a longer one leaves its tail.                    *)
WriteFile(r) ==
  /\ pc[r] = "write"
  /\ \/ StoreObject(r, Whole(batch[r]))
     \/ /\ store[SegmentKey(r)].state # "empty"
        /\ StoreObject(r, Broken("torn"))
  /\ PutGoesTo(r, "meta")

(* flushBatch returns an error: only the loop looks at it. *)
FlushFailed_Ignored(r) ==
  \/ why[r] = "eof" /\ ReturnNil(r)
  \/ why[r] = "cancel" /\ ReturnError(r)
  \/ /\ why[r] = "loop"
     /\ pc' = [pc EXCEPT ![r] = "poll"]
     /\ batch' = [batch EXCEPT ![r] = <<>>]
     /\ segmentNum' = [segmentNum EXCEPT ![r] = @ + 1]
     /\ UNCHANGED <<part, why, claimed>>

FlushFailed(r) ==
  \/ why[r] = "eof" /\ ReturnNil(r)
  \/ why[r] # "eof" /\ ReturnError(r)

(* The error may come back after S3 has stored the object; a local write   *)
(* that fails leaves what it wrote.                                        *)
PutFails(r) ==
  /\ "put" \in Faults \/ (AtomicPut /\ cancelled[r])
  /\ \/ pc[r] = "put" /\ UNCHANGED store
     \/ pc[r] = "put" /\ S3Accepts(r) /\ StoreObject(r, Whole(batch[r]))
     \/ pc[r] = "write" /\ StoreObject(r, Broken("torn"))
  /\ FlushFailed(r)
  /\ UNCHANGED <<kafkaVars, segMeta, offsets, pos, total, cancelled>>

(* The start offset the two call sites compute: the loop subtracts the     *)
(* batch from lowOffset+totalMessages, the two final flushes do not.       *)
StartOffset_Uncorrected(r) == offsets[r].low + total[r]

StartOffset(r) ==
  offsets[r].low + total[r] - IF why[r] = "loop" THEN Len(batch[r]) ELSE 0

SegmentOffsets(r) ==
  [low |-> StartOffset(r), high |-> StartOffset(r) + Len(batch[r]) - 1]

NextSegment_Same(s) == s

NextSegment(s) == s + 1

FlushDone_KeepsBatch(r) ==
  \/ /\ why[r] = "loop"
     /\ pc' = [pc EXCEPT ![r] = "poll"]
     /\ segmentNum' = [segmentNum EXCEPT ![r] = NextSegment(@)]
     /\ UNCHANGED <<part, batch, why, claimed>>
  \/ why[r] = "eof" /\ ReturnNil(r)
  \/ why[r] = "cancel" /\ ReturnError(r)

FlushDone(r) ==
  \/ /\ why[r] = "loop"
     /\ pc' = [pc EXCEPT ![r] = "poll"]
     /\ batch' = [batch EXCEPT ![r] = <<>>]
     /\ segmentNum' = [segmentNum EXCEPT ![r] = NextSegment(@)]
     /\ UNCHANGED <<part, why, claimed>>
  \/ why[r] = "eof" /\ ReturnNil(r)
  \/ why[r] = "cancel" /\ ReturnError(r)

(* SaveSegmentMetadata: its error is logged, the flush has succeeded. *)
SaveSegmentMetadata(r) ==
  /\ pc[r] = "meta"
  /\ \/ segMeta' = Write(segMeta, SegmentKey(r), SegmentOffsets(r))
     \/ "meta" \in Faults /\ UNCHANGED segMeta
  /\ FlushDone(r)
  /\ UNCHANGED <<kafkaVars, store, offsets, pos, total, cancelled>>

-----------------------------------------------------------------------------
(* The process of the run *)

Alive(r) == pc[r] \notin Terminal

(* SIGTERM: the signal handler cancels the context. *)
Cancel(r) ==
  /\ "cancel" \in Faults
  /\ Alive(r)
  /\ ~cancelled[r]
  /\ cancelled' = [cancelled EXCEPT ![r] = TRUE]
  /\ UNCHANGED <<kafkaVars, storeVars, pc, part, offsets, pos, batchVars,
                 claimed>>

ProcessEnds(r, location) ==
  /\ Alive(r)
  /\ pc' = [pc EXCEPT ![r] = location]
  /\ UNCHANGED <<kafkaVars, storeVars, part, offsets, pos, batchVars,
                 cancelled, claimed>>

(* main waits for the context alone and returns: the worker's goroutine    *)
(* ends with the process, wherever it is.                                  *)
MainReturns(r) == cancelled[r] /\ ProcessEnds(r, "exited")

Crash(r) == "crash" \in Faults /\ ProcessEnds(r, "crashed")

Poll(r) == PollMessage(r) \/ PollFails(r) \/ PollNil(r)

(* What the worker does without waiting for what Poll answers. *)
OwnStep(r) ==
  \/ Start(r) \/ Finish(r) \/ OpenPartition(r) \/ OpenFails(r) \/ CtxDone(r)
  \/ PutObject(r) \/ CreateFile(r) \/ WriteFile(r) \/ PutFails(r)
  \/ SaveSegmentMetadata(r)

WorkerStep(r) == Poll(r) \/ OwnStep(r)

Terminating ==
  /\ \A r \in Runs : ~Alive(r)
  /\ UNCHANGED vars

Next ==
  \/ BrokerStep
  \/ \E r \in Runs : WorkerStep(r) \/ Cancel(r) \/ MainReturns(r) \/ Crash(r)
  \/ Terminating

Spec == Init /\ [][Next]_vars

(* A goroutine is scheduled, and a call to the broker or to the store       *)
(* returns in the end, if only with an error.  Nothing is said of Poll,     *)
(* which may fail for ever, of producers, which may never pause, of main or *)
(* of signals.                                                              *)
LiveSpec == Spec /\ \A r \in Runs : WF_vars(OwnStep(r))

-----------------------------------------------------------------------------
(* Properties *)

KafkaTypeOK ==
  /\ logStart \in [Partitions -> Nat]
  /\ logEnd \in [Partitions -> Nat]
  /\ log \in [Partitions -> SUBSET Nat]

StoreTypeOK ==
  /\ DOMAIN store \subseteq Key
  /\ \A k \in DOMAIN store : store[k] \in Object
  /\ DOMAIN segMeta \subseteq Key
  /\ \A k \in DOMAIN segMeta : segMeta[k] \in [low : Int, high : Int]

RunTypeOK ==
  /\ pc \in [Runs -> Location]
  /\ part \in [Runs -> Nat]
  /\ offsets \in [Runs -> OffsetRange]
  /\ pos \in [Runs -> [Partitions -> Nat]]
  /\ batch \in [Runs -> Seq(Message)]
  /\ segmentNum \in [Runs -> Nat]
  /\ total \in [Runs -> Nat]
  /\ why \in [Runs -> Reason]
  /\ cancelled \in [Runs -> BOOLEAN]
  /\ claimed \in [Runs -> [Partitions -> OffsetRange]]

(* Every variable has its type and a batch is never larger than BatchSize:  *)
(* the loop flushes it at the append that fills it.                         *)
TypeOK ==
  /\ KafkaTypeOK
  /\ StoreTypeOK
  /\ RunTypeOK
  /\ \A r \in Runs : Len(batch[r]) <= BatchSize

(* Messages of one partition, in the order of their offsets, and with none  *)
(* of the log's messages between two of them left out.                      *)
IsSlice(msgs, p) ==
  /\ \A i \in DOMAIN msgs : msgs[i].part = p
  /\ \A i, j \in DOMAIN msgs : i < j => msgs[i].off < msgs[j].off
  /\ \A o \in log[p] : \A i, j \in DOMAIN msgs :
       msgs[i].off <= o /\ o <= msgs[j].off =>
         \E m \in DOMAIN msgs : msgs[m].off = o

(* Whatever a segment decodes to is a slice of the partition its key names, *)
(* for any number of runs that overwrite one another's segments, through    *)
(* retention, compaction, failed writes and crashes.                        *)
SegmentIsSlice ==
  \A k \in DOMAIN store :
    store[k].state = "whole" => /\ store[k].msgs # <<>>
                                /\ IsSlice(store[k].msgs, k[1])

LastOf(s) == s[Len(s)]

(* The segments of a partition have no hole: below a segment all lower      *)
(* numbers exist and are readable, and the next one continues where its     *)
(* predecessor ends, skipping nothing the log still holds.  This is what    *)
(* lets a restore replay the keys in order.  One run only.                  *)
ChainUnbroken ==
  \A k \in DOMAIN store :
    k[2] > 0 =>
      LET before == <<k[1], k[2] - 1>> IN
        /\ before \in DOMAIN store
        /\ store[before].state = "whole"
        /\ store[k].state = "whole" =>
             LET a == LastOf(store[before].msgs).off
                 b == store[k].msgs[1].off IN
               /\ a < b
               /\ \A o \in log[k[1]] : ~(a < o /\ o < b)

(* Read in the order of their keys, the segments of a partition give        *)
(* ascending offsets: "Process segments in order", restore/worker.go:182.   *)
ReplayAscends ==
  \A k, l \in DOMAIN store :
    /\ k[1] = l[1] /\ k[2] < l[2]
    /\ store[k].state = "whole" /\ store[l].state = "whole"
    => LastOf(store[k].msgs).off < store[l].msgs[1].off

(* A run writes no key twice: a segment that was stored is never truncated, *)
(* torn or replaced by the run that stored it.                              *)
WriteOnce ==
  [][\A k \in DOMAIN store :
       store[k].state = "whole" => k \in DOMAIN store' /\ store'[k] = store[k]
    ]_vars

IsStored(p, o) ==
  \E k \in DOMAIN store :
    /\ k[1] = p
    /\ \E i \in DOMAIN store[k].msgs : store[k].msgs[i].off = o

(* When backupPartition has returned nil, every message that was in the     *)
(* partition when its offsets were read, and has not been deleted since,    *)
(* is in the store.                                                         *)
ClaimsAreStored ==
  \A r \in Runs, p \in Partitions :
    \A o \in log[p] :
      claimed[r][p].low <= o /\ o < claimed[r][p].high => IsStored(p, o)

(* The offsets saved for a segment are those of its first and last message. *)
MetaMatches(k) ==
  LET msgs == store[k].msgs IN
    segMeta[k] = [low |-> msgs[1].off, high |-> LastOf(msgs).off]

(* "SegmentMetadata contains metadata about a backup segment",              *)
(* domain/metadata.go:24: StartOffset and EndOffset of every segment.       *)
MetadataMatches == \A k \in DOMAIN segMeta : MetaMatches(k)

NoHoles(p) == log[p] = 0 .. logEnd[p] - 1

(* A segment that has a successor was flushed by the loop, and as long as   *)
(* the log has no holes the offsets saved for it are right, however many    *)
(* interval flushes came before it.                                         *)
InteriorMetaMatches ==
  \A k \in DOMAIN segMeta :
    NoHoles(k[1]) /\ <<k[1], k[2] + 1>> \in DOMAIN store => MetaMatches(k)

(* "Flush remaining messages before exit", worker.go:161: the process does  *)
(* not end with messages in the batch.                                      *)
FlushedBeforeExit == \A r \in Runs : pc[r] = "exited" => batch[r] = <<>>

(* The backup of each partition is a copy that only grows at its end.       *)
CopiedOffsets ==
  [p \in Partitions |->
     UNION {{store[k].msgs[i].off : i \in DOMAIN store[k].msgs} :
              k \in {l \in DOMAIN store : l[1] = p}}]

Copy == INSTANCE PartitionCopy WITH source <- log, copied <- CopiedOffsets

RefinesCopy == Copy!Spec

(* A cancelled worker returns by itself: the polling loop and the loop over *)
(* the partitions both look at the context.                                 *)
CancelStops == \A r \in Runs : cancelled[r] ~> pc[r] \in Terminal

(* "Continue with other partitions", worker.go:124: offsets that cannot be  *)
(* read, a Seek that fails and a flush or metadata that fails keep the      *)
(* worker from no later partition.  Only Poll can, by failing for ever or   *)
(* by never coming back empty: unless it is cancelled or dies, the worker   *)
(* visits all partitions or is in the polling loop time and again.          *)
OnlyPollHoldsUp ==
  \A r \in Runs :
    \/ <>(part[r] = NumPartitions \/ cancelled[r] \/ pc[r] = "crashed")
    \/ []<>(pc[r] = "poll")
=============================================================================
