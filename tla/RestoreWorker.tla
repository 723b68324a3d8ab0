--------------------------- MODULE RestoreWorker ---------------------------
(***************************************************************************)
(* One worker of a restore (internal/app/restore/worker.go): from the       *)
(* segments in the object store to the messages in the target cluster.     *)
(* Its read-modify-write of the restore's status is module RestoreService's;*)
(* here it is what the worker reports: completed, errors and counted.       *)
(*                                                                         *)
(* A step is a call to the store or to Kafka; between two of them the       *)
(* context may be cancelled, or the process may die and its pod run the     *)
(* whole restore again.                                                     *)
(***************************************************************************)
EXTENDS Integers, Sequences, FiniteSets

CONSTANTS
  NumTopics,      \* topics the coordinator gave to this worker
  NumPartitions,  \* partitions of each of them
  Stored,         \* <<topic, partition, segment>> -> messages in the segment
  Hash,           \* target partition of a message: sarama's hash of its key
  Configs,        \* the restores that are considered
  Producer,       \* "port": repository.Producer; "shipped": kafka.Producer
  MaxRuns,        \* bound: how often the pod is started
  Faults          \* what may go wrong

Segments == DOMAIN Stored

Topics == 0 .. NumTopics - 1
Partitions == 0 .. NumPartitions - 1
MessageAt(k, i) == <<k[1], k[2], k[3], i>>
MessagesOf(k) == {MessageAt(k, i) : i \in 1 .. Stored[k]}
Messages == UNION {MessagesOf(k) : k \in Segments}

(* The part of domain.Restore a worker looks at, the implementation of the  *)
(* store, and the files a crashed backup has left torn.                     *)
Config ==
  [selected : SUBSET Topics,               \* TopicSelectors
   partitions : SUBSET (Topics \X Partitions),  \* PartitionFilter
   mapping : [Topics -> Nat],              \* TopicMapping
   createTopics : BOOLEAN,
   storage : {"local", "s3"},
   torn : SUBSET Segments]

ASSUME RestoreAssumption ==
  /\ NumTopics \in Nat
  /\ NumPartitions \in 0 .. 100
  /\ Segments \subseteq Topics \X Partitions \X Nat
  /\ Stored \in [Segments -> Nat]
  /\ Hash \in [Messages -> Partitions]
  /\ Configs \subseteq Config
  /\ Producer \in {"port", "shipped"}
  /\ MaxRuns \in Nat \ {0}
  /\ Faults \subseteq {"connect", "admin", "list", "read", "produce",
                       "cancel", "crash"}

VARIABLES
  config,     \* the restore, never changed
  exists,     \* topics of the target cluster
  target,     \* what the target cluster has received, in that order
  pc,         \* where the worker is
  run,        \* how often the pod has been started
  topic,      \* loop of Start
  part,       \* loop of restoreTopic
  listed,     \* segments getTopicSegments returned
  pending,    \* loop of restorePartition: segments still to be restored
  current,    \* the segment that is being produced
  index,      \* loop of produceMessages
  sent,       \* producedCount
  counted,    \* MessagesRestored, as far as this worker adds to it
  completed,  \* topics reported as completed
  errors,     \* locations passed to recordError: <<topic>>, <<topic, part>>
  skipped,    \* messages a warning or an error was logged for
  cancelled   \* ctx.Done()

loopVars == <<topic, part, listed, pending, current, index, sent>>
reportVars == <<counted, completed, errors, skipped>>
vars == <<config, exists, target, pc, run, loopVars, reportVars, cancelled>>

Location ==
  {"start", "topic", "ensure", "list", "part", "segment", "produce",
   "done", "failed", "cancelled", "crashed"}

Terminal == {"done", "failed", "cancelled", "crashed"}

(* Locals as the code declares them, reports as CreateRestore leaves them.  *)
FreshLocals ==
  /\ topic' = 0 /\ part' = 0 /\ listed' = {} /\ pending' = {}
  /\ current' = <<>> /\ index' = 1 /\ sent' = 0
  /\ counted' = 0 /\ completed' = {} /\ errors' = {} /\ skipped' = {}
  /\ cancelled' = FALSE

Init ==
  /\ config \in Configs
  /\ exists \in SUBSET {config.mapping[t] : t \in Topics}
  /\ target = <<>>
  /\ pc = "start"
  /\ run = 1
  /\ topic = 0 /\ part = 0 /\ listed = {} /\ pending = {}
  /\ current = <<>> /\ index = 1 /\ sent = 0
  /\ counted = 0 /\ completed = {} /\ errors = {} /\ skipped = {}
  /\ cancelled = FALSE

-----------------------------------------------------------------------------
(* Names and keys *)

(* strings.Contains(key, "partition-p"): the partition of the key is p, or  *)
(* its decimal begins with p.  Partition numbers have at most two digits.   *)
InPartition(k, p) == k[2] = p \/ (k[2] >= 10 /\ k[2] \div 10 = p)

Selected(t) == t \in config.selected

ShouldRestorePartition_All(t, p) == TRUE

ShouldRestorePartition(t, p) == <<t, p>> \in config.partitions

FilteredByPartition(p) == {k \in listed : InPartition(k, p)}

(* "segment-%06d": the first six digits of the number.                      *)
PaddedTo == 1000000
Leading(s) == IF s < PaddedTo THEN s ELSE s \div 10

ListedBefore_Unpadded(k, l) ==
  LET Tens(s) == IF s < 10 THEN s ELSE s \div 10 IN
    \/ k[2] < l[2]
    \/ k[2] = l[2] /\ Tens(k[3]) < Tens(l[3])

(* Walk and ListObjectsV2 both return keys in lexical order: the partitions *)
(* that match one pattern come by number, and so do segment numbers as long *)
(* as they have six digits.  Numbers of up to seven digits.                 *)
ListedBefore(k, l) ==
  \/ k[2] < l[2]
  \/ /\ k[2] = l[2]
     /\ \/ Leading(k[3]) < Leading(l[3])
        \/ Leading(k[3]) = Leading(l[3]) /\ k[3] < l[3]

IsFirst(k) == k \in pending /\ \A l \in pending \ {k} : ListedBefore(k, l)

(* Get puts the repository's prefix in front of the key.  On S3 the keys    *)
(* that List returned have it already, so that the object is not found.     *)
GetFinds(k) == config.storage = "local"

(* Decompression and json.Unmarshal. *)
Decodes(k) == k \notin config.torn

CanRead(k) == GetFinds(k) /\ Decodes(k)

-----------------------------------------------------------------------------
(* Start: CreateProducer, CreateAdmin, then the loop over the topics *)

Goto(location) == pc' = location

(* sarama refuses Idempotent with more than one open request, which is what *)
(* CreateProducer asks for: the shipped producer is never created.          *)
CreateProducerFails == Producer = "shipped" \/ "connect" \in Faults

CreateAdminFails == "connect" \in Faults

Start ==
  /\ pc = "start"
  /\ \/ Producer = "port" /\ Goto("topic")
     \/ (CreateProducerFails \/ CreateAdminFails) /\ Goto("failed")
  /\ UNCHANGED <<config, exists, target, run, loopVars, reportVars, cancelled>>

(* The next iteration of Start's loop. *)
NextTopic ==
  /\ topic' = topic + 1
  /\ part' = 0
  /\ listed' = {}
  /\ Goto("topic")

StartTopic ==
  /\ pc = "topic"
  /\ topic < NumTopics
  /\ ~cancelled
  /\ \/ ~Selected(topic) /\ NextTopic
     \/ /\ Selected(topic)
        /\ Goto(IF config.createTopics THEN "ensure" ELSE "list")
        /\ UNCHANGED <<topic, part, listed>>
  /\ UNCHANGED <<config, exists, target, run, pending, current, index, sent,
                 reportVars, cancelled>>

Return ==
  /\ pc = "topic"
  /\ \/ topic = NumTopics /\ Goto("done")
     \/ topic < NumTopics /\ cancelled /\ Goto("cancelled")
  /\ UNCHANGED <<config, exists, target, run, loopVars, reportVars, cancelled>>

(* GetMappedTopicName. *)
TargetTopic == config.mapping[topic]

DescribeTopic(t) == t \in exists /\ UNCHANGED exists

CreateTopic(t) == t \notin exists /\ exists' = exists \cup {t}

(* An error of either call is logged only. *)
EnsureTopicExists ==
  /\ pc = "ensure"
  /\ \/ DescribeTopic(TargetTopic)
     \/ CreateTopic(TargetTopic)
     \/ "admin" \in Faults /\ UNCHANGED exists
  /\ Goto("list")
  /\ UNCHANGED <<config, target, run, loopVars, reportVars, cancelled>>

(* The keys below the topic's directory.  The prefix of an S3 listing also  *)
(* matches topics whose names go on after this one's; none of the keys that *)
(* S3 lists can be read (GetFinds), so they would add warnings only.  That  *)
(* no partition is stored beyond those of the topic's metadata is           *)
(* RestoreAssumption.                                                       *)
SegmentsOfTopic(t) == {k \in Segments : k[1] = t}

(* Walk fails on a directory that is not there: a topic without messages    *)
(* cannot be restored from local files.                                     *)
ListFinds(t) == config.storage = "s3" \/ SegmentsOfTopic(t) # {}

GetTopicSegments ==
  /\ pc = "list"
  /\ ListFinds(topic)
  /\ listed' = SegmentsOfTopic(topic)
  /\ Goto("part")
  /\ UNCHANGED <<config, exists, target, run, topic, part, pending, current,
                 index, sent, reportVars, cancelled>>

ListFails ==
  /\ pc = "list"
  /\ "list" \in Faults \/ ~ListFinds(topic)
  /\ errors' = errors \cup {<<topic>>}
  /\ NextTopic
  /\ UNCHANGED <<config, exists, target, run, pending, current, index, sent,
                 counted, completed, skipped, cancelled>>

-----------------------------------------------------------------------------
(* restoreTopic: the loop over the partitions *)

MorePartitions_OffByOne == part <= NumPartitions

MorePartitions == part < NumPartitions

StartPartition ==
  /\ pc = "part"
  /\ MorePartitions
  /\ ~cancelled
  /\ \/ /\ ~ShouldRestorePartition(topic, part)
        /\ part' = part + 1
        /\ UNCHANGED <<pc, pending>>
     \/ /\ ShouldRestorePartition(topic, part)
        /\ pending' = FilteredByPartition(part)
        /\ Goto("segment")
        /\ UNCHANGED part
  /\ UNCHANGED <<config, exists, target, run, topic, listed, current, index,
                 sent, reportVars, cancelled>>

(* The topic is completed whatever became of its partitions.                *)
TopicDone ==
  /\ pc = "part"
  /\ ~MorePartitions
  /\ completed' = completed \cup {topic}
  /\ NextTopic
  /\ UNCHANGED <<config, exists, target, run, pending, current, index, sent,
                 counted, errors, skipped, cancelled>>

TopicCancelled ==
  /\ pc = "part"
  /\ MorePartitions
  /\ cancelled
  /\ errors' = errors \cup {<<topic>>}
  /\ NextTopic
  /\ UNCHANGED <<config, exists, target, run, pending, current, index, sent,
                 counted, completed, skipped, cancelled>>

-----------------------------------------------------------------------------
(* restorePartition: the loop over the segments *)

(* The next iteration of restoreTopic's loop. *)
NextPartition ==
  /\ part' = part + 1
  /\ pending' = {}
  /\ current' = <<>>
  /\ index' = 1
  /\ sent' = 0
  /\ Goto("part")

PartitionDone ==
  /\ pc = "segment"
  /\ pending = {}
  /\ NextPartition
  /\ UNCHANGED <<config, exists, target, run, topic, listed, reportVars,
                 cancelled>>

PartitionCancelled_Silent ==
  /\ cancelled
  /\ pc = "segment" /\ pending # {}
  /\ NextPartition
  /\ UNCHANGED <<config, exists, target, run, topic, listed, reportVars,
                 cancelled>>

(* ctx.Done() before a segment, or before one of its messages: what has     *)
(* been produced of the segment is not counted.                             *)
PartitionCancelled ==
  /\ cancelled
  /\ \/ pc = "segment" /\ pending # {}
     \/ pc = "produce" /\ index <= Stored[current]
  /\ errors' = errors \cup {<<topic, part>>}
  /\ NextPartition
  /\ UNCHANGED <<config, exists, target, run, topic, listed, counted,
                 completed, skipped, cancelled>>

(* An empty segment is passed over. *)
ReadSegment ==
  /\ pc = "segment"
  /\ ~cancelled
  /\ \E k \in pending :
       /\ IsFirst(k)
       /\ CanRead(k)
       /\ \/ /\ Stored[k] = 0
             /\ pending' = pending \ {k}
             /\ UNCHANGED <<pc, current>>
          \/ /\ Stored[k] > 0
             /\ current' = k
             /\ Goto("produce")
             /\ UNCHANGED pending
  /\ UNCHANGED <<config, exists, target, run, topic, part, listed, index, sent,
                 reportVars, cancelled>>

ReadFails_Again ==
  /\ pc = "segment"
  /\ ~cancelled
  /\ \E k \in pending : IsFirst(k) /\ ~CanRead(k)
  /\ UNCHANGED vars

(* A segment that cannot be read is logged, and the next one follows.       *)
ReadFails ==
  /\ pc = "segment"
  /\ ~cancelled
  /\ \E k \in pending :
       /\ IsFirst(k)
       /\ ~CanRead(k) \/ "read" \in Faults
       /\ pending' = pending \ {k}
       /\ skipped' = skipped \cup MessagesOf(k)
  /\ UNCHANGED <<config, exists, target, pc, run, topic, part, listed, current,
                 index, sent, counted, completed, errors, cancelled>>

-----------------------------------------------------------------------------
(* produceMessages: the loop over the messages of a segment *)

Message == MessageAt(current, index)

(* convertMessage: the mapped topic, and no partition, which leaves the     *)
(* choice to the hash of the key.                                           *)
Produced(m) ==
  [run |-> run, to |-> <<TargetTopic, Hash[m]>>, msg |-> m]

MoreMessages == pc = "produce" /\ index <= Stored[current] /\ ~cancelled

(* SendMessage returns when the brokers have the message.  A topic that is  *)
(* missing is created by a broker that is configured to.                    *)
Produce ==
  /\ MoreMessages
  /\ target' = Append(target, Produced(Message))
  /\ exists' = exists \cup {TargetTopic}
  /\ sent' = sent + 1
  /\ index' = index + 1
  /\ UNCHANGED <<config, pc, run, topic, part, listed, pending, current,
                 reportVars, cancelled>>

(* SendMessage fails: the message is lost, or only the answer is.  The next *)
(* message follows.                                                         *)
ProduceFails ==
  /\ MoreMessages
  /\ \/ /\ "produce" \in Faults
        /\ target' = Append(target, Produced(Message))
     \/ /\ "produce" \in Faults \/ TargetTopic \notin exists
        /\ UNCHANGED target
  /\ skipped' = skipped \cup {Message}
  /\ index' = index + 1
  /\ UNCHANGED <<config, exists, pc, run, topic, part, listed, pending,
                 current, sent, counted, completed, errors, cancelled>>

SegmentDone_CountsTotal ==
  /\ pc = "produce"
  /\ index > Stored[current]
  /\ counted' = counted + sent
  /\ pending' = pending \ {current}
  /\ current' = <<>>
  /\ index' = 1
  /\ Goto("segment")
  /\ UNCHANGED <<config, exists, target, run, topic, part, listed, sent,
                 completed, errors, skipped, cancelled>>

(* Flush does nothing; updateWorkerStatus; back to the loop over segments.  *)
SegmentDone ==
  /\ pc = "produce"
  /\ index > Stored[current]
  /\ counted' = counted + sent
  /\ pending' = pending \ {current}
  /\ current' = <<>>
  /\ index' = 1
  /\ sent' = 0
  /\ Goto("segment")
  /\ UNCHANGED <<config, exists, target, run, topic, part, listed, completed,
                 errors, skipped, cancelled>>

-----------------------------------------------------------------------------
(* The process *)

Alive == pc \notin Terminal

(* SIGTERM: the signal handler cancels the context. *)
Cancel ==
  /\ "cancel" \in Faults
  /\ Alive
  /\ ~cancelled
  /\ cancelled' = TRUE
  /\ UNCHANGED <<config, exists, target, pc, run, loopVars, reportVars>>

Crash ==
  /\ "crash" \in Faults
  /\ Alive
  /\ Goto("crashed")
  /\ UNCHANGED <<config, exists, target, run, loopVars, reportVars, cancelled>>

(* RestartPolicyOnFailure: main creates and starts the restore anew; the    *)
(* target keeps what it has.                                                *)
Restart ==
  /\ pc = "crashed"
  /\ run < MaxRuns
  /\ run' = run + 1
  /\ Goto("start")
  /\ FreshLocals
  /\ UNCHANGED <<config, exists, target>>

WorkerStep ==
  \/ Start \/ StartTopic \/ Return \/ EnsureTopicExists
  \/ GetTopicSegments \/ ListFails
  \/ StartPartition \/ TopicDone \/ TopicCancelled
  \/ PartitionDone \/ PartitionCancelled \/ ReadSegment \/ ReadFails
  \/ Produce \/ ProduceFails \/ SegmentDone

Terminating ==
  /\ ~Alive
  /\ pc = "crashed" => run >= MaxRuns
  /\ UNCHANGED vars

Next == WorkerStep \/ Cancel \/ Crash \/ Restart \/ Terminating

Spec == Init /\ [][Next]_vars

(* The worker's goroutine is scheduled and its calls return.  Nothing is    *)
(* said of signals, crashes and restarts.                                   *)
LiveSpec == Spec /\ WF_vars(WorkerStep)

-----------------------------------------------------------------------------
(* Properties *)

Entry == [run : 1 .. MaxRuns, to : Nat \X Partitions, msg : Messages]

(* Every variable has its type: the loops stay within their topics,         *)
(* partitions and segments, and only messages of the backup are produced.   *)
TypeOK ==
  /\ config \in Configs
  /\ exists \in SUBSET Nat
  /\ target \in Seq(Entry)
  /\ pc \in Location
  /\ run \in 1 .. MaxRuns
  /\ topic \in 0 .. NumTopics
  /\ part \in 0 .. NumPartitions
  /\ listed \in SUBSET Segments
  /\ pending \in SUBSET Segments
  /\ current \in Segments \cup {<<>>}
  /\ current # <<>> => index \in 1 .. Stored[current] + 1
  /\ pc = "produce" => current \in pending
  /\ sent \in Nat
  /\ counted \in Nat
  /\ completed \in SUBSET Topics
  /\ errors \in SUBSET (Seq(Nat))
  /\ skipped \in SUBSET Messages
  /\ cancelled \in BOOLEAN

(* The order the source partition had them in. *)
Precedes(m, n) == m[3] < n[3] \/ (m[3] = n[3] /\ m[4] < n[4])

SamePartition(m, n) == m[1] = n[1] /\ m[2] = n[2]

(* "Process segments in order", worker.go:182, and "filterSegmentsByPartition*)
(* filters segments for a specific partition", worker.go:337: within one    *)
(* run the messages of a source partition reach the target in their order,  *)
(* none of them twice, whatever is skipped, fails or is cancelled.          *)
RestoredInOrder ==
  \A i, j \in DOMAIN target :
    (/\ i < j
     /\ target[i].run = target[j].run
     /\ SamePartition(target[i].msg, target[j].msg))
      => Precedes(target[i].msg, target[j].msg)

(* The messages this run has to restore of a topic. *)
Due(t) ==
  UNION {MessagesOf(k) : k \in
    {l \in SegmentsOfTopic(t) : ShouldRestorePartition(t, l[2])}}

Restored == {target[i].msg : i \in {j \in DOMAIN target : target[j].run = run}}

(* A topic is reported completed only when each of its messages is in the   *)
(* target, or a warning was logged for it, or an error is recorded for its  *)
(* partition: restoreTopic loses nothing without a trace.                   *)
NothingVanishes ==
  \A t \in completed : \A m \in Due(t) :
    m \in Restored \/ m \in skipped \/ <<t, m[2]>> \in errors

(* MessagesRestored never counts a message that this run did not produce:   *)
(* messages whose SendMessage failed and segments that were cut short are   *)
(* left out.                                                                *)
CountedIsRestored ==
  counted + sent <= Cardinality({j \in DOMAIN target : target[j].run = run})

(* What the restore asks for: TopicSelectors and PartitionFilter.           *)
Wanted ==
  {m \in Messages : m[1] \in config.selected /\ <<m[1], m[2]>> \in config.partitions}

Missed == {m \in Messages : m \in skipped \/ <<m[1], m[2]>> \in errors}

Replay == INSTANCE TopicReplay WITH
  TopicOf <- [m \in Messages |-> m[1]],
  Earlier <- {dm \in Messages \X Messages :
                SamePartition(dm[1], dm[2]) /\ Precedes(dm[1], dm[2])},
  wanted <- Wanted, attempt <- run, missed <- Missed

(* The whole restore is an ordered replay of what was asked for, and of     *)
(* nothing else: a message is produced only after every earlier one of its  *)
(* partition has been, or has left a trace, through failures, filters,      *)
(* cancellation and restarts of the pod.                                    *)
RefinesReplay == Replay!Spec

(* A worker that has been started ends, however many segments cannot be     *)
(* read and messages not produced: no failure is tried again for ever.      *)
EveryRunEnds == pc = "start" ~> pc \in Terminal
=============================================================================
