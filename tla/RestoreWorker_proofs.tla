------------------------ MODULE RestoreWorker_proofs ------------------------
(***************************************************************************)
(* Theorems about RestoreWorker, for any backup, restore, hash, number of   *)
(* topics, partitions and restarts, and any faults.                         *)
(***************************************************************************)
EXTENDS RestoreWorker, FiniteSetTheorems, TLAPS

-----------------------------------------------------------------------------
(* The constants *)

LEMMA Sizes ==
  /\ NumTopics \in Nat /\ 0 \in 0 .. NumTopics
  /\ NumPartitions \in Nat /\ 0 \in 0 .. NumPartitions
  /\ MaxRuns \in Nat /\ 1 \in 1 .. MaxRuns
BY RestoreAssumption

LEMMA Triples ==
  ASSUME NEW a \in Nat, NEW b \in Nat, NEW c \in Nat
  PROVE  <<a, b, c>> # <<>>
OBVIOUS

LEMMA SegmentType ==
  ASSUME NEW k \in Segments
  PROVE  /\ k = <<k[1], k[2], k[3]>> /\ k # <<>>
         /\ k[1] \in Topics /\ k[2] \in Partitions /\ k[3] \in Nat
         /\ k[1] \in Nat /\ k[2] \in Nat
         /\ Stored[k] \in Nat
<1>1. k \in Topics \X Partitions \X Nat /\ Stored[k] \in Nat
  BY RestoreAssumption
<1>2. k = <<k[1], k[2], k[3]>> /\ k[1] \in Topics /\ k[2] \in Partitions /\ k[3] \in Nat
  BY <1>1
<1>3. k[1] \in Nat /\ k[2] \in Nat
  BY <1>2 DEF Topics, Partitions
<1>4. k # <<>>
  BY <1>2, <1>3, Triples
<1> QED
  BY <1>1, <1>2, <1>3, <1>4

(* A message of a segment knows its topic, its partition and its segment.   *)
LEMMA MessageOfSegment ==
  ASSUME NEW k \in Segments, NEW i \in 1 .. Stored[k]
  PROVE  /\ MessageAt(k, i) \in MessagesOf(k) /\ MessageAt(k, i) \in Messages
         /\ MessageAt(k, i)[1] = k[1] /\ MessageAt(k, i)[2] = k[2]
         /\ MessageAt(k, i)[3] = k[3] /\ MessageAt(k, i)[4] = i
<1>1. MessageAt(k, i) \in MessagesOf(k)
  BY DEF MessagesOf
<1>2. MessageAt(k, i) \in Messages
  BY <1>1 DEF Messages
<1> QED
  BY <1>1, <1>2 DEF MessageAt

LEMMA MessageParts ==
  ASSUME NEW k \in Segments, NEW m \in MessagesOf(k)
  PROVE  /\ m \in Messages
         /\ m[1] = k[1] /\ m[2] = k[2] /\ m[3] = k[3]
         /\ m[4] \in 1 .. Stored[k] /\ m = MessageAt(k, m[4])
<1>1. PICK i \in 1 .. Stored[k] : m = MessageAt(k, i)
  BY DEF MessagesOf
<1> QED
  BY <1>1, MessageOfSegment

LEMMA ConfigType ==
  ASSUME config \in Configs, NEW t \in Topics
  PROVE  config.mapping[t] \in Nat
<1>1. config \in Config
  BY RestoreAssumption
<1> QED
  BY <1>1 DEF Config

-----------------------------------------------------------------------------
(* Types *)

(* Between two segments the locals of produceMessages are as it declares    *)
(* them; the loops are in range where their bodies run.                     *)
LoopInv ==
  /\ pc \in {"start", "topic", "ensure", "list", "part", "segment"}
       => current = <<>> /\ index = 1 /\ sent = 0
  /\ pc \in {"ensure", "list", "part", "segment", "produce"} => topic \in Topics
  /\ pc \in {"segment", "produce"} => part \in Partitions

TInv == TypeOK /\ LoopInv

LEMMA TypeInit == Init => TInv
<1> SUFFICES ASSUME Init PROVE TInv
  OBVIOUS
<1>1. exists \in SUBSET Nat
  BY ConfigType DEF Init
<1>2. /\ pc \in Location /\ run \in 1 .. MaxRuns
      /\ topic \in 0 .. NumTopics /\ part \in 0 .. NumPartitions
  BY Sizes DEF Init, Location
<1>3. /\ listed \in SUBSET Segments /\ pending \in SUBSET Segments
      /\ current \in Segments \cup {<<>>} /\ current = <<>>
      /\ pc = "start"
  BY DEF Init
<1>4. /\ sent \in Nat /\ counted \in Nat /\ completed \in SUBSET Topics
      /\ errors \in SUBSET (Seq(Nat)) /\ skipped \in SUBSET Messages
      /\ cancelled \in BOOLEAN /\ config \in Configs
  <2>1. /\ sent = 0 /\ counted = 0 /\ completed = {} /\ errors = {} /\ skipped = {}
        /\ cancelled = FALSE /\ config \in Configs
    BY DEF Init
  <2> QED
    BY <2>1
<1>5. target \in Seq(Entry)
  <2>1. target = <<>>
    BY DEF Init
  <2> QED
    BY <2>1
<1>6. LoopInv
  BY <1>3 DEF LoopInv, Init
<1> QED
  BY <1>1, <1>2, <1>3, <1>4, <1>5, <1>6 DEF TInv, TypeOK

(* Start and its loop over the topics. *)
LEMMA TypeStart ==
  ASSUME TInv, Start \/ StartTopic \/ Return \/ EnsureTopicExists
  PROVE  TInv'
<1>1. CASE Start \/ Return
  BY <1>1 DEF Start, Return, Goto, loopVars, reportVars, TInv, TypeOK, LoopInv, Location
<1>2. CASE StartTopic
  <2>1. UNCHANGED <<config, exists, target, run, pending, current, index, sent,
                    reportVars, cancelled>>
    BY <1>2 DEF StartTopic
  <2>2. topic \in Topics /\ current = <<>> /\ index = 1 /\ sent = 0
    BY <1>2, Sizes DEF StartTopic, TInv, TypeOK, LoopInv, Topics
  <2>3. CASE NextTopic
    <3>1. topic' \in 0 .. NumTopics /\ part' \in 0 .. NumPartitions /\ listed' = {} /\ pc' = "topic"
      BY <2>2, <2>3, Sizes DEF NextTopic, Goto, Topics
    <3>2. UNCHANGED <<current, index, sent>>
      BY <2>1
    <3>3. LoopInv'
      BY <2>2, <3>1, <3>2 DEF LoopInv
    <3>4. TypeOK'
      BY <2>1, <3>1 DEF reportVars, TInv, TypeOK, Location
    <3> QED
      BY <3>3, <3>4 DEF TInv
  <2>4. CASE UNCHANGED <<topic, part, listed>> /\ pc' \in {"ensure", "list"}
    BY <2>1, <2>2, <2>4 DEF reportVars, TInv, TypeOK, LoopInv, Location
  <2> QED
    BY <1>2, <2>3, <2>4 DEF StartTopic, Goto
<1>3. CASE EnsureTopicExists
  <2>1. /\ UNCHANGED <<config, target, run, loopVars, reportVars, cancelled>>
        /\ pc' = "list" /\ topic \in Topics
        /\ current = <<>> /\ index = 1 /\ sent = 0
    BY <1>3 DEF EnsureTopicExists, Goto, TInv, LoopInv
  <2>2. exists' \in SUBSET Nat
    <3>1. TargetTopic \in Nat
      BY <2>1, ConfigType DEF TargetTopic, TInv, TypeOK
    <3>2. exists' = exists \/ exists' = exists \cup {TargetTopic}
      BY <1>3 DEF EnsureTopicExists, DescribeTopic, CreateTopic
    <3> QED
      BY <3>1, <3>2 DEF TInv, TypeOK
  <2> QED
    BY <2>1, <2>2 DEF loopVars, reportVars, TInv, TypeOK, LoopInv, Location
<1> QED
  BY <1>1, <1>2, <1>3

LEMMA Locations ==
  ASSUME NEW t \in Nat, NEW p \in Nat
  PROVE  <<t>> \in Seq(Nat) /\ <<t, p>> \in Seq(Nat)
OBVIOUS

(* On to the next topic, from restoreTopic or from its listing. *)
LEMMA TypeNextTopic ==
  ASSUME TInv, ListFails \/ TopicDone \/ TopicCancelled
  PROVE  TInv'
<1>1. /\ NextTopic /\ topic \in Topics
      /\ current = <<>> /\ index = 1 /\ sent = 0
      /\ UNCHANGED <<config, exists, target, run, pending, current, index, sent,
                     counted, skipped, cancelled>>
  BY DEF ListFails, TopicDone, TopicCancelled, TInv, LoopInv
<1>2. topic' \in 0 .. NumTopics /\ part' \in 0 .. NumPartitions /\ listed' = {} /\ pc' = "topic"
  BY <1>1, Sizes DEF NextTopic, Goto, Topics
<1>3. topic \in Nat
  BY <1>1 DEF Topics
<1>4. completed' \in SUBSET Topics
  BY <1>1 DEF ListFails, TopicDone, TopicCancelled, TInv, TypeOK
<1>5. errors' \in SUBSET (Seq(Nat))
  BY <1>3, Locations DEF ListFails, TopicDone, TopicCancelled, TInv, TypeOK
<1> QED
  BY <1>1, <1>2, <1>4, <1>5 DEF TInv, TypeOK, LoopInv, Location

LEMMA TypePartition ==
  ASSUME TInv, GetTopicSegments \/ StartPartition
  PROVE  TInv'
<1>1. CASE GetTopicSegments
  BY <1>1 DEF GetTopicSegments, SegmentsOfTopic, Goto, reportVars, TInv, TypeOK,
              LoopInv, Location
<1>2. CASE StartPartition
  <2>1. UNCHANGED <<config, exists, target, run, topic, listed, current, index,
                    sent, reportVars, cancelled>>
    BY <1>2 DEF StartPartition
  <2>2. part \in Partitions /\ part + 1 \in 0 .. NumPartitions
    BY <1>2, Sizes DEF StartPartition, MorePartitions, TInv, TypeOK, Partitions
  <2>3. pending' \in SUBSET Segments
    BY <1>2 DEF StartPartition, FilteredByPartition, TInv, TypeOK
  <2>4. CASE part' = part + 1 /\ pc' = "part"
    BY <1>2, <2>1, <2>2, <2>3, <2>4
    DEF StartPartition, reportVars, TInv, TypeOK, LoopInv, Location
  <2>5. CASE part' = part /\ pc' = "segment"
    <3>1. topic \in Topics /\ current = <<>> /\ index = 1 /\ sent = 0
      BY <1>2 DEF StartPartition, TInv, LoopInv
    <3> QED
      BY <2>1, <2>2, <2>3, <2>5, <3>1
      DEF reportVars, TInv, TypeOK, LoopInv, Location
  <2> QED
    BY <1>2, <2>4, <2>5 DEF StartPartition, Goto, TInv
<1> QED
  BY <1>1, <1>2

LEMMA TypeNextPartition ==
  ASSUME TInv, PartitionDone \/ PartitionCancelled
  PROVE  TInv'
<1>1. /\ NextPartition /\ topic \in Topics /\ part \in Partitions
      /\ UNCHANGED <<config, exists, target, run, topic, listed, counted,
                     completed, skipped, cancelled>>
  BY DEF PartitionDone, PartitionCancelled, reportVars, TInv, LoopInv
<1>2. /\ part' \in 0 .. NumPartitions /\ pending' = {} /\ current' = <<>>
      /\ index' = 1 /\ sent' = 0 /\ pc' = "part"
  BY <1>1, Sizes DEF NextPartition, Goto, Partitions
<1>3. topic \in Nat /\ part \in Nat
  BY <1>1 DEF Topics, Partitions
<1>4. errors' \in SUBSET (Seq(Nat))
  <2>1. <<topic, part>> \in Seq(Nat)
    BY <1>3, Locations
  <2>2. errors' = errors \/ errors' = errors \cup {<<topic, part>>}
    BY DEF PartitionDone, PartitionCancelled, reportVars
  <2> QED
    BY <2>1, <2>2 DEF TInv, TypeOK
<1> QED
  BY <1>1, <1>2, <1>4 DEF TInv, TypeOK, LoopInv, Location

LEMMA TypeRead ==
  ASSUME TInv, ReadSegment \/ ReadFails
  PROVE  TInv'
<1>1. /\ topic \in Topics /\ part \in Partitions /\ pc = "segment"
      /\ current = <<>> /\ index = 1 /\ sent = 0
  BY DEF ReadSegment, ReadFails, TInv, LoopInv
<1>2. CASE ReadFails
  <2>1. PICK k \in pending : /\ pending' = pending \ {k}
                             /\ skipped' = skipped \cup MessagesOf(k)
    BY <1>2 DEF ReadFails
  <2>2. k \in Segments
    BY <2>1 DEF TInv, TypeOK
  <2>3. skipped' \in SUBSET Messages
    BY <2>1, <2>2, MessageParts DEF TInv, TypeOK
  <2>4. pending' \in SUBSET Segments
    BY <2>1 DEF TInv, TypeOK
  <2>5. UNCHANGED <<config, exists, target, pc, run, topic, part, listed, current,
                    index, sent, counted, completed, errors, cancelled>>
    BY <1>2 DEF ReadFails
  <2> QED
    BY <1>1, <2>3, <2>4, <2>5 DEF TInv, TypeOK, LoopInv, Location
<1>3. CASE ReadSegment
  <2>1. UNCHANGED <<config, exists, target, run, topic, part, listed, index, sent,
                    reportVars, cancelled>>
    BY <1>3 DEF ReadSegment
  <2>2. PICK k \in pending :
          \/ pending' = pending \ {k} /\ UNCHANGED <<pc, current>>
          \/ /\ Stored[k] > 0 /\ current' = k /\ pc' = "produce"
             /\ UNCHANGED pending
    BY <1>3 DEF ReadSegment, Goto
  <2>3. k \in Segments /\ Stored[k] \in Nat /\ k # <<>>
    BY <2>2, SegmentType DEF TInv, TypeOK
  <2>4. CASE pending' = pending \ {k} /\ UNCHANGED <<pc, current>>
    <3>1. pending' \in SUBSET Segments
      BY <2>4 DEF TInv, TypeOK
    <3> QED
      BY <1>1, <2>1, <2>4, <3>1 DEF reportVars, TInv, TypeOK, LoopInv, Location
  <2>5. CASE /\ Stored[k] > 0 /\ current' = k /\ pc' = "produce"
             /\ UNCHANGED pending
    <3>1. index' \in 1 .. Stored[current'] + 1
      BY <1>1, <2>1, <2>3, <2>5
    <3> QED
      BY <1>1, <2>1, <2>2, <2>3, <2>5, <3>1
      DEF reportVars, TInv, TypeOK, LoopInv, Location
  <2> QED
    BY <2>2, <2>4, <2>5
<1> QED
  BY <1>2, <1>3

(* The segment in hand. *)
LEMMA InHand ==
  ASSUME TInv, pc = "produce"
  PROVE  /\ current \in pending /\ current \in Segments /\ current # <<>>
         /\ Stored[current] \in Nat /\ index \in 1 .. Stored[current] + 1
         /\ topic \in Topics /\ part \in Partitions /\ run \in 1 .. MaxRuns
<1>1. /\ current \in pending /\ current \in Segments
      /\ topic \in Topics /\ part \in Partitions /\ run \in 1 .. MaxRuns
  BY DEF TInv, TypeOK, LoopInv
<1>2. current # <<>> /\ Stored[current] \in Nat
  BY <1>1, SegmentType
<1> QED
  BY <1>1, <1>2 DEF TInv, TypeOK

LEMMA ProducedType ==
  ASSUME TInv, MoreMessages
  PROVE  /\ Message \in Messages /\ index \in 1 .. Stored[current]
         /\ Produced(Message) \in Entry /\ TargetTopic \in Nat
         /\ Produced(Message).run = run /\ Produced(Message).msg = Message
<1>1. index \in 1 .. Stored[current] /\ current \in Segments
      /\ topic \in Topics /\ run \in 1 .. MaxRuns
  BY InHand DEF MoreMessages
<1>2. Message \in Messages
  BY <1>1, MessageOfSegment DEF Message
<1>3. Hash[Message] \in Partitions
  BY <1>2, RestoreAssumption
<1>4. TargetTopic \in Nat
  BY <1>1, ConfigType DEF TargetTopic, TInv, TypeOK
<1> QED
  BY <1>1, <1>2, <1>3, <1>4 DEF Produced, Entry

LEMMA TypeProduce ==
  ASSUME TInv, Produce \/ ProduceFails \/ SegmentDone
  PROVE  TInv'
<1>1. pc = "produce"
  BY DEF Produce, ProduceFails, SegmentDone, MoreMessages
<1>2. ASSUME MoreMessages PROVE index + 1 \in 1 .. Stored[current] + 1
  BY <1>2, <1>1, InHand DEF MoreMessages
<1>3. CASE Produce
  <2>1. /\ MoreMessages /\ index' = index + 1 /\ sent' = sent + 1
        /\ UNCHANGED <<config, pc, run, topic, part, listed, pending, current,
                       reportVars, cancelled>>
    BY <1>3 DEF Produce
  <2>2. exists' \in SUBSET Nat
    BY <1>3, ProducedType DEF Produce, TInv, TypeOK
  <2>3. target' \in Seq(Entry)
    BY <1>3, ProducedType DEF Produce, TInv, TypeOK
  <2>4. index' \in 1 .. Stored[current'] + 1 /\ sent' \in Nat
    BY <2>1, <1>2 DEF TInv, TypeOK
  <2> QED
    BY <1>1, <2>1, <2>2, <2>3, <2>4 DEF reportVars, TInv, TypeOK, LoopInv
<1>4. CASE ProduceFails
  <2>1. /\ MoreMessages /\ index' = index + 1
        /\ UNCHANGED <<config, exists, pc, run, topic, part, listed, pending,
                       current, sent, counted, completed, errors, cancelled>>
    BY <1>4 DEF ProduceFails
  <2>2. skipped' \in SUBSET Messages
    BY <1>4, <2>1, ProducedType DEF ProduceFails, TInv, TypeOK
  <2>3. target' \in Seq(Entry)
    BY <1>4, <2>1, ProducedType DEF ProduceFails, TInv, TypeOK
  <2>4. index' \in 1 .. Stored[current'] + 1
    BY <2>1, <1>2
  <2> QED
    BY <1>1, <2>1, <2>2, <2>3, <2>4 DEF TInv, TypeOK, LoopInv
<1>5. CASE SegmentDone
  <2>1. /\ current' = <<>> /\ index' = 1 /\ sent' = 0 /\ pc' = "segment"
        /\ UNCHANGED <<config, exists, target, run, topic, part, listed,
                       completed, errors, skipped, cancelled>>
    BY <1>5 DEF SegmentDone, Goto
  <2>2. counted' \in Nat /\ pending' \in SUBSET Segments
    BY <1>5 DEF SegmentDone, TInv, TypeOK
  <2>3. topic \in Topics /\ part \in Partitions
    BY <1>1, InHand
  <2> QED
    BY <2>1, <2>2, <2>3 DEF TInv, TypeOK, LoopInv, Location
<1> QED
  BY <1>3, <1>4, <1>5

(* Signals, crashes and restarts, and no step at all. *)
LEMMA TypeProcess ==
  ASSUME TInv, Cancel \/ Crash \/ Restart \/ UNCHANGED vars
  PROVE  TInv'
<1>1. CASE Cancel
  BY <1>1 DEF Cancel, loopVars, reportVars, TInv, TypeOK, LoopInv
<1>2. CASE Crash
  BY <1>2 DEF Crash, Goto, loopVars, reportVars, TInv, TypeOK, LoopInv, Location
<1>3. CASE Restart
  <2>1. run' \in 1 .. MaxRuns
    BY <1>3, Sizes DEF Restart, TInv, TypeOK
  <2>2. FreshLocals /\ UNCHANGED <<config, exists, target>> /\ pc' = "start"
    BY <1>3 DEF Restart, Goto
  <2> QED
    BY <2>1, <2>2, Sizes DEF FreshLocals, TInv, TypeOK, LoopInv, Location
<1>4. CASE UNCHANGED vars
  BY <1>4 DEF vars, loopVars, reportVars, TInv, TypeOK, LoopInv
<1> QED
  BY <1>1, <1>2, <1>3, <1>4

LEMMA TypeStep == TInv /\ [Next]_vars => TInv'
BY TypeStart, TypeNextTopic, TypePartition, TypeNextPartition, TypeRead,
   TypeProduce, TypeProcess
DEF Next, WorkerStep, Terminating

(* The loops of a restore worker stay within their topics, partitions,      *)
(* segments and messages, and it produces nothing but messages of the       *)
(* backup, to a partition that their topic has.                             *)
THEOREM TypeCorrect == Spec => []TypeOK
<1>1. TInv => TypeOK
  BY DEF TInv
<1> QED
  BY TypeInit, TypeStep, <1>1, PTL DEF Spec
-----------------------------------------------------------------------------
(* What the target has received *)

LEMMA Appended ==
  ASSUME NEW s \in Seq(Entry), NEW e \in Entry, NEW n, n = Len(s) + 1,
         NEW t, t = Append(s, e)
  PROVE  /\ n \in Nat /\ n \notin DOMAIN s
         /\ \A j \in DOMAIN s : j \in Nat /\ j < n /\ t[j] = s[j]
         /\ DOMAIN t = DOMAIN s \cup {n} /\ t[n] = e
OBVIOUS

OfRun(r) == {j \in DOMAIN target : target[j].run = r}

(* The only call that changes the target. *)
Sends ==
  /\ MoreMessages
  /\ target' = Append(target, Produced(Message))

LEMMA SendsOne ==
  ASSUME TInv, Sends
  PROVE  \E n \in Nat :
           /\ n \notin DOMAIN target /\ DOMAIN target' = DOMAIN target \cup {n}
           /\ target'[n] = Produced(Message)
           /\ \A j \in DOMAIN target : j \in Nat /\ j < n /\ target'[j] = target[j]
<1>1. target \in Seq(Entry) /\ Produced(Message) \in Entry
  BY ProducedType DEF Sends, TInv, TypeOK
<1>2. PICK n : n = Len(target) + 1
  OBVIOUS
<1> QED
  BY <1>1, <1>2, Appended DEF Sends

LEMMA NextIsOneOf ==
  ASSUME TInv, [Next]_vars
  PROVE  \/ UNCHANGED <<run, target>>
         \/ UNCHANGED run /\ Sends
         \/ Restart
<1>1. CASE Produce \/ ProduceFails
  BY <1>1 DEF Produce, ProduceFails, Sends, reportVars
<1>2. CASE Start \/ StartTopic \/ Return \/ EnsureTopicExists \/ GetTopicSegments
           \/ ListFails \/ StartPartition \/ TopicDone \/ TopicCancelled
  BY <1>2 DEF Start, StartTopic, Return, EnsureTopicExists, GetTopicSegments,
              ListFails, StartPartition, TopicDone, TopicCancelled
<1>3. CASE PartitionDone \/ PartitionCancelled \/ ReadSegment \/ ReadFails
           \/ SegmentDone \/ Cancel \/ Crash
  BY <1>3 DEF PartitionDone, PartitionCancelled, ReadSegment, ReadFails,
              SegmentDone, Cancel, Crash
<1>4. CASE UNCHANGED vars
  BY <1>4 DEF vars
<1> QED
  BY <1>1, <1>2, <1>3, <1>4 DEF Next, WorkerStep, Terminating

(* No run of the pod has sent anything yet that is still to be started.     *)
RunInv == \A j \in DOMAIN target : target[j].run \in 1 .. run

LEMMA RunStep ==
  ASSUME TInv, RunInv, [Next]_vars
  PROVE  RunInv' /\ (Restart => OfRun(run)' = {})
<1>0. run \in Nat /\ run \in 1 .. run
  BY Sizes DEF TInv, TypeOK
<1>1. CASE UNCHANGED <<run, target>> /\ ~Restart
  BY <1>1 DEF RunInv
<1>2. CASE UNCHANGED run /\ Sends /\ ~Restart
  <2>1. PICK n \in Nat :
          /\ n \notin DOMAIN target /\ DOMAIN target' = DOMAIN target \cup {n}
          /\ target'[n] = Produced(Message)
          /\ \A j \in DOMAIN target : j \in Nat /\ j < n /\ target'[j] = target[j]
    BY <1>2, SendsOne
  <2>2. target'[n].run \in 1 .. run'
    BY <1>0, <1>2, <2>1, ProducedType DEF Sends
  <2> QED
    BY <1>2, <2>1, <2>2 DEF RunInv
<1>3. CASE Restart
  <2>1. run' = run + 1 /\ target' = target
    BY <1>3 DEF Restart
  <2>2. \A r \in 1 .. run : r \in 1 .. run' /\ r # run'
    BY <1>0, <2>1
  <2> QED
    BY <2>1, <2>2 DEF RunInv, OfRun
<1> QED
  BY <1>1, <1>2, <1>3, NextIsOneOf

-----------------------------------------------------------------------------
(* What is counted *)

LEMMA Sums ==
  ASSUME NEW a \in Nat, NEW b \in Nat, NEW c \in Nat, a + b <= c,
         NEW x \in Nat, NEW y \in Nat
  PROVE  /\ x + y <= a + b => x + y <= c
         /\ x = a /\ y \in {b, b + 1} => x + y <= c + 1
OBVIOUS

CountInv == IsFiniteSet(OfRun(run)) /\ CountedIsRestored

LEMMA CountStep ==
  ASSUME TInv, RunInv, CountInv, [Next]_vars
  PROVE  CountInv'
<1>0. sent \in Nat /\ counted \in Nat
  BY DEF TInv, TypeOK
<1>a. PICK c : c = Cardinality(OfRun(run))
  OBVIOUS
<1>b. IsFiniteSet(OfRun(run)) /\ c \in Nat /\ counted + sent <= c
  BY <1>a, FS_CardinalityType DEF CountInv, CountedIsRestored, OfRun
<1>1. CASE Restart
  <2>1. OfRun(run)' = {} /\ counted' = 0 /\ sent' = 0
    BY <1>1, RunStep DEF Restart, FreshLocals
  <2>2. CountedIsRestored'
    BY <2>1, FS_EmptySet DEF CountedIsRestored, OfRun
  <2> QED
    BY <2>1, <2>2, FS_EmptySet DEF CountInv
<1>2. CASE UNCHANGED run /\ Sends /\ ~Restart
  <2>1. PICK n \in Nat :
          /\ n \notin DOMAIN target /\ DOMAIN target' = DOMAIN target \cup {n}
          /\ target'[n] = Produced(Message)
          /\ \A j \in DOMAIN target : j \in Nat /\ j < n /\ target'[j] = target[j]
    BY <1>2, SendsOne
  <2>2. Produced(Message).run = run
    BY <1>2, ProducedType DEF Sends
  <2>3. OfRun(run)' = OfRun(run) \cup {n} /\ n \notin OfRun(run)
    BY <1>2, <2>1, <2>2 DEF OfRun
  <2>4. IsFiniteSet(OfRun(run)') /\ Cardinality(OfRun(run)') = c + 1
    BY <1>a, <1>b, <2>3, FS_AddElement
  <2>5. counted' = counted /\ sent' \in {sent, sent + 1}
    BY <1>2 DEF Next, WorkerStep, Terminating, vars, loopVars, reportVars, Start,
      StartTopic, Return, EnsureTopicExists, GetTopicSegments, ListFails,
      StartPartition, TopicDone, TopicCancelled, PartitionDone,
      PartitionCancelled, ReadSegment, ReadFails, Produce, ProduceFails,
      SegmentDone, Cancel, Crash, Sends, MoreMessages, NextPartition, Goto
  <2>6. counted' + sent' <= c + 1
    <3>1. counted' \in Nat /\ sent' \in Nat
      BY TypeStep DEF TInv, TypeOK
    <3> QED
      BY <1>0, <1>b, <2>5, <3>1, Sums
  <2> QED
    BY <2>4, <2>6 DEF CountInv, CountedIsRestored, OfRun
<1>3. CASE UNCHANGED <<run, target>> /\ ~Restart /\ ~Produce
  <2>1. counted' + sent' <= counted + sent
    <3>1. CASE SegmentDone
      BY <3>1, <1>0 DEF SegmentDone
    <3>2. CASE PartitionDone \/ PartitionCancelled
      BY <3>2, <1>0 DEF PartitionDone, PartitionCancelled, NextPartition, reportVars
    <3>3. CASE ProduceFails \/ ReadSegment \/ ReadFails \/ Cancel \/ Crash
               \/ UNCHANGED vars
      BY <3>3, <1>0 DEF ProduceFails, ReadSegment, ReadFails, Cancel, Crash, vars,
                        loopVars, reportVars
    <3>4. CASE Start \/ StartTopic \/ Return \/ EnsureTopicExists
               \/ GetTopicSegments \/ ListFails \/ StartPartition \/ TopicDone
               \/ TopicCancelled
      BY <3>4, <1>0
      DEF Start, StartTopic, Return, EnsureTopicExists, GetTopicSegments, ListFails,
          StartPartition, TopicDone, TopicCancelled, loopVars, reportVars
    <3> QED
      BY <1>3, <3>1, <3>2, <3>3, <3>4 DEF Next, WorkerStep, Terminating
  <2>2. OfRun(run)' = OfRun(run)
    BY <1>3 DEF OfRun
  <2>3. counted' \in Nat /\ sent' \in Nat
    BY TypeStep DEF TInv, TypeOK
  <2>4. counted' + sent' <= c
    BY <1>0, <1>b, <2>1, <2>3, Sums
  <2> QED
    BY <1>a, <1>b, <2>2, <2>4 DEF CountInv, CountedIsRestored, OfRun
<1>4. CASE Produce
  BY <1>2, <1>4 DEF Produce, Sends, Restart, MoreMessages, reportVars
<1> QED
  BY <1>1, <1>2, <1>3, <1>4, NextIsOneOf

(* The counter of restored messages never exceeds what this run of the pod  *)
(* has produced: neither failures nor segments cut short are counted.       *)
THEOREM CountIsHonest == Spec => []CountedIsRestored
<1>1. Init => RunInv /\ CountInv
  <2> SUFFICES ASSUME Init PROVE RunInv /\ CountInv
    OBVIOUS
  <2>1. target = <<>> /\ counted = 0 /\ sent = 0 /\ DOMAIN target = {}
    BY DEF Init
  <2>2. OfRun(run) = {}
    BY <2>1 DEF OfRun
  <2>3. CountedIsRestored
    BY <2>1, <2>2, FS_EmptySet DEF CountedIsRestored, OfRun
  <2> QED
    BY <2>1, <2>2, <2>3, FS_EmptySet DEF RunInv, CountInv
<1>2. TInv /\ RunInv /\ CountInv /\ [Next]_vars => (RunInv /\ CountInv)'
  BY RunStep, CountStep
<1>3. CountInv => CountedIsRestored
  BY DEF CountInv
<1> QED
  BY TypeInit, TypeStep, <1>1, <1>2, <1>3, PTL DEF Spec
-----------------------------------------------------------------------------
(* What is lost leaves a trace *)

Covered(m) == m \in Restored \/ m \in skipped \/ <<m[1], m[2]>> \in errors

Done(k) == \A m \in MessagesOf(k) : Covered(m)

Keeps ==
  /\ \A j \in DOMAIN target : j \in DOMAIN target' /\ target'[j] = target[j]
  /\ run' = run /\ skipped \subseteq skipped' /\ errors \subseteq errors'

LEMMA Monotone ==
  ASSUME Keeps
  PROVE  /\ \A m : Covered(m) => Covered(m)'
         /\ \A k : Done(k) => Done(k)'
<1>1. Restored \subseteq Restored'
  BY DEF Restored, Keeps
<1>2. \A m : Covered(m) => Covered(m)'
  BY <1>1 DEF Covered, Keeps
<1> QED
  BY <1>2 DEF Done, MessagesOf, MessageAt

LEMMA StepKeeps ==
  ASSUME TInv, [Next]_vars, ~Restart
  PROVE  Keeps
<1>1. run' = run /\ \A j \in DOMAIN target : j \in DOMAIN target' /\ target'[j] = target[j]
  <2>1. CASE UNCHANGED <<run, target>>
    BY <2>1
  <2>2. CASE UNCHANGED run /\ Sends
    BY <2>2, SendsOne
  <2> QED
    BY <2>1, <2>2, NextIsOneOf
<1>2. skipped \subseteq skipped' /\ errors \subseteq errors'
  <2>1. CASE Start \/ StartTopic \/ Return \/ EnsureTopicExists \/ GetTopicSegments
             \/ ListFails \/ StartPartition \/ TopicDone \/ TopicCancelled
    BY <2>1
    DEF Start, StartTopic, Return, EnsureTopicExists, GetTopicSegments, ListFails,
        StartPartition, TopicDone, TopicCancelled, reportVars
  <2>2. CASE PartitionDone \/ PartitionCancelled \/ ReadSegment \/ ReadFails
             \/ Produce \/ ProduceFails \/ SegmentDone \/ Cancel \/ Crash
    BY <2>2
    DEF PartitionDone, PartitionCancelled, ReadSegment, ReadFails, Produce,
        ProduceFails, SegmentDone, Cancel, Crash, reportVars
  <2>3. CASE UNCHANGED vars
    BY <2>3 DEF vars, reportVars
  <2> QED
    BY <2>1, <2>2, <2>3 DEF Next, WorkerStep, Terminating
<1> QED
  BY <1>1, <1>2 DEF Keeps

AtPartitions == pc \in {"part", "segment", "produce"}

Selects(t, k) == k[1] = t /\ ShouldRestorePartition(t, k[2])

(* What the completed topics, and the finished partitions and segments of   *)
(* the current one, still owe: nothing.                                     *)
TopicsInv == \A t \in completed : \A k \in Segments : Selects(t, k) => Done(k)

PartitionsInv ==
  AtPartitions =>
    /\ listed = SegmentsOfTopic(topic)
    /\ \A k \in Segments : Selects(topic, k) /\ k[2] < part => Done(k)

SegmentsInv ==
  /\ pc \in {"segment", "produce"} =>
       \A k \in SegmentsOfTopic(topic) : k[2] = part => k \in pending \/ Done(k)
  /\ pc = "produce" => \A i \in 1 .. index - 1 : Covered(MessageAt(current, i))

CoverInv ==
  /\ pc \in {"start", "topic", "ensure", "list"} => part = 0
  /\ TopicsInv
  /\ PartitionsInv
  /\ SegmentsInv

LEMMA TopicsStep ==
  ASSUME TInv, CoverInv, Keeps, completed' = completed, config' = config
  PROVE  TopicsInv'
BY Monotone DEF CoverInv, TopicsInv, Selects, ShouldRestorePartition, Segments

LEMMA PartitionsStep ==
  ASSUME TInv, CoverInv, Keeps, config' = config, AtPartitions,
         topic' = topic, listed' = listed,
         \A k \in Segments : Selects(topic, k) /\ k[2] < part' /\ ~(k[2] < part) => Done(k)'
  PROVE  PartitionsInv'
<1>1. listed' = SegmentsOfTopic(topic)'
  BY DEF CoverInv, PartitionsInv, SegmentsOfTopic, Segments
<1>2. \A k \in Segments : Selects(topic, k) /\ k[2] < part' => Done(k)'
  BY Monotone DEF CoverInv, PartitionsInv
<1> QED
  BY <1>1, <1>2 DEF PartitionsInv, Selects, ShouldRestorePartition, Segments

(* Outside of restoreTopic. *)
LEMMA CoverOutside ==
  ASSUME TInv, CoverInv, Keeps,
         \/ Start \/ StartTopic \/ Return \/ EnsureTopicExists \/ ListFails
         \/ TopicCancelled \/ Crash
  PROVE  CoverInv'
<1>1. /\ completed' = completed /\ config' = config
      /\ pc' \notin {"part", "segment", "produce"}
      /\ pc' \in {"start", "topic", "ensure", "list"} => part' = 0
  BY DEF Start, StartTopic, Return, EnsureTopicExists, ListFails, TopicCancelled,
         Crash, NextTopic, Goto, loopVars, reportVars, CoverInv
<1> QED
  BY <1>1, TopicsStep DEF CoverInv, PartitionsInv, SegmentsInv, AtPartitions

LEMMA CoverList ==
  ASSUME TInv, CoverInv, Keeps, GetTopicSegments
  PROVE  CoverInv'
<1>1. /\ completed' = completed /\ config' = config /\ topic' = topic
      /\ part = 0 /\ part' = 0 /\ listed' = SegmentsOfTopic(topic) /\ pc' = "part"
  BY DEF GetTopicSegments, Goto, reportVars, CoverInv
<1>2. \A k \in Segments : ~(k[2] < 0)
  BY SegmentType
<1>3. PartitionsInv'
  BY <1>1, <1>2 DEF PartitionsInv, SegmentsOfTopic, Segments
<1> QED
  BY <1>1, <1>3, TopicsStep DEF CoverInv, SegmentsInv

LEMMA CoverTopicDone ==
  ASSUME TInv, CoverInv, Keeps, TopicDone
  PROVE  CoverInv'
<1>1. /\ completed' = completed \cup {topic} /\ config' = config
      /\ part' = 0 /\ pc' = "topic" /\ ~(part < NumPartitions) /\ pc = "part"
  BY DEF TopicDone, NextTopic, Goto, MorePartitions
<1>2. \A k \in Segments : k[2] < part
  <2> SUFFICES ASSUME NEW k \in Segments PROVE k[2] < part
    OBVIOUS
  <2>1. k[2] \in 0 .. NumPartitions - 1
    BY SegmentType DEF Partitions
  <2>2. part \in 0 .. NumPartitions
    BY DEF TInv, TypeOK
  <2> QED
    BY <1>1, <2>1, <2>2, Sizes
<1>3. \A k \in Segments : Selects(topic, k) => Done(k)
  BY <1>1, <1>2 DEF CoverInv, PartitionsInv, AtPartitions
<1>4. TopicsInv'
  BY <1>1, <1>3, Monotone
  DEF CoverInv, TopicsInv, Selects, ShouldRestorePartition, Segments
<1> QED
  BY <1>1, <1>4 DEF CoverInv, PartitionsInv, SegmentsInv, AtPartitions

LEMMA CoverStartPartition ==
  ASSUME TInv, CoverInv, Keeps, StartPartition
  PROVE  CoverInv'
<1>1. /\ completed' = completed /\ config' = config /\ topic' = topic
      /\ listed' = listed /\ pc = "part" /\ AtPartitions
  BY DEF StartPartition, reportVars, AtPartitions
<1>2. TopicsInv'
  BY <1>1, TopicsStep
<1>3. CASE ~ShouldRestorePartition(topic, part) /\ part' = part + 1 /\ pc' = "part"
  <2>1. ASSUME NEW k \in Segments, Selects(topic, k), k[2] < part', ~(k[2] < part)
        PROVE  FALSE
    <3>1. part \in Nat /\ k[2] \in Nat
      BY SegmentType, Sizes DEF TInv, TypeOK
    <3>2. k[2] = part
      BY <1>3, <2>1, <3>1
    <3> QED
      BY <1>3, <2>1, <3>2 DEF Selects
  <2>2. PartitionsInv'
    BY <1>1, <2>1, PartitionsStep
  <2> QED
    BY <1>2, <1>3, <2>2 DEF CoverInv, SegmentsInv
<1>4. CASE part' = part /\ pending' = FilteredByPartition(part) /\ pc' = "segment"
  <2>1. PartitionsInv'
    BY <1>1, <1>4, PartitionsStep
  <2>2. \A k \in SegmentsOfTopic(topic) : k[2] = part => k \in pending'
    BY <1>1, <1>4
    DEF CoverInv, PartitionsInv, FilteredByPartition, InPartition
  <2>3. SegmentsInv'
    BY <1>1, <1>4, <2>2 DEF SegmentsInv, SegmentsOfTopic, Segments
  <2> QED
    BY <1>2, <1>4, <2>1, <2>3 DEF CoverInv
<1> QED
  BY <1>1, <1>3, <1>4 DEF StartPartition, Goto

LEMMA CoverNextPartition ==
  ASSUME TInv, CoverInv, Keeps, PartitionDone \/ PartitionCancelled
  PROVE  CoverInv'
<1>1. /\ completed' = completed /\ config' = config /\ topic' = topic
      /\ listed' = listed /\ part' = part + 1 /\ pc' = "part"
      /\ pc \in {"segment", "produce"} /\ AtPartitions
  BY DEF PartitionDone, PartitionCancelled, NextPartition, Goto, reportVars,
         AtPartitions
<1>2. ASSUME NEW k \in Segments, k[1] = topic, k[2] = part
      PROVE  Done(k)'
  <2>1. CASE PartitionDone
    <3>1. Done(k)
      BY <1>1, <1>2, <2>1 DEF PartitionDone, CoverInv, SegmentsInv, SegmentsOfTopic
    <3> QED
      BY <3>1, Monotone
  <2>2. CASE PartitionCancelled
    <3>1. <<topic, part>> \in errors'
      BY <2>2 DEF PartitionCancelled
    <3>2. \A m \in MessagesOf(k) : <<m[1], m[2]>> \in errors'
      BY <1>2, <3>1, MessageParts
    <3> QED
      BY <3>2 DEF Done, Covered, MessagesOf, MessageAt
  <2> QED
    BY <2>1, <2>2
<1>3. \A k \in Segments : k[2] < part' /\ ~(k[2] < part) => k[2] = part
  <2>1. part \in Nat
    BY Sizes DEF TInv, TypeOK
  <2> QED
    BY <1>1, <2>1, SegmentType
<1>4. PartitionsInv'
  BY <1>1, <1>2, <1>3, PartitionsStep DEF Selects
<1> QED
  BY <1>1, <1>4, TopicsStep DEF CoverInv, SegmentsInv

(* Within a partition: the segments that leave pending are done with.       *)
LEMMA CoverSegment ==
  ASSUME TInv, CoverInv, Keeps, [Next]_vars,
         \/ ReadSegment \/ ReadFails \/ Produce \/ ProduceFails \/ SegmentDone
         \/ Cancel \/ UNCHANGED vars
  PROVE  CoverInv'
<1>1. /\ completed' = completed /\ config' = config /\ topic' = topic
      /\ listed' = listed /\ part' = part
      /\ AtPartitions' <=> AtPartitions
      /\ pc' \in {"segment", "produce"} <=> pc \in {"segment", "produce"}
      /\ pc' \in {"start", "topic", "ensure", "list"} <=>
           pc \in {"start", "topic", "ensure", "list"}
  BY DEF ReadSegment, ReadFails, Produce, ProduceFails, SegmentDone, MoreMessages,
         Cancel, Goto, vars, loopVars, reportVars, AtPartitions
<1>2. TopicsInv'
  BY <1>1, TopicsStep
<1>3. PartitionsInv'
  BY <1>1, PartitionsStep DEF PartitionsInv
<1>4. ASSUME pc' = "produce"
      PROVE  (\A i \in 1 .. index - 1 : Covered(MessageAt(current, i)))'
  <2>1. CASE ReadSegment
    <3>1. index' = 1
      BY <2>1 DEF ReadSegment, TInv, LoopInv
    <3> QED
      BY <3>1
  <2>2. CASE Produce \/ ProduceFails
    <3>1. MoreMessages /\ index' = index + 1 /\ current' = current /\ pc = "produce"
      BY <2>2 DEF Produce, ProduceFails, MoreMessages
    <3>2. index \in Nat
      BY <3>1, InHand DEF MoreMessages
    <3>3. PICK n, c, m : n = index /\ c = current /\ m = Message /\ m = MessageAt(c, n)
      BY DEF Message
    <3>4. Covered(m)'
      <4>1. CASE Produce
        <5>1. Sends /\ run' = run
          BY <4>1 DEF Produce, Sends
        <5>2. PICK j \in DOMAIN target' : target'[j] = Produced(Message)
          BY <5>1, SendsOne
        <5>3. target'[j].run = run' /\ target'[j].msg = m
          BY <3>1, <3>3, <5>1, <5>2, ProducedType
        <5>4. m \in Restored'
          BY <5>2, <5>3 DEF Restored
        <5> QED
          BY <5>4 DEF Covered
      <4>2. CASE ProduceFails
        <5>1. m \in skipped'
          BY <3>3, <4>2 DEF ProduceFails
        <5> QED
          BY <5>1 DEF Covered
      <4> QED
        BY <2>2, <4>1, <4>2
    <3>5. \A i \in 1 .. n - 1 : Covered(MessageAt(c, i))
      BY <3>1, <3>3 DEF CoverInv, SegmentsInv
    <3>6. \A i \in 1 .. n - 1 : Covered(MessageAt(c, i))'
      BY <3>5, Monotone
    <3>7. \A i \in 1 .. n : Covered(MessageAt(c, i))'
      BY <3>2, <3>3, <3>4, <3>6
    <3>8. index' - 1 = n /\ current' = c
      BY <3>1, <3>2, <3>3
    <3> QED
      BY <3>7, <3>8
  <2>3. CASE Cancel \/ UNCHANGED vars
    <3>1. UNCHANGED <<pc, index, current>>
      BY <2>3 DEF Cancel, vars, loopVars
    <3>2. PICK n, c : n = index /\ c = current
      OBVIOUS
    <3>3. \A i \in 1 .. n - 1 : Covered(MessageAt(c, i))
      BY <1>4, <3>1, <3>2 DEF CoverInv, SegmentsInv
    <3>4. \A i \in 1 .. n - 1 : Covered(MessageAt(c, i))'
      BY <3>3, Monotone
    <3> QED
      BY <3>1, <3>2, <3>4
  <2>4. ~ReadFails /\ ~SegmentDone
    BY <1>4 DEF ReadFails, SegmentDone, Goto
  <2> QED
    BY <2>1, <2>2, <2>3, <2>4
<1>5. ASSUME pc \in {"segment", "produce"}, NEW k \in SegmentsOfTopic(topic), k[2] = part
      PROVE  k \in pending' \/ Done(k)'
  <2>0. k \in pending \/ Done(k)
    BY <1>5 DEF CoverInv, SegmentsInv
  <2>1. CASE Done(k) \/ k \in pending'
    BY <2>1, Monotone
  <2>2. CASE k \in pending /\ k \notin pending'
    <3>0. k \in Segments
      BY <2>2 DEF TInv, TypeOK
    <3>1. CASE ReadSegment
      <4>1. Stored[k] = 0
        BY <2>2, <3>1 DEF ReadSegment
      <4>2. MessagesOf(k) = {}
        BY <4>1 DEF MessagesOf
      <4> QED
        BY <4>2 DEF Done, MessagesOf, MessageAt
    <3>2. CASE ReadFails
      <4>1. MessagesOf(k) \subseteq skipped'
        BY <2>2, <3>2 DEF ReadFails
      <4> QED
        BY <4>1 DEF Done, Covered, MessagesOf, MessageAt
    <3>3. CASE SegmentDone
      <4>1. k = current /\ index > Stored[current] /\ pc = "produce"
        BY <2>2, <3>3 DEF SegmentDone
      <4>2. index \in Nat /\ Stored[k] \in Nat
        BY <4>1, InHand
      <4>3. \A i \in 1 .. Stored[k] : Covered(MessageAt(k, i))
        BY <4>1, <4>2 DEF CoverInv, SegmentsInv
      <4>4. Done(k)
        BY <4>3 DEF Done, MessagesOf
      <4> QED
        BY <4>4, Monotone
    <3>4. ~(Produce \/ ProduceFails \/ Cancel \/ UNCHANGED vars)
      BY <2>2 DEF Produce, ProduceFails, Cancel, vars, loopVars
    <3> QED
      BY <3>1, <3>2, <3>3, <3>4
  <2> QED
    BY <2>0, <2>1, <2>2
<1>6. SegmentsInv'
  BY <1>1, <1>4, <1>5 DEF SegmentsInv, SegmentsOfTopic, Segments
<1> QED
  BY <1>1, <1>2, <1>3, <1>6 DEF CoverInv

LEMMA CoverStep ==
  ASSUME TInv, CoverInv, [Next]_vars
  PROVE  CoverInv'
<1>1. CASE Restart
  BY <1>1
  DEF Restart, FreshLocals, Goto, CoverInv, TopicsInv, PartitionsInv, SegmentsInv,
      AtPartitions
<1>2. CASE ~Restart
  BY <1>2, StepKeeps, CoverOutside, CoverList, CoverTopicDone, CoverStartPartition,
     CoverNextPartition, CoverSegment
  DEF Next, WorkerStep, Terminating
<1> QED
  BY <1>1, <1>2

(* A topic that is reported completed has lost nothing without a trace: each*)
(* of its messages is in the target, or was logged, or belongs to a         *)
(* partition an error is recorded for.                                      *)
THEOREM NothingIsLostSilently == Spec => []NothingVanishes
<1>1. Init => CoverInv
  BY DEF Init, CoverInv, TopicsInv, PartitionsInv, SegmentsInv, AtPartitions
<1>2. TInv /\ CoverInv /\ [Next]_vars => CoverInv'
  BY CoverStep
<1>3. CoverInv => NothingVanishes
  <2> SUFFICES ASSUME CoverInv, NEW t \in completed, NEW m \in Due(t)
               PROVE  m \in Restored \/ m \in skipped \/ <<t, m[2]>> \in errors
    BY DEF NothingVanishes
  <2>1. PICK k \in SegmentsOfTopic(t) : ShouldRestorePartition(t, k[2]) /\ m \in MessagesOf(k)
    BY DEF Due
  <2>2. k \in Segments /\ k[1] = t /\ m[1] = t
    BY <2>1, MessageParts DEF SegmentsOfTopic
  <2>3. Covered(m)
    BY <2>1, <2>2 DEF CoverInv, TopicsInv, Selects, Done
  <2> QED
    BY <2>2, <2>3 DEF Covered
<1> QED
  BY TypeInit, TypeStep, <1>1, <1>2, <1>3, PTL DEF Spec
-----------------------------------------------------------------------------
(* The order of replay *)

(* At most ten partitions, and segment numbers that fill their six digits:  *)
(* then a pattern selects one partition and keys sort like numbers.  The    *)
(* run restore_partitions shows what happens otherwise.                     *)
FewAndPadded ==
  /\ NumPartitions <= 10
  /\ \A k \in Segments : k[3] < PaddedTo

LEMMA OnePartition ==
  ASSUME FewAndPadded, NEW k \in Segments, NEW p \in Partitions, InPartition(k, p)
  PROVE  k[2] = p
<1>1. k[2] \in 0 .. NumPartitions - 1 /\ NumPartitions \in Nat
  BY SegmentType, Sizes DEF Partitions
<1>2. ~(k[2] >= 10)
  BY <1>1 DEF FewAndPadded
<1> QED
  BY <1>2 DEF InPartition

LEMMA SortedByNumber ==
  ASSUME FewAndPadded, NEW k \in Segments, NEW l \in Segments,
         k[2] = l[2], ListedBefore(k, l)
  PROVE  k[3] < l[3]
<1>1. Leading(k[3]) = k[3] /\ Leading(l[3]) = l[3]
  BY DEF FewAndPadded, Leading
<1>2. k[2] \in Nat /\ l[2] \in Nat /\ k[3] \in Nat /\ l[3] \in Nat
  BY SegmentType
<1> QED
  BY <1>1, <1>2 DEF ListedBefore

(* Where the messages this run has sent lie: in earlier topics, in earlier  *)
(* partitions of this one, or before all that is left of this partition.    *)
Behind(m) ==
  \/ m[1] < topic
  \/ m[1] = topic /\ m[2] < part
  \/ /\ pc \in {"segment", "produce"}
     /\ m[1] = topic /\ m[2] = part
     /\ \A k \in pending :
          \/ m[3] < k[3]
          \/ pc = "produce" /\ k = current /\ m[3] = k[3] /\ m[4] < index

PendingInv ==
  /\ AtPartitions => listed \subseteq SegmentsOfTopic(topic)
  /\ pc \in {"segment", "produce"} =>
       \A k \in pending : k[1] = topic /\ k[2] = part
  /\ pc = "produce" => \A k \in pending \ {current} : current[3] < k[3]

BehindInv == Alive => \A j \in OfRun(run) : Behind(target[j].msg)

OrderInv == PendingInv /\ BehindInv /\ RestoredInOrder

LEMMA PendingStep ==
  ASSUME FewAndPadded, TInv, PendingInv, [Next]_vars
  PROVE  PendingInv'
<1>1. CASE Start \/ StartTopic \/ Return \/ EnsureTopicExists \/ ListFails
           \/ TopicDone \/ TopicCancelled \/ Crash \/ Restart
  <2>1. pc' \notin {"part", "segment", "produce"}
    BY <1>1
    DEF Start, StartTopic, Return, EnsureTopicExists, ListFails, TopicDone,
        TopicCancelled, Crash, Restart, NextTopic, Goto
  <2> QED
    BY <2>1 DEF PendingInv, AtPartitions
<1>2. CASE GetTopicSegments
  <2>1. pc' = "part" /\ topic' = topic /\ listed' = SegmentsOfTopic(topic)
    BY <1>2 DEF GetTopicSegments, Goto
  <2> QED
    BY <2>1 DEF PendingInv, SegmentsOfTopic, Segments
<1>3. CASE StartPartition
  <2>1. pc = "part" /\ topic' = topic /\ listed' = listed
    BY <1>3 DEF StartPartition
  <2>2. listed' \subseteq SegmentsOfTopic(topic)'
    BY <2>1 DEF PendingInv, AtPartitions, SegmentsOfTopic, Segments
  <2>3. CASE pc' = "part"
    BY <2>2, <2>3 DEF PendingInv
  <2>4. CASE pc' = "segment" /\ part' = part /\ pending' = FilteredByPartition(part)
    <3>1. part \in Partitions
      BY <1>3, Sizes DEF StartPartition, MorePartitions, TInv, TypeOK, Partitions
    <3>2. \A k \in pending' : k \in Segments /\ k[1] = topic /\ k[2] = part
      BY <2>1, <2>4, <3>1, OnePartition
      DEF FilteredByPartition, PendingInv, AtPartitions, SegmentsOfTopic
    <3> QED
      BY <2>1, <2>2, <2>4, <3>2 DEF PendingInv
  <2> QED
    BY <1>3, <2>1, <2>3, <2>4 DEF StartPartition, Goto
<1>4. CASE PartitionDone \/ PartitionCancelled
  <2>1. /\ pc \in {"segment", "produce"} /\ pc' = "part"
        /\ topic' = topic /\ listed' = listed
    BY <1>4 DEF PartitionDone, PartitionCancelled, NextPartition, Goto
  <2> QED
    BY <2>1 DEF PendingInv, AtPartitions, SegmentsOfTopic, Segments
<1>5. CASE ReadSegment \/ ReadFails \/ Produce \/ ProduceFails \/ SegmentDone
           \/ Cancel \/ UNCHANGED vars
  <2>1. /\ topic' = topic /\ part' = part /\ listed' = listed
        /\ AtPartitions' <=> AtPartitions
        /\ pc' \in {"segment", "produce"} <=> pc \in {"segment", "produce"}
        /\ pending' \subseteq pending
    BY <1>5
    DEF ReadSegment, ReadFails, Produce, ProduceFails, SegmentDone, MoreMessages,
        Cancel, Goto, vars, loopVars, reportVars, AtPartitions
  <2>2. ASSUME pc' = "produce"
        PROVE  \A k \in pending' \ {current'} : current'[3] < k[3]
    <3>1. CASE ReadSegment
      <4>1. PICK c \in pending : IsFirst(c) /\ current' = c /\ pc = "segment"
        BY <2>2, <3>1 DEF ReadSegment
      <4>2. ASSUME NEW k \in pending, k # c PROVE c[3] < k[3]
        <5>1. c \in Segments /\ k \in Segments
          BY <4>1, <4>2 DEF TInv, TypeOK
        <5>2. ListedBefore(c, k)
          BY <4>1, <4>2 DEF IsFirst
        <5>3. c[2] = k[2]
          BY <4>1, <4>2 DEF PendingInv
        <5> QED
          BY <5>1, <5>2, <5>3, SortedByNumber
      <4> QED
        BY <2>1, <4>1, <4>2
    <3>2. CASE Produce \/ ProduceFails \/ Cancel \/ UNCHANGED vars
      <4>1. pc = "produce" /\ current' = current
        BY <2>2, <3>2 DEF Produce, ProduceFails, MoreMessages, Cancel, vars, loopVars
      <4> QED
        BY <2>1, <4>1 DEF PendingInv
    <3>3. ~ReadFails /\ ~SegmentDone
      BY <2>2 DEF ReadFails, SegmentDone, Goto
    <3> QED
      BY <1>5, <3>1, <3>2, <3>3
  <2> QED
    BY <2>1, <2>2 DEF PendingInv, SegmentsOfTopic, Segments
<1> QED
  BY <1>1, <1>2, <1>3, <1>4, <1>5 DEF Next, WorkerStep, Terminating

(* A step that sends nothing leaves behind what was behind.                 *)
LEMMA BehindStays ==
  ASSUME TInv, CoverInv, PendingInv, [Next]_vars, ~Restart, Alive, Alive',
         NEW m \in Messages, Behind(m)
  PROVE  Behind(m)'
<1>0. /\ m[1] \in Nat /\ m[2] \in Nat
      /\ topic \in Nat /\ part \in Nat
  <2>1. PICK k \in Segments : m \in MessagesOf(k)
    BY DEF Messages
  <2> QED
    BY <2>1, MessageParts, SegmentType, Sizes DEF TInv, TypeOK
<1>1. CASE pc \in {"start", "topic", "ensure", "list"}
  <2>1. part = 0 /\ m[1] < topic
    BY <1>0, <1>1 DEF CoverInv, Behind
  <2>2. topic' = topic \/ topic' = topic + 1
    BY <1>1
    DEF Next, WorkerStep, Terminating, vars, loopVars, reportVars, Start, StartTopic,
        Return, EnsureTopicExists, GetTopicSegments, ListFails, StartPartition,
        TopicDone, TopicCancelled, PartitionDone, PartitionCancelled, ReadSegment,
        ReadFails, Produce, ProduceFails, SegmentDone, MoreMessages, Cancel, Crash,
        NextTopic
  <2> QED
    BY <1>0, <2>1, <2>2 DEF Behind
<1>2. CASE pc = "part"
  <2>1. m[1] < topic \/ (m[1] = topic /\ m[2] < part)
    BY <1>2 DEF Behind
  <2>2. \/ topic' = topic + 1
        \/ topic' = topic /\ part' \in {part, part + 1}
    BY <1>2
    DEF Next, WorkerStep, Terminating, vars, loopVars, reportVars, Start, StartTopic,
        Return, EnsureTopicExists, GetTopicSegments, ListFails, StartPartition,
        TopicDone, TopicCancelled, PartitionDone, PartitionCancelled, ReadSegment,
        ReadFails, Produce, ProduceFails, SegmentDone, MoreMessages, Cancel, Crash,
        NextTopic
  <2> QED
    BY <1>0, <2>1, <2>2 DEF Behind
<1>3. CASE PartitionDone \/ PartitionCancelled
  <2>1. topic' = topic /\ part' = part + 1
    BY <1>3 DEF PartitionDone, PartitionCancelled, NextPartition
  <2> QED
    BY <1>0, <2>1 DEF Behind
<1>4. CASE ReadSegment \/ ReadFails \/ Produce \/ ProduceFails \/ SegmentDone
           \/ Cancel \/ UNCHANGED vars
  <2>1. topic' = topic /\ part' = part
    BY <1>4
    DEF ReadSegment, ReadFails, Produce, ProduceFails, SegmentDone, Cancel, vars,
        loopVars, reportVars
  <2>2. CASE m[1] < topic \/ (m[1] = topic /\ m[2] < part)
    BY <2>1, <2>2 DEF Behind
  <2>3. CASE /\ pc \in {"segment", "produce"} /\ m[1] = topic /\ m[2] = part
             /\ \A k \in pending :
                  \/ m[3] < k[3]
                  \/ pc = "produce" /\ k = current /\ m[3] = k[3] /\ m[4] < index
    <3>1. pc' \in {"segment", "produce"} /\ pending' \subseteq pending
      BY <1>4, <2>3
      DEF ReadSegment, ReadFails, Produce, ProduceFails, SegmentDone, MoreMessages,
          Cancel, Goto, vars, loopVars, reportVars
    <3>2. ASSUME NEW k \in pending',
                 pc = "produce", k = current, m[3] = k[3], m[4] < index
          PROVE  pc' = "produce" /\ k = current' /\ m[4] < index'
      <4>1. ~ReadSegment /\ ~ReadFails /\ ~SegmentDone
        BY <3>2 DEF ReadSegment, ReadFails, SegmentDone
      <4>2. pc' = pc /\ current' = current /\ index' \in {index, index + 1}
        BY <1>4, <4>1 DEF Produce, ProduceFails, Cancel, vars, loopVars, reportVars
      <4>3. m[4] \in Nat /\ index \in Nat
        <5>1. PICK l \in Segments : m \in MessagesOf(l)
          BY DEF Messages
        <5>2. m[4] \in 1 .. Stored[l] /\ Stored[l] \in Nat
          BY <5>1, MessageParts, SegmentType
        <5> QED
          BY <3>2, <5>2, InHand
      <4> QED
        BY <3>2, <4>2, <4>3
    <3>3. \A k \in pending' :
            \/ m[3] < k[3]
            \/ pc' = "produce" /\ k = current' /\ m[3] = k[3] /\ m[4] < index'
      BY <2>3, <3>1, <3>2
    <3> QED
      BY <2>1, <2>3, <3>1, <3>3 DEF Behind
  <2> QED
    BY <2>2, <2>3 DEF Behind
<1>5. ASSUME pc \in {"segment", "produce"}
      PROVE  \/ PartitionDone \/ PartitionCancelled \/ ReadSegment \/ ReadFails
             \/ Produce \/ ProduceFails \/ SegmentDone \/ Cancel \/ UNCHANGED vars
  BY <1>5
  DEF Next, WorkerStep, Terminating, Start, StartTopic, Return, EnsureTopicExists,
      GetTopicSegments, ListFails, StartPartition, TopicDone, TopicCancelled, Crash,
      Goto, Alive, Terminal
<1>6. pc \in {"start", "topic", "ensure", "list", "part", "segment", "produce"}
  BY DEF Alive, Terminal, Location, TInv, TypeOK
<1> QED
  BY <1>1, <1>2, <1>3, <1>4, <1>5, <1>6

LEMMA SendMoves ==
  ASSUME TInv, [Next]_vars, Sends
  PROVE  /\ pc = "produce" /\ pc' = pc /\ topic' = topic /\ part' = part
         /\ pending' = pending /\ current' = current /\ index' = index + 1
<1>1. pc = "produce" /\ target' # target
  <2>1. target' # target
    BY SendsOne
  <2> QED
    BY <2>1 DEF Sends, MoreMessages
<1>2. Produce \/ ProduceFails
  BY <1>1
  DEF Next, WorkerStep, Terminating, vars, Start, StartTopic, Return,
      EnsureTopicExists, GetTopicSegments, ListFails, StartPartition, TopicDone,
      TopicCancelled, PartitionDone, PartitionCancelled, ReadSegment, ReadFails,
      SegmentDone, Cancel, Crash, Restart
<1> QED
  BY <1>1, <1>2 DEF Produce, ProduceFails

LEMMA BehindStep ==
  ASSUME TInv, CoverInv, PendingInv, BehindInv, RunInv, [Next]_vars
  PROVE  BehindInv'
<1>1. CASE Restart
  BY <1>1, RunStep DEF BehindInv
<1>2. CASE ~Restart /\ Alive'
  <2>1. Alive
    BY <1>2
    DEF Next, WorkerStep, Terminating, vars, Start, StartTopic, Return,
        EnsureTopicExists, GetTopicSegments, ListFails, StartPartition, TopicDone,
        TopicCancelled, PartitionDone, PartitionCancelled, ReadSegment, ReadFails,
        Produce, ProduceFails, SegmentDone, MoreMessages, Cancel, Crash, Alive,
        Terminal
  <2>2. \A j \in DOMAIN target : target[j].msg \in Messages
    <3>1. target \in Seq(Entry)
      BY DEF TInv, TypeOK
    <3>2. \A j \in DOMAIN target : target[j] \in Entry
      BY <3>1
    <3> QED
      BY <3>2 DEF Entry
  <2>3. \A j \in OfRun(run) : Behind(target[j].msg)'
    <3> SUFFICES ASSUME NEW j \in OfRun(run) PROVE Behind(target[j].msg)'
      OBVIOUS
    <3>1. PICK m \in Messages : m = target[j].msg
      BY <2>2 DEF OfRun
    <3>2. Behind(m)
      BY <2>1, <3>1 DEF BehindInv
    <3>3. Behind(m)'
      BY <1>2, <2>1, <3>2, BehindStays
    <3>4. target'[j] = target[j]
      BY <1>2, StepKeeps DEF OfRun, Keeps
    <3> QED
      BY <3>1, <3>3, <3>4
  <2>4. CASE UNCHANGED <<run, target>>
    BY <2>3, <2>4 DEF BehindInv, OfRun
  <2>5. CASE UNCHANGED run /\ Sends
    <3>1. PICK n \in Nat :
            /\ n \notin DOMAIN target /\ DOMAIN target' = DOMAIN target \cup {n}
            /\ target'[n] = Produced(Message)
            /\ \A j \in DOMAIN target : j \in Nat /\ j < n /\ target'[j] = target[j]
      BY <2>5, SendsOne
    <3>2. PICK m \in Messages : m = Message
      BY <2>5, ProducedType DEF Sends
    <3>3. Behind(m)'
      <4>1. /\ pc = "produce" /\ pc' = pc /\ topic' = topic /\ part' = part
            /\ pending' = pending /\ current' = current /\ index' = index + 1
        BY <2>5, <1>2, SendMoves
      <4>2. /\ m[1] = current[1] /\ m[2] = current[2] /\ m[3] = current[3]
            /\ m[4] = index /\ index \in Nat /\ current \in pending
        BY <2>5, <3>2, <4>1, InHand, MessageOfSegment
        DEF Sends, MoreMessages, Message, MessageAt
      <4>3. m[1] = topic /\ m[2] = part
        BY <4>1, <4>2 DEF PendingInv
      <4>4. ASSUME NEW k \in pending
            PROVE  \/ m[3] < k[3]
                   \/ k = current /\ m[3] = k[3] /\ m[4] < index + 1
        BY <4>1, <4>2 DEF PendingInv
      <4> QED
        BY <4>1, <4>3, <4>4 DEF Behind
    <3>4. target'[n].msg = m
      BY <2>5, <3>1, <3>2, ProducedType DEF Sends
    <3>5. OfRun(run)' \subseteq OfRun(run) \cup {n}
      BY <2>5, <3>1 DEF OfRun
    <3> QED
      BY <2>3, <3>3, <3>4, <3>5 DEF BehindInv
  <2> QED
    BY <1>2, <2>4, <2>5, NextIsOneOf
<1>3. CASE ~Alive'
  BY <1>3 DEF BehindInv
<1> QED
  BY <1>1, <1>2, <1>3

LEMMA OrderStep ==
  ASSUME TInv, PendingInv, BehindInv, RestoredInOrder, [Next]_vars
  PROVE  RestoredInOrder'
<1>1. CASE target' = target
  BY <1>1 DEF RestoredInOrder
<1>2. CASE UNCHANGED run /\ Sends
  <2>1. PICK n \in Nat :
          /\ n \notin DOMAIN target /\ DOMAIN target' = DOMAIN target \cup {n}
          /\ target'[n] = Produced(Message)
          /\ \A j \in DOMAIN target : j \in Nat /\ j < n /\ target'[j] = target[j]
    BY <1>2, SendsOne
  <2>2. /\ pc = "produce" /\ current \in pending /\ current \in Segments
        /\ index \in 1 .. Stored[current]
        /\ topic \in Topics /\ part \in Partitions
    BY <1>2, InHand, ProducedType DEF Sends, MoreMessages
  <2>3. PICK m \in Messages : m = Message /\ target'[n].msg = m /\ target'[n].run = run
    BY <1>2, <2>1, ProducedType DEF Sends
  <2>4. /\ m[1] = topic /\ m[2] = part /\ m[3] = current[3] /\ m[4] = index
    BY <2>2, <2>3, MessageOfSegment DEF Message, PendingInv
  <2>5. ASSUME NEW i \in DOMAIN target, target[i].run = run,
               SamePartition(target[i].msg, m)
        PROVE  Precedes(target[i].msg, m)
    <3>1. Behind(target[i].msg)
      BY <2>2, <2>5 DEF BehindInv, OfRun, Alive, Terminal
    <3>2. target[i].msg[1] = topic /\ target[i].msg[2] = part
      BY <2>4, <2>5 DEF SamePartition
    <3>3. ~(topic < topic) /\ ~(part < part)
      BY <2>2 DEF Topics, Partitions
    <3>4. \/ target[i].msg[3] < current[3]
          \/ target[i].msg[3] = current[3] /\ target[i].msg[4] < index
      BY <2>2, <3>1, <3>2, <3>3 DEF Behind
    <3> QED
      BY <2>4, <3>4 DEF Precedes
  <2>6. ASSUME NEW i \in DOMAIN target', NEW j \in DOMAIN target', i < j,
               target'[i].run = target'[j].run,
               SamePartition(target'[i].msg, target'[j].msg)
        PROVE  Precedes(target'[i].msg, target'[j].msg)
    <3>1. i \in DOMAIN target
      BY <2>1, <2>6
    <3>2. CASE j \in DOMAIN target
      <4>1. target'[i] = target[i] /\ target'[j] = target[j]
        BY <2>1, <3>1, <3>2
      <4> QED
        BY <2>6, <3>1, <3>2, <4>1 DEF RestoredInOrder
    <3>3. CASE j = n
      <4>1. target'[i] = target[i]
        BY <2>1, <3>1
      <4> QED
        BY <2>3, <2>5, <2>6, <3>1, <3>3, <4>1
    <3> QED
      BY <2>1, <3>2, <3>3
  <2> QED
    BY <2>6 DEF RestoredInOrder
<1>3. CASE Restart
  BY <1>1, <1>3 DEF Restart
<1> QED
  BY <1>1, <1>2, <1>3, NextIsOneOf

(* Within one run of the pod, what is restored of a partition reaches the   *)
(* target in the order the partition had it in, none of it twice, whatever  *)
(* cannot be read or produced: for up to ten partitions and a million       *)
(* segments.                                                                *)
THEOREM ReplayKeepsOrder ==
  ASSUME FewAndPadded
  PROVE  Spec => []RestoredInOrder
<1>1. Init => CoverInv /\ RunInv /\ OrderInv
  <2> SUFFICES ASSUME Init PROVE CoverInv /\ RunInv /\ OrderInv
    OBVIOUS
  <2>1. target = <<>> /\ DOMAIN target = {} /\ pc = "start"
    BY DEF Init
  <2>2. CoverInv
    BY DEF Init, CoverInv, TopicsInv, PartitionsInv, SegmentsInv, AtPartitions
  <2> QED
    BY <2>1, <2>2
    DEF RunInv, OrderInv, PendingInv, BehindInv, OfRun, RestoredInOrder, AtPartitions
<1>2. TInv /\ CoverInv /\ RunInv /\ OrderInv /\ [Next]_vars
        => (CoverInv /\ RunInv /\ OrderInv)'
  BY CoverStep, RunStep, PendingStep, BehindStep, OrderStep DEF OrderInv
<1>3. OrderInv => RestoredInOrder
  BY DEF OrderInv
<1> QED
  BY TypeInit, TypeStep, <1>1, <1>2, <1>3, PTL DEF Spec
-----------------------------------------------------------------------------
(* The refinement: what is produced is the next message of the replay.      *)

(* The loops are only in topics and partitions that were asked for.         *)
WantedInv ==
  /\ pc \in {"ensure", "list", "part", "segment", "produce"} => Selected(topic)
  /\ pc \in {"segment", "produce"} => ShouldRestorePartition(topic, part)

LEMMA WantedStep ==
  ASSUME TInv, WantedInv, [Next]_vars
  PROVE  WantedInv'
<1>1. config' = config
  BY DEF Next, WorkerStep, Terminating, vars, Start, StartTopic, Return,
         EnsureTopicExists, GetTopicSegments, ListFails, StartPartition, TopicDone,
         TopicCancelled, PartitionDone, PartitionCancelled, ReadSegment, ReadFails,
         Produce, ProduceFails, SegmentDone, Cancel, Crash, Restart
<1> SUFFICES \/ pc' \in {"start", "topic"} \cup Terminal
             \/ Selected(topic) /\ topic' = topic /\ pc' \in {"ensure", "list", "part"}
             \/ /\ Selected(topic) /\ topic' = topic
                /\ ShouldRestorePartition(topic, part) /\ part' = part
  BY <1>1 DEF WantedInv, Selected, ShouldRestorePartition, Terminal
<1>2. CASE Start \/ Return \/ ListFails \/ TopicDone \/ TopicCancelled \/ Crash \/ Restart
  BY <1>2 DEF Start, Return, ListFails, TopicDone, TopicCancelled, Crash, Restart,
              NextTopic, Goto, Terminal
<1>3. CASE StartTopic
  BY <1>3 DEF StartTopic, NextTopic, Goto
<1>4. CASE EnsureTopicExists \/ GetTopicSegments
  BY <1>4 DEF EnsureTopicExists, GetTopicSegments, Goto, loopVars, WantedInv
<1>5. CASE StartPartition
  BY <1>5 DEF StartPartition, Goto, WantedInv
<1>6. CASE PartitionDone \/ PartitionCancelled
  BY <1>6 DEF PartitionDone, PartitionCancelled, NextPartition, Goto, WantedInv
<1>7. CASE ReadSegment \/ ReadFails \/ Produce \/ ProduceFails \/ SegmentDone
  BY <1>7 DEF ReadSegment, ReadFails, Produce, ProduceFails, MoreMessages, SegmentDone,
              WantedInv
<1>8. CASE Cancel \/ UNCHANGED vars
  <2>1. pc' = pc /\ topic' = topic /\ part' = part
    BY <1>8 DEF Cancel, vars, loopVars
  <2>2. pc \in Location
    BY DEF TInv, TypeOK
  <2> QED
    BY <2>1, <2>2 DEF WantedInv, Location, Terminal
<1> QED
  BY <1>2, <1>3, <1>4, <1>5, <1>6, <1>7, <1>8 DEF Next, WorkerStep, Terminating

(* The message in hand: where it is from, and that it was asked for.        *)
LEMMA HandIsWanted ==
  ASSUME TInv, PendingInv, WantedInv, MoreMessages
  PROVE  /\ Message \in Wanted
         /\ Message[1] = topic /\ Message[2] = part
         /\ Message[3] = current[3] /\ Message[4] = index
<1>1. /\ pc = "produce" /\ current \in pending /\ current \in Segments
      /\ index \in 1 .. Stored[current]
  BY InHand, ProducedType DEF MoreMessages
<1>2. /\ Message[1] = topic /\ Message[2] = part
      /\ Message[3] = current[3] /\ Message[4] = index
  BY <1>1, MessageOfSegment DEF Message, PendingInv
<1>3. Selected(topic) /\ ShouldRestorePartition(topic, part)
  BY <1>1 DEF WantedInv
<1>4. Message \in Messages
  BY ProducedType
<1> QED
  BY <1>2, <1>3, <1>4 DEF Wanted, Selected, ShouldRestorePartition

(* Nothing later of the partition has been sent, nor the message itself.    *)
LEMMA NoneLater ==
  ASSUME TInv, PendingInv, WantedInv, BehindInv, MoreMessages, NEW j \in OfRun(run)
  PROVE  /\ target[j].msg # Message
         /\ ~(SamePartition(Message, target[j].msg) /\ Precedes(Message, target[j].msg))
<1>1. /\ pc = "produce" /\ current \in pending /\ current \in Segments
      /\ index \in Nat /\ topic \in Nat /\ part \in Nat
  BY InHand, Sizes DEF MoreMessages, Topics, Partitions
<1>2. current[3] \in Nat
  BY <1>1, SegmentType
<1>3. PICK d : d = target[j].msg
  OBVIOUS
<1>4. d[3] \in Nat /\ d[4] \in Nat
  <2>1. target \in Seq(Entry) /\ j \in DOMAIN target
    BY DEF TInv, TypeOK, OfRun
  <2>2. target[j] \in Entry
    BY <2>1
  <2>3. PICK k \in Segments : d \in MessagesOf(k)
    BY <1>3, <2>2 DEF Entry, Messages
  <2>4. d[3] = k[3] /\ d[4] \in 1 .. Stored[k]
    BY <2>3, MessageParts
  <2> QED
    BY <2>4, SegmentType
<1>5. Behind(d)
  BY <1>1, <1>3 DEF BehindInv, Alive, Terminal
<1>6. /\ Message[1] = topic /\ Message[2] = part
      /\ Message[3] = current[3] /\ Message[4] = index
  BY HandIsWanted
<1>7. SUFFICES ASSUME d[1] = topic, d[2] = part
      PROVE  d # Message /\ ~Precedes(Message, d)
  BY <1>3, <1>6 DEF SamePartition
<1>8. \/ d[3] < current[3]
      \/ d[3] = current[3] /\ d[4] < index
  BY <1>1, <1>5, <1>7 DEF Behind
<1> QED
  BY <1>1, <1>2, <1>4, <1>6, <1>8 DEF Precedes

(* What lies before the message in hand has been sent or left a trace.      *)
LEMMA EarlierCovered ==
  ASSUME TInv, CoverInv, PendingInv, WantedInv, MoreMessages, NEW e \in Messages,
         SamePartition(e, Message), Precedes(e, Message)
  PROVE  Covered(e)
<1>1. /\ pc = "produce" /\ current \in pending /\ current \in Segments
      /\ index \in Nat
  BY InHand DEF MoreMessages
<1>2. /\ Message[1] = topic /\ Message[2] = part
      /\ Message[3] = current[3] /\ Message[4] = index
  BY HandIsWanted
<1>3. PICK k \in Segments : e \in MessagesOf(k)
  BY DEF Messages
<1>4. /\ e[1] = k[1] /\ e[2] = k[2] /\ e[3] = k[3]
      /\ e[4] \in 1 .. Stored[k] /\ e = MessageAt(k, e[4])
      /\ k[3] \in Nat /\ current[3] \in Nat /\ Stored[k] \in Nat
  BY <1>1, <1>3, MessageParts, SegmentType
<1>5. k[1] = topic /\ k[2] = part /\ (e[3] < current[3] \/ (e[3] = current[3] /\ e[4] < index))
  BY <1>2, <1>4 DEF SamePartition, Precedes
<1>6. CASE Done(k)
  BY <1>3, <1>6 DEF Done
<1>7. CASE k \in pending
  <2>1. k = current
    BY <1>1, <1>4, <1>5, <1>7 DEF PendingInv
  <2>2. e[4] \in 1 .. index - 1
    BY <1>1, <1>4, <1>5, <2>1
  <2> QED
    BY <1>1, <1>4, <2>1, <2>2 DEF CoverInv, SegmentsInv
<1>8. k \in pending \/ Done(k)
  BY <1>1, <1>5 DEF CoverInv, SegmentsInv, SegmentsOfTopic
<1> QED
  BY <1>6, <1>7, <1>8

LEMMA CoveredIs ==
  ASSUME NEW m \in Messages
  PROVE  Covered(m) <=> m \in Replay!Delivered \cup Missed
BY DEF Covered, Missed, Restored, Replay!Delivered

LEMMA RefinesSend ==
  ASSUME TInv, CoverInv, OrderInv, WantedInv, Produce \/ ProduceFails, Sends
  PROVE  Replay!Deliver
<1>1. /\ MoreMessages /\ target \in Seq(Entry) /\ Produced(Message) \in Entry
      /\ Produced(Message).run = run /\ Produced(Message).msg = Message
      /\ Message \in Messages
  BY ProducedType DEF Sends, TInv, TypeOK
<1>2. PICK m : m = Message
  OBVIOUS
<1>3. /\ Len(target') = Len(target) + 1
      /\ target'[Len(target) + 1] = Produced(Message)
      /\ target' = Append(target, target'[Len(target) + 1])
  BY <1>1 DEF Sends
<1>4. Replay!IsNext(m)
  <2>1. m \in Wanted
    BY <1>1, <1>2, HandIsWanted DEF OrderInv
  <2>2. ASSUME NEW d \in Replay!Delivered
        PROVE  /\ d # m
               /\ ~(SamePartition(m, d) /\ Precedes(m, d))
    <3>1. PICK j \in OfRun(run) : d = target[j].msg
      BY <2>2 DEF Replay!Delivered, OfRun
    <3> QED
      BY <1>1, <1>2, <3>1, NoneLater DEF OrderInv
  <2>3. ASSUME NEW e \in Messages, SamePartition(e, m), Precedes(e, m)
        PROVE  e \in Replay!Delivered \cup Missed
    <3>1. Covered(e)
      BY <1>1, <1>2, <2>3, EarlierCovered DEF OrderInv
    <3> QED
      BY <3>1, CoveredIs
  <2> QED
    BY <2>1, <2>2, <2>3 DEF Replay!IsNext
<1>5. Missed' \in {Missed, Missed \cup {m}}
  <2>1. errors' = errors /\ skipped' \in {skipped, skipped \cup {m}}
    BY <1>2 DEF Produce, ProduceFails, reportVars
  <2> QED
    BY <1>1, <1>2, <2>1 DEF Missed
<1>6. run' = run /\ completed' = completed /\ config' = config
  BY DEF Produce, ProduceFails, reportVars
<1>7. Wanted' = Wanted
  BY <1>6 DEF Wanted
<1> QED
  BY <1>1, <1>2, <1>3, <1>4, <1>5, <1>6, <1>7 DEF Replay!Deliver

(* A step that sends nothing and completes nothing can only leave a trace.  *)
LEMMA RefinesMiss ==
  ASSUME UNCHANGED <<config, target, run, completed>>,
         skipped \subseteq skipped', errors \subseteq errors'
  PROVE  [Replay!Next]_(Replay!vars)
<1>1. Wanted' = Wanted /\ Missed \subseteq Missed'
  BY DEF Wanted, Missed
<1> QED
  BY <1>1 DEF Replay!Next, Replay!Miss, Replay!vars

LEMMA RefinesDone ==
  ASSUME TInv, CoverInv, WantedInv, TopicDone
  PROVE  Replay!Complete
<1>1. /\ completed' = completed \cup {topic} /\ pc = "part" /\ ~(part < NumPartitions)
      /\ UNCHANGED <<config, target, run, errors, skipped>>
  BY DEF TopicDone, MorePartitions
<1>2. ASSUME NEW m \in Wanted, m[1] = topic
      PROVE  m \in Replay!Delivered \cup Missed
  <2>1. PICK k \in Segments : m \in MessagesOf(k)
    BY <1>2 DEF Wanted, Messages
  <2>2. k[1] = topic /\ k[2] = m[2] /\ k[2] \in 0 .. NumPartitions - 1
    BY <1>2, <2>1, MessageParts, SegmentType DEF Partitions
  <2>3. k[2] < part
    BY <1>1, <2>2, Sizes DEF TInv, TypeOK
  <2>4. ShouldRestorePartition(topic, k[2])
    BY <1>2, <2>2 DEF Wanted, ShouldRestorePartition
  <2>5. Done(k)
    BY <1>1, <2>2, <2>3, <2>4 DEF CoverInv, PartitionsInv, AtPartitions, Selects
  <2> QED
    BY <1>2, <2>1, <2>5, CoveredIs DEF Done, Wanted
<1>3. Wanted' = Wanted /\ Missed' = Missed
  BY <1>1 DEF Wanted, Missed
<1>4. topic \in completed' /\ \A m \in Wanted : m \in Messages
  BY <1>1 DEF Wanted
<1> QED
  BY <1>1, <1>2, <1>3, <1>4 DEF Replay!Complete

LEMMA ReplayStep ==
  ASSUME TInv, CoverInv, OrderInv, WantedInv, [Next]_vars
  PROVE  [Replay!Next]_(Replay!vars)
<1>1. CASE Produce \/ ProduceFails
  <2>1. CASE Sends
    BY <1>1, <2>1, RefinesSend DEF Replay!Next
  <2>2. CASE ~Sends
    BY <1>1, <2>2, RefinesMiss DEF Produce, ProduceFails, Sends, reportVars
  <2> QED
    BY <2>1, <2>2
<1>2. CASE TopicDone
  BY <1>2, RefinesDone DEF Replay!Next
<1>3. CASE Restart
  <2>1. /\ run' = run + 1 /\ target' = target /\ config' = config
        /\ completed' = {} /\ skipped' = {} /\ errors' = {}
    BY <1>3 DEF Restart, FreshLocals
  <2>2. Wanted' = Wanted /\ Missed' = {}
    BY <2>1 DEF Wanted, Missed
  <2> QED
    BY <2>1, <2>2 DEF Replay!Next, Replay!Restart
<1>4. CASE Start \/ StartTopic \/ Return \/ EnsureTopicExists \/ GetTopicSegments
           \/ ListFails \/ StartPartition \/ TopicCancelled
  BY <1>4, RefinesMiss
  DEF Start, StartTopic, Return, EnsureTopicExists, GetTopicSegments, ListFails,
      StartPartition, TopicCancelled, reportVars
<1>5. CASE PartitionDone \/ PartitionCancelled \/ ReadSegment \/ ReadFails
           \/ SegmentDone \/ Cancel \/ Crash
  BY <1>5, RefinesMiss
  DEF PartitionDone, PartitionCancelled, ReadSegment, ReadFails, SegmentDone, Cancel,
      Crash, reportVars
<1>6. CASE UNCHANGED vars
  BY <1>6, RefinesMiss DEF vars, reportVars
<1> QED
  BY <1>1, <1>2, <1>3, <1>4, <1>5, <1>6 DEF Next, WorkerStep, Terminating

(* A restore of up to ten partitions and a million segments is an ordered   *)
(* replay of what was asked for: restorePartition and produceMessages pass  *)
(* over nothing of a partition without a trace, and the loops around them   *)
(* produce nothing else, whatever fails and however often the pod starts.   *)
THEOREM RestoreIsAReplay ==
  ASSUME FewAndPadded
  PROVE  Spec => RefinesReplay
<1>1. Init => CoverInv /\ RunInv /\ OrderInv /\ WantedInv /\ Replay!Init
  <2> SUFFICES ASSUME Init
               PROVE  CoverInv /\ RunInv /\ OrderInv /\ WantedInv /\ Replay!Init
    OBVIOUS
  <2>1. /\ target = <<>> /\ DOMAIN target = {} /\ pc = "start" /\ run = 1
        /\ completed = {} /\ skipped = {} /\ errors = {}
    BY DEF Init
  <2>2. CoverInv
    BY DEF Init, CoverInv, TopicsInv, PartitionsInv, SegmentsInv, AtPartitions
  <2>3. RunInv /\ OrderInv /\ WantedInv
    BY <2>1
    DEF RunInv, OrderInv, PendingInv, BehindInv, OfRun, RestoredInOrder, AtPartitions,
        WantedInv
  <2>4. Replay!Init
    BY <2>1 DEF Replay!Init, Wanted, Missed
  <2> QED
    BY <2>2, <2>3, <2>4
<1>2. TInv /\ CoverInv /\ RunInv /\ OrderInv /\ WantedInv /\ [Next]_vars
        => (CoverInv /\ RunInv /\ OrderInv /\ WantedInv)'
  BY CoverStep, RunStep, PendingStep, BehindStep, OrderStep, WantedStep DEF OrderInv
<1>3. TInv /\ CoverInv /\ OrderInv /\ WantedInv /\ [Next]_vars
        => [Replay!Next]_(Replay!vars)
  BY ReplayStep
<1> QED
  BY TypeInit, TypeStep, <1>1, <1>2, <1>3, PTL DEF Spec, RefinesReplay, Replay!Spec
=============================================================================
