------------------------ MODULE SegmentChain_proofs ------------------------
(***************************************************************************)
(* Theorems about a backup that is run once, on every log, batch size and  *)
(* object store: ChainUnbroken, WriteOnce, RefinesCopy and ReplayAscends,  *)
(* then what the run says of itself: ClaimsAreStored, as long as no put    *)
(* fails, and InteriorMetaMatches, whatever fails.                         *)
(***************************************************************************)
EXTENDS BackupWorker_proofs

Follows(a, b, p) == a < b /\ \A o \in log[p] : ~(a < o /\ o < b)

ObjectAt(r, s) == store[<<part[r], s>>]

(* The last offset of the last segment the run has done. *)
LastDone(r) == LastOf(ObjectAt(r, segmentNum[r] - 1).msgs).off

(* Where the run may have left keys: in the partitions before its own, and *)
(* in its own below segmentNum, where everything is whole.  The key it is  *)
(* about to write is in use only between the two halves of its flush.      *)
KeysInv(r) ==
  /\ pc[r] \in {"idle", "next"} => \A k \in DOMAIN store : k[1] < part[r]
  /\ InPartition(r) =>
       /\ \A k \in DOMAIN store :
            \/ k[1] < part[r]
            \/ k[1] = part[r] /\ k[2] < segmentNum[r]
            \/ k = SegmentKey(r) /\ pc[r] \in {"write", "meta"}
       /\ \A s \in Nat : s < segmentNum[r] =>
            <<part[r], s>> \in DOMAIN store /\ ObjectAt(r, s).state = "whole"
  /\ pc[r] = "write" =>
       SegmentKey(r) \in DOMAIN store /\ store[SegmentKey(r)].state = "empty"
  /\ pc[r] = "meta" =>
       SegmentKey(r) \in DOMAIN store /\ store[SegmentKey(r)] = Whole(batch[r])

(* The batch, or what the consumer returns next, continues where the last  *)
(* segment ends.                                                           *)
LinkInv(r) ==
  InPartition(r) /\ segmentNum[r] > 0 =>
    IF batch[r] = <<>>
      THEN pos[r][part[r]] = LastDone(r) + 1
      ELSE Follows(LastDone(r), batch[r][1].off, part[r])

RunInv(r) == KeysInv(r) /\ LinkInv(r)

(* ChainUnbroken is not inductive: the next segment joins the chain only   *)
(* because the batch does, and only because its key is free.               *)
ChainInv == ChainUnbroken /\ \A r \in Runs : RunInv(r)

OneRun == \A q, r \in Runs : q = r

LEMMA ChainInit == Init => ChainInv
<1> SUFFICES ASSUME Init PROVE ChainInv
  OBVIOUS
<1>1. DOMAIN store = {}
  BY DEF Init
<1>2. ASSUME NEW r \in Runs PROVE RunInv(r)
  <2>1. pc[r] = "idle"
    BY DEF Init
  <2> QED
    BY <1>1, <2>1 DEF RunInv, KeysInv, LinkInv, InPartition
<1> QED
  BY <1>1, <1>2 DEF ChainInv, ChainUnbroken

(* The first and last offsets of a segment or a batch are numbers below    *)
(* the end of the log.                                                     *)
LEMMA EndsOf ==
  ASSUME NEW p \in Partitions, NEW msgs \in Seq(Message), msgs # <<>>
  PROVE  /\ msgs[1].off \in Nat
         /\ LastOf(msgs).off \in Nat
         /\ BelowEnd(msgs, p) => msgs[1].off < logEnd[p] /\ LastOf(msgs).off < logEnd[p]
         /\ IsSlice(msgs, p) => \A i \in DOMAIN msgs : msgs[i].off <= LastOf(msgs).off
<1>1. Len(msgs) \in Nat /\ DOMAIN msgs = 1 .. Len(msgs) /\ Len(msgs) > 0
  OBVIOUS
<1>2. 1 \in DOMAIN msgs /\ Len(msgs) \in DOMAIN msgs
  BY <1>1
<1>3. \A i \in DOMAIN msgs : msgs[i].off \in Nat
  BY MessageOf
<1>4. IsSlice(msgs, p) => \A i \in DOMAIN msgs : msgs[i].off <= msgs[Len(msgs)].off
  BY <1>1, <1>2, <1>3 DEF IsSlice
<1> QED
  BY <1>2, <1>3, <1>4 DEF LastOf, BelowEnd

LEMMA WholeSegment ==
  ASSUME TypeInv, SliceInv, NEW k \in DOMAIN store, store[k].state = "whole"
  PROVE  /\ k[1] \in Partitions
         /\ k[2] \in Nat
         /\ k = <<k[1], k[2]>>
         /\ store[k].msgs \in Seq(Message)
         /\ store[k].msgs # <<>>
         /\ IsSlice(store[k].msgs, k[1])
         /\ BelowEnd(store[k].msgs, k[1])
BY DEF TypeInv, StoreTypeOK, Key, Object, SliceInv, ObjectInv

LEMMA ChainBroker ==
  ASSUME TypeInv, SliceInv, ChainInv, BrokerStep
  PROVE  ChainInv'
<1> PICK q \in Partitions : Produce(q) \/ Retain(q) \/ Compact(q)
  BY DEF BrokerStep
<1>1. UNCHANGED <<store, pc, part, pos, batch, segmentNum>>
  BY DEF Produce, Retain, Compact, storeVars, runVars, batchVars
<1>2. KafkaTypeOK /\ StoreTypeOK /\ RunTypeOK
  BY DEF TypeInv
<1>3. ASSUME NEW p \in Partitions PROVE log'[p] \subseteq log[p] \cup {logEnd[p]}
  BY <1>2 DEF Produce, Retain, Compact, KafkaTypeOK
<1>4. ChainUnbroken'
  <2> SUFFICES ASSUME NEW k \in DOMAIN store, k[2] > 0,
                      NEW before, before = <<k[1], k[2] - 1>>
               PROVE  /\ before \in DOMAIN store
                      /\ store[before].state = "whole"
                      /\ store[k].state = "whole" =>
                           Follows(LastOf(store[before].msgs).off,
                                   store[k].msgs[1].off, k[1])'
    BY <1>1 DEF ChainUnbroken, Follows, LastOf
  <2>1. /\ before \in DOMAIN store
        /\ store[before].state = "whole"
        /\ store[k].state = "whole" =>
             Follows(LastOf(store[before].msgs).off, store[k].msgs[1].off, k[1])
    BY DEF ChainInv, ChainUnbroken, Follows
  <2>2. ASSUME store[k].state = "whole"
        PROVE  Follows(LastOf(store[before].msgs).off, store[k].msgs[1].off, k[1])'
    <3> DEFINE a == LastOf(store[before].msgs).off
               b == store[k].msgs[1].off
    <3>1. k[1] \in Partitions /\ a \in Nat /\ b \in Nat /\ b < logEnd[k[1]]
      BY <2>1, <2>2, WholeSegment, EndsOf
    <3>2. Follows(a, b, k[1])
      BY <2>1, <2>2
    <3>3. a' = a /\ b' = b
      BY <1>1 DEF LastOf
    <3> HIDE DEF a, b
    <3>4. \A o \in log'[k[1]] : ~(a < o /\ o < b)
      BY <1>2, <1>3, <3>1, <3>2 DEF Follows, KafkaTypeOK
    <3>5. a < b
      BY <3>2 DEF Follows
    <3> QED
      BY <3>3, <3>4, <3>5 DEF Follows, a, b
  <2> QED
    BY <2>1, <2>2
<1>5. ASSUME NEW r \in Runs PROVE RunInv(r)'
  <2>1. KeysInv(r) /\ LinkInv(r) /\ BatchInv(r)
    BY DEF ChainInv, RunInv, SliceInv
  <2>2. KeysInv(r)'
    BY <1>1, <2>1 DEF KeysInv, InPartition, SegmentKey, ObjectAt
  <2>3. CASE InPartition(r) /\ segmentNum[r] > 0 /\ batch[r] # <<>>
    <3> DEFINE p == part[r]
               a == LastDone(r)
               b == batch[r][1].off
               last == <<p, segmentNum[r] - 1>>
    <3>1. p \in Partitions
      BY <1>2, <2>3, WorkerAssumption DEF TypeInv, RoomInv, RunTypeOK, Partitions
    <3>2. segmentNum[r] - 1 \in Nat /\ segmentNum[r] - 1 < segmentNum[r]
      BY <1>2, <2>3 DEF RunTypeOK
    <3>3. last \in DOMAIN store /\ store[last].state = "whole"
      BY <2>1, <2>3, <3>2 DEF KeysInv, ObjectAt
    <3>4. a \in Nat
      BY <3>1, <3>3, WholeSegment, EndsOf DEF LastDone, ObjectAt
    <3>5. b \in Nat /\ b < logEnd[p]
      BY <1>2, <2>1, <2>3, <3>1, EndsOf DEF BatchInv, RunTypeOK
    <3>6. Follows(a, b, p)
      BY <2>1, <2>3 DEF LinkInv
    <3>7. UNCHANGED <<p, a, b>>
      BY <1>1 DEF LastDone, ObjectAt, LastOf
    <3> HIDE DEF a, b, p
    <3>8. \A o \in log'[p] : ~(a < o /\ o < b)
      BY <1>2, <1>3, <3>1, <3>4, <3>5, <3>6 DEF Follows, KafkaTypeOK
    <3>9. Follows(a, b, p)'
      BY <3>6, <3>7, <3>8 DEF Follows
    <3> QED
      BY <1>1, <2>2, <2>3, <3>9 DEF RunInv, LinkInv, a, b, p
  <2>4. CASE ~(InPartition(r) /\ segmentNum[r] > 0 /\ batch[r] # <<>>)
    BY <1>1, <2>1, <2>2, <2>4
    DEF RunInv, LinkInv, InPartition, LastDone, ObjectAt, LastOf
  <2> QED
    BY <2>3, <2>4
<1> QED
  BY <1>4, <1>5 DEF ChainInv

(* With one run, a step that leaves the store and the broker alone has to  *)
(* show the invariant of the run only.                                     *)
LEMMA ChainKept ==
  ASSUME OneRun, ChainInv, NEW r \in Runs, UNCHANGED <<kafkaVars, store>>, RunInv(r)'
  PROVE  ChainInv'
<1>1. UNCHANGED <<log, store>>
  BY DEF kafkaVars
<1>2. ChainUnbroken'
  BY <1>1 DEF ChainInv, ChainUnbroken, LastOf
<1>3. \A q \in Runs : RunInv(q)'
  BY DEF OneRun
<1> QED
  BY <1>2, <1>3 DEF ChainInv

LEMMA KeyType == TypeInv => \A k \in DOMAIN store : k[1] \in Nat /\ k[2] \in Nat /\ k = <<k[1], k[2]>>
BY WorkerAssumption DEF TypeInv, StoreTypeOK, Key, Partitions

LEMMA ChainOutside ==
  ASSUME OneRun, TypeInv, ChainInv, NEW r \in Runs,
         \/ Start(r) \/ Finish(r) \/ OpenFails(r)
         \/ Cancel(r) \/ MainReturns(r) \/ Crash(r)
  PROVE  ChainInv'
<1>1. RunTypeOK /\ UNCHANGED <<kafkaVars, storeVars>>
  BY DEF TypeInv, Start, Finish, OpenFails, Cancel, MainReturns, Crash, ProcessEnds
<1>2. KeysInv(r) /\ LinkInv(r) /\ UNCHANGED store
  BY <1>1 DEF ChainInv, RunInv, storeVars
<1>3. CASE Cancel(r)
  <2>1. UNCHANGED <<pc, part, pos, batch, segmentNum>>
    BY <1>3 DEF Cancel, batchVars
  <2>2. UNCHANGED log
    BY <1>1 DEF kafkaVars
  <2>3. RunInv(r)'
    BY <1>2, <2>1, <2>2
    DEF RunInv, KeysInv, LinkInv, InPartition, SegmentKey, LastDone, ObjectAt,
        Follows, LastOf
  <2> QED
    BY <1>1, <1>2, <2>3, ChainKept
<1>4. CASE Start(r)
  <2>1. pc[r] = "idle" /\ pc'[r] = "next" /\ part' = part
    BY <1>1, <1>4 DEF Start, RunTypeOK
  <2>2. RunInv(r)'
    BY <1>2, <2>1 DEF RunInv, KeysInv, LinkInv, InPartition
  <2> QED
    BY <1>1, <1>2, <2>2, ChainKept
<1>5. CASE OpenFails(r)
  <2>1. pc[r] = "next" /\ pc'[r] = "next" /\ part[r] \in Nat /\ part'[r] = part[r] + 1
    BY <1>1, <1>5 DEF OpenFails, HasNextPartition, RunTypeOK
  <2>2. RunInv(r)'
    BY <1>2, <2>1, KeyType DEF RunInv, KeysInv, LinkInv, InPartition
  <2> QED
    BY <1>1, <1>2, <2>2, ChainKept
<1>6. CASE Finish(r) \/ MainReturns(r) \/ Crash(r)
  <2>1. pc'[r] \in Terminal
    BY <1>1, <1>6 DEF Finish, MainReturns, Crash, ProcessEnds, Terminal, RunTypeOK
  <2>2. RunInv(r)'
    BY <2>1 DEF RunInv, KeysInv, LinkInv, InPartition, Terminal
  <2> QED
    BY <1>1, <1>2, <2>2, ChainKept
<1> QED
  BY <1>3, <1>4, <1>5, <1>6

(* What opening a partition finds and what it leaves alone.                *)
LEMMA OpenFacts ==
  ASSUME TypeInv, NEW r \in Runs, OpenPartition(r)
  PROVE  /\ RunTypeOK /\ KafkaTypeOK /\ part[r] \in Partitions /\ pc[r] = "next"
         /\ UNCHANGED <<kafkaVars, storeVars, part, cancelled, claimed>>
<1>1. RunTypeOK /\ KafkaTypeOK
  BY DEF TypeInv
<1>2. /\ pc[r] = "next" /\ part[r] < NumPartitions
      /\ UNCHANGED <<kafkaVars, storeVars, part, cancelled, claimed>>
  BY DEF OpenPartition, HasNextPartition
<1>3. part[r] \in Nat
  BY <1>1 DEF RunTypeOK
<1>4. part[r] \in Partitions
  BY <1>2, <1>3, WorkerAssumption DEF Partitions
<1> QED
  BY <1>1, <1>2, <1>4

LEMMA ChainOpen ==
  ASSUME OneRun, TypeInv, ChainInv, NEW r \in Runs, OpenPartition(r)
  PROVE  ChainInv'
<1>1. RunTypeOK /\ UNCHANGED <<kafkaVars, store>> /\ pc[r] = "next"
  BY DEF TypeInv, OpenPartition, HasNextPartition, storeVars
<1>2. pc'[r] = "poll" /\ part' = part /\ segmentNum'[r] = 0
  BY <1>1 DEF OpenPartition, RunTypeOK
<1>3. KeysInv(r)
  BY DEF ChainInv, RunInv
<1>4. RunInv(r)'
  BY <1>1, <1>2, <1>3 DEF RunInv, KeysInv, LinkInv, InPartition
<1> QED
  BY <1>1, <1>4, ChainKept

(* KeysInv stays true as long as the run does not come to or leave a place *)
(* it speaks about.                                                        *)
LEMMA KeysKept ==
  ASSUME NEW r \in Runs, KeysInv(r), UNCHANGED <<part, segmentNum, store>>,
         pc[r] = "poll", pc'[r] \in {"poll", "put"}
  PROVE  KeysInv(r)'
BY DEF KeysInv, InPartition, SegmentKey, ObjectAt

(* The last segment done exists, and its last offset is a number.          *)
LEMMA LastSegment ==
  ASSUME TypeInv, SliceInv, ChainInv, NEW r \in Runs, InPartition(r), segmentNum[r] > 0
  PROVE  LastDone(r) \in Nat
<1>1. segmentNum[r] - 1 \in Nat /\ segmentNum[r] - 1 < segmentNum[r]
  BY DEF TypeInv, RunTypeOK
<1>2. /\ <<part[r], segmentNum[r] - 1>> \in DOMAIN store
      /\ store[<<part[r], segmentNum[r] - 1>>].state = "whole"
  BY <1>1 DEF ChainInv, RunInv, KeysInv, ObjectAt
<1> QED
  BY <1>2, WholeSegment, EndsOf DEF LastDone, ObjectAt

(* What Poll returns from the position behind the last segment continues   *)
(* it: nothing of the log lies between.                                    *)
LEMMA ChainPoll ==
  ASSUME Consumer = "port", OneRun, TypeInv, SliceInv, ChainInv,
         NEW r \in Runs, PollMessage(r)
  PROVE  ChainInv'
<1>1. KafkaTypeOK /\ RunTypeOK /\ pc[r] = "poll" /\ InPartition(r)
  BY DEF TypeInv, PollMessage, InPartition
<1>2. UNCHANGED <<kafkaVars, store, part, segmentNum, log>>
  BY DEF PollMessage, storeVars, kafkaVars
<1>3. KeysInv(r) /\ LinkInv(r)
  BY DEF ChainInv, RunInv
<1> DEFINE p == part[r]
           n == segmentNum[r]
           a == LastDone(r)
<1>4. p \in Partitions
  BY <1>1, WorkerAssumption DEF TypeInv, RoomInv, RunTypeOK, Partitions
<1>5. PICK o \in log[p] : IsNext(o, p, pos[r][p]) /\ Take(r, p, o)
  BY DEF PollMessage, PolledPartitions
<1>6. pc'[r] \in {"poll", "put"}
  BY <1>1, <1>5 DEF Take, RunTypeOK
<1>7. KeysInv(r)'
  BY <1>1, <1>2, <1>3, <1>6, KeysKept
<1>8. batch'[r] = Append(batch[r], [part |-> p, off |-> o])
  BY <1>1, <1>5 DEF Take, RunTypeOK
<1>9. batch'[r] # <<>> /\ batch'[r][1] = IF batch[r] = <<>> THEN [part |-> p, off |-> o] ELSE batch[r][1]
  <2>1. batch[r] \in Seq(Message)
    BY <1>1 DEF RunTypeOK
  <2>2. CASE batch[r] = <<>>
    BY <1>8, <2>2
  <2>3. CASE batch[r] # <<>>
    BY <1>8, <2>1, <2>3
  <2> QED
    BY <2>2, <2>3
<1>10. LinkInv(r)'
  <2> SUFFICES ASSUME n > 0 PROVE Follows(a, batch'[r][1].off, p)
    BY <1>2, <1>9 DEF LinkInv, LastDone, ObjectAt, Follows, LastOf
  <2>1. CASE batch[r] # <<>>
    BY <1>1, <1>3, <1>9, <2>1 DEF LinkInv
  <2>2. CASE batch[r] = <<>>
    <3>1. a \in Nat
      BY <1>1, LastSegment
    <3>2. pos[r][p] = a + 1
      BY <1>1, <1>3, <2>2 DEF LinkInv
    <3>3. batch'[r][1].off = o
      BY <1>9, <2>2
    <3> HIDE DEF a, p
    <3>4. o >= a + 1 /\ \A q \in log[p] : q \in Nat /\ (q >= a + 1 => o <= q)
      BY <1>1, <1>4, <1>5, <3>2 DEF IsNext, KafkaTypeOK
    <3>5. o \in Nat
      BY <3>4
    <3>6. Follows(a, o, p)
      BY <3>1, <3>4, <3>5 DEF Follows
    <3> QED
      BY <3>3, <3>6
  <2> QED
    BY <2>1, <2>2
<1> QED
  BY <1>2, <1>7, <1>10, ChainKept DEF RunInv

(* Once the run has left a partition, its keys are below the next one.     *)
LEMMA ReturnKeys ==
  ASSUME RunTypeOK, NEW r \in Runs, Return(r),
         \A k \in DOMAIN store' : k[1] \in Nat /\ (k[1] < part[r] \/ k[1] = part[r])
  PROVE  RunInv(r)'
<1>1. pc'[r] = "next" /\ part[r] \in Nat /\ part'[r] = part[r] + 1
  BY DEF Return, RunTypeOK
<1> QED
  BY <1>1 DEF RunInv, KeysInv, LinkInv, InPartition

LEMMA ChainPollEnds ==
  ASSUME OneRun, TypeInv, ChainInv, NEW r \in Runs, PollNil(r) \/ CtxDone(r)
  PROVE  ChainInv'
<1>1. RunTypeOK /\ pc[r] = "poll" /\ UNCHANGED <<kafkaVars, store, pos, log>>
  BY DEF TypeInv, PollNil, CtxDone, storeVars, kafkaVars
<1>2. KeysInv(r) /\ LinkInv(r)
  BY DEF ChainInv, RunInv
<1>3. CASE \E reason \in Reason : FlushRest(r, reason)
  <2>1. pc'[r] = "put" /\ UNCHANGED <<part, batch, segmentNum>>
    BY <1>1, <1>3 DEF FlushRest, RunTypeOK
  <2>2. KeysInv(r)'
    BY <1>1, <1>2, <2>1, KeysKept
  <2>3. LinkInv(r)'
    BY <1>1, <1>2, <2>1 DEF LinkInv, InPartition, LastDone, ObjectAt, Follows, LastOf
  <2> QED
    BY <1>1, <2>2, <2>3, ChainKept DEF RunInv
<1>4. CASE Return(r)
  <2>1. \A k \in DOMAIN store : k[1] \in Nat /\ (k[1] < part[r] \/ k[1] = part[r])
    BY <1>1, <1>2, KeyType DEF KeysInv, InPartition, SegmentKey
  <2> QED
    BY <1>1, <1>4, <2>1, ReturnKeys, ChainKept
<1> QED
  BY <1>3, <1>4 DEF PollNil, CtxDone, Reason, ReturnNil, ReturnError

(* What a store under the key of the run does to the store: the key is not *)
(* that of a whole segment, and none above it is in use.                   *)
LEMMA StoreAtKey ==
  ASSUME TypeInv, ChainInv, NEW r \in Runs, pc[r] \in {"put", "write"},
         NEW object, StoreObject(r, object)
  PROVE  /\ SegmentKey(r) \in DOMAIN store => store[SegmentKey(r)].state = "empty"
         /\ DOMAIN store' = DOMAIN store \cup {SegmentKey(r)}
         /\ store'[SegmentKey(r)] = object
         /\ \A k \in DOMAIN store : k # SegmentKey(r) => store'[k] = store[k]
         /\ \A k \in DOMAIN store : k[1] # part[r] \/ k[2] <= segmentNum[r]
         /\ \A k \in DOMAIN store' : k[1] \in Nat /\ (k[1] < part[r] \/ k[1] = part[r])
<1>1. KeysInv(r) /\ InPartition(r) /\ part[r] \in Nat /\ segmentNum[r] \in Nat
  BY DEF ChainInv, RunInv, InPartition, TypeInv, RunTypeOK
<1>2. \A k \in DOMAIN store : k[1] \in Nat /\ k[2] \in Nat
  BY KeyType
<1>3. /\ DOMAIN store' = DOMAIN store \cup {SegmentKey(r)}
      /\ store'[SegmentKey(r)] = object
      /\ \A k \in DOMAIN store : k # SegmentKey(r) => store'[k] = store[k]
  BY DEF StoreObject, Write
<1>4. \A k \in DOMAIN store :
        \/ k[1] < part[r]
        \/ k[1] = part[r] /\ k[2] < segmentNum[r]
        \/ k = SegmentKey(r) /\ pc[r] = "write"
  BY <1>1 DEF KeysInv
<1>5. SegmentKey(r)[1] = part[r] /\ SegmentKey(r)[2] = segmentNum[r]
  BY DEF SegmentKey
<1>6. SegmentKey(r) \in DOMAIN store => pc[r] = "write"
  BY <1>1, <1>2, <1>4, <1>5
<1>7. SegmentKey(r) \in DOMAIN store => store[SegmentKey(r)].state = "empty"
  BY <1>1, <1>6 DEF KeysInv
<1>8. \A k \in DOMAIN store : k[1] # part[r] \/ k[2] <= segmentNum[r]
  BY <1>1, <1>2, <1>4, <1>5
<1>9. \A k \in DOMAIN store' : k[1] \in Nat /\ (k[1] < part[r] \/ k[1] = part[r])
  BY <1>1, <1>2, <1>3, <1>4, <1>5
<1> QED
  BY <1>3, <1>7, <1>8, <1>9

LEMMA ChainStored ==
  ASSUME TypeInv, SliceInv, ChainInv, NEW r \in Runs, pc[r] \in {"put", "write"},
         UNCHANGED log, NEW object, StoreObject(r, object),
         object.state = "whole" => object = Whole(batch[r])
  PROVE  ChainUnbroken'
<1> DEFINE p == part[r]
           n == segmentNum[r]
           key == SegmentKey(r)
<1>1. /\ KeysInv(r) /\ LinkInv(r) /\ BatchInv(r) /\ InPartition(r)
      /\ p \in Nat /\ n \in Nat /\ key = <<p, n>>
  BY DEF ChainInv, RunInv, SliceInv, InPartition, SegmentKey, TypeInv, RunTypeOK
<1>2. /\ DOMAIN store' = DOMAIN store \cup {key}
      /\ store'[key] = object
      /\ \A k \in DOMAIN store : k # key => store'[k] = store[k]
      /\ \A k \in DOMAIN store : k[1] # p \/ k[2] <= n
  BY StoreAtKey
<1> SUFFICES ASSUME NEW k \in DOMAIN store', k[2] > 0,
                    NEW before, before = <<k[1], k[2] - 1>>
             PROVE  /\ before \in DOMAIN store'
                    /\ store'[before].state = "whole"
                    /\ store'[k].state = "whole" =>
                         Follows(LastOf(store'[before].msgs).off,
                                 store'[k].msgs[1].off, k[1])
  BY DEF ChainUnbroken, Follows, LastOf
<1>3. CASE k = key
  <2>1. k[1] = p /\ k[2] = n /\ n - 1 \in Nat /\ n - 1 < n /\ before = <<p, n - 1>>
    BY <1>1, <1>3
  <2>2. before \in DOMAIN store /\ store[before].state = "whole" /\ before # key
    BY <1>1, <2>1 DEF KeysInv, ObjectAt
  <2>3. before \in DOMAIN store' /\ store'[before] = store[before]
    BY <1>2, <2>2
  <2>4. batch[r] # <<>>
    BY <1>1 DEF BatchInv
  <2>5. Follows(LastOf(store[before].msgs).off, batch[r][1].off, p)
    BY <1>1, <1>3, <2>1, <2>4 DEF LinkInv, LastDone, ObjectAt
  <2>6. object.state = "whole" => object.msgs = batch[r]
    BY DEF Whole
  <2> QED
    BY <1>2, <1>3, <2>1, <2>2, <2>3, <2>5, <2>6
<1>4. CASE k # key
  <2>1. k \in DOMAIN store /\ store'[k] = store[k]
    BY <1>2, <1>4
  <2>2. /\ before \in DOMAIN store
        /\ store[before].state = "whole"
        /\ store[k].state = "whole" =>
             Follows(LastOf(store[before].msgs).off, store[k].msgs[1].off, k[1])
    BY <2>1 DEF ChainInv, ChainUnbroken, Follows
  <2>3. k[2] \in Nat
    BY <2>1, KeyType
  <2>4. before # key
    BY <1>1, <1>2, <2>1, <2>3
  <2>5. before \in DOMAIN store' /\ store'[before] = store[before]
    BY <1>2, <2>2, <2>4
  <2> QED
    BY <2>1, <2>2, <2>5
<1> QED
  BY <1>3, <1>4

(* The run moves on to the second half of its flush. *)
LEMMA ChainMoved ==
  ASSUME TypeInv, ChainInv, NEW r \in Runs, pc[r] \in {"put", "write"},
         NEW object, StoreObject(r, object), NEW location, PutGoesTo(r, location),
         \/ location = "write" /\ object.state = "empty"
         \/ location = "meta" /\ object = Whole(batch[r])
  PROVE  RunInv(r)'
<1> DEFINE p == part[r]
           n == segmentNum[r]
           key == SegmentKey(r)
<1>1. /\ KeysInv(r) /\ LinkInv(r) /\ InPartition(r)
      /\ p \in Nat /\ n \in Nat /\ key = <<p, n>>
  BY DEF ChainInv, RunInv, InPartition, SegmentKey, TypeInv, RunTypeOK
<1>2. /\ DOMAIN store' = DOMAIN store \cup {key}
      /\ store'[key] = object
      /\ \A k \in DOMAIN store : k # key => store'[k] = store[k]
  BY StoreAtKey
<1>3. pc'[r] = location /\ location \in {"write", "meta"}
  BY DEF PutGoesTo, TypeInv, RunTypeOK
<1>4. UNCHANGED <<part, pos, batch, segmentNum, log>> /\ key' = key
  BY DEF PutGoesTo, batchVars, kafkaVars, SegmentKey
<1>5. \A s \in Nat : s < n => /\ <<p, s>> \in DOMAIN store
                              /\ store[<<p, s>>].state = "whole"
                              /\ <<p, s>> # key
  BY <1>1 DEF KeysInv, ObjectAt
<1>6. \A s \in Nat : s < n => /\ <<p, s>> \in DOMAIN store'
                              /\ store'[<<p, s>>] = store[<<p, s>>]
  BY <1>2, <1>5
<1>7. \A k \in DOMAIN store' : k[1] < p \/ (k[1] = p /\ k[2] < n) \/ k = key
  BY <1>1, <1>2 DEF KeysInv
<1>8. KeysInv(r)'
  <2>1. \A s \in Nat : s < n => ObjectAt(r, s)'.state = "whole"
    BY <1>4, <1>5, <1>6 DEF ObjectAt
  <2> QED
    BY <1>2, <1>3, <1>4, <1>6, <1>7, <2>1 DEF KeysInv, InPartition
<1>9. LinkInv(r)'
  <2>1. CASE n > 0
    <3>1. n - 1 \in Nat /\ n - 1 < n
      BY <1>1, <2>1
    <3>2. LastDone(r)' = LastDone(r)
      BY <1>4, <1>6, <3>1 DEF LastDone, ObjectAt, LastOf
    <3> QED
      BY <1>1, <1>4, <2>1, <3>2 DEF LinkInv, Follows
  <2>2. CASE ~(n > 0)
    BY <1>4, <2>2 DEF LinkInv
  <2> QED
    BY <2>1, <2>2
<1> QED
  BY <1>8, <1>9 DEF RunInv

LEMMA ChainPut ==
  ASSUME OneRun, TypeInv, SliceInv, ChainInv, NEW r \in Runs,
         PutObject(r) \/ CreateFile(r) \/ WriteFile(r)
  PROVE  ChainInv'
<1>1. pc[r] \in {"put", "write"} /\ KeysInv(r)
  BY DEF PutObject, CreateFile, WriteFile, ChainInv, RunInv
<1>2. PICK object, location :
        /\ StoreObject(r, object)
        /\ PutGoesTo(r, location)
        /\ \/ location = "write" /\ object = Broken("empty")
           \/ location = "meta" /\ object = Whole(batch[r])
  <2>1. CASE PutObject(r)
    BY <2>1 DEF PutObject
  <2>2. CASE CreateFile(r)
    BY <2>2 DEF CreateFile
  <2>3. CASE WriteFile(r)
    BY <1>1, <2>3 DEF WriteFile, KeysInv
  <2> QED
    BY <2>1, <2>2, <2>3
<1>3. UNCHANGED log
  BY <1>2 DEF PutGoesTo, kafkaVars
<1>4. object = Broken("empty") => object.state = "empty"
  BY DEF Broken
<1>5. ChainUnbroken'
  BY <1>1, <1>2, <1>3, <1>4, ChainStored
<1>6. RunInv(r)'
  BY <1>1, <1>2, <1>4, ChainMoved
<1> QED
  BY <1>5, <1>6 DEF ChainInv, OneRun

LEMMA ChainPutFails ==
  ASSUME OneRun, TypeInv, SliceInv, ChainInv, NEW r \in Runs, PutFails(r)
  PROVE  ChainInv'
<1>1. RunTypeOK /\ pc[r] \in {"put", "write"} /\ KeysInv(r)
  BY DEF PutFails, ChainInv, RunInv, TypeInv
<1>2. UNCHANGED <<kafkaVars, log>> /\ Return(r)
  BY DEF PutFails, kafkaVars, FlushFailed, ReturnNil, ReturnError
<1>3. CASE UNCHANGED store
  <2>1. \A k \in DOMAIN store : k[1] \in Nat /\ (k[1] < part[r] \/ k[1] = part[r])
    BY <1>1, KeyType DEF KeysInv, InPartition, SegmentKey
  <2> QED
    BY <1>1, <1>2, <1>3, <2>1, ReturnKeys, ChainKept
<1>4. CASE \E object : /\ StoreObject(r, object)
                       /\ object.state = "whole" => object = Whole(batch[r])
  <2>1. PICK object : /\ StoreObject(r, object)
                      /\ object.state = "whole" => object = Whole(batch[r])
    BY <1>4
  <2>2. ChainUnbroken'
    BY <1>1, <1>2, <2>1, ChainStored
  <2>3. RunInv(r)'
    BY <1>1, <1>2, <2>1, StoreAtKey, ReturnKeys
  <2> QED
    BY <2>2, <2>3 DEF ChainInv, OneRun
<1>5. Broken("torn").state # "whole"
  BY DEF Broken
<1> QED
  BY <1>3, <1>4, <1>5 DEF PutFails

(* The flush of the loop is done: the segment is whole, and the consumer   *)
(* stands right behind it.                                                 *)
LEMMA ChainMeta ==
  ASSUME OneRun, TypeInv, SliceInv, ChainInv, NEW r \in Runs, SaveSegmentMetadata(r)
  PROVE  ChainInv'
<1>1. /\ RunTypeOK /\ pc[r] = "meta" /\ InPartition(r)
      /\ KeysInv(r) /\ BatchInv(r)
      /\ UNCHANGED <<kafkaVars, store, pos>>
  BY DEF SaveSegmentMetadata, InPartition, ChainInv, RunInv, SliceInv, TypeInv
<1> DEFINE p == part[r]
           n == segmentNum[r]
           key == SegmentKey(r)
<1>2. p \in Nat /\ n \in Nat /\ key = <<p, n>>
  BY <1>1 DEF RunTypeOK, SegmentKey
<1>3. key \in DOMAIN store /\ store[key].state = "whole" /\ store[key].msgs = batch[r]
  BY <1>1 DEF KeysInv, Whole
<1>4. CASE why[r] = "loop"
  <2>1. /\ pc'[r] = "poll"
        /\ batch'[r] = <<>>
        /\ segmentNum'[r] = n + 1
        /\ part' = part
    BY <1>1, <1>4 DEF SaveSegmentMetadata, FlushDone, NextSegment, RunTypeOK
  <2>2. \A k \in DOMAIN store : k[1] < p \/ (k[1] = p /\ k[2] < n + 1)
    BY <1>1, <1>2, KeyType DEF KeysInv
  <2>3. \A s \in Nat : s < n + 1 => /\ <<p, s>> \in DOMAIN store
                                    /\ store[<<p, s>>].state = "whole"
    <3> SUFFICES ASSUME NEW s \in Nat, s < n + 1
                 PROVE  <<p, s>> \in DOMAIN store /\ store[<<p, s>>].state = "whole"
      OBVIOUS
    <3>1. s < n \/ s = n
      BY <1>2
    <3> QED
      BY <1>1, <1>2, <1>3, <3>1 DEF KeysInv, ObjectAt
  <2>4. KeysInv(r)'
    BY <1>1, <2>1, <2>2, <2>3 DEF KeysInv, InPartition, ObjectAt
  <2>5. LinkInv(r)'
    <3>1. pos[r][p] = LastOf(batch[r]).off + 1
      BY <1>1 DEF BatchInv
    <3>2. segmentNum'[r] - 1 = n
      BY <1>2, <2>1
    <3>3. LastDone(r)' = LastOf(batch[r]).off
      BY <1>1, <1>2, <1>3, <2>1, <3>2 DEF LastDone, ObjectAt, LastOf
    <3> QED
      BY <1>1, <2>1, <3>1, <3>3 DEF LinkInv
  <2> QED
    BY <1>1, <2>4, <2>5, ChainKept DEF RunInv
<1>5. CASE Return(r)
  <2>1. \A k \in DOMAIN store : k[1] \in Nat /\ (k[1] < p \/ k[1] = p)
    BY <1>1, <1>2, KeyType DEF KeysInv
  <2> QED
    BY <1>1, <1>5, <2>1, ReturnKeys, ChainKept
<1> QED
  BY <1>4, <1>5 DEF SaveSegmentMetadata, FlushDone, ReturnNil, ReturnError

LEMMA ChainUnchanged == ChainInv /\ UNCHANGED vars => ChainInv'
<1> SUFFICES ASSUME ChainInv, UNCHANGED vars PROVE ChainInv'
  OBVIOUS
<1>1. UNCHANGED <<log, store, pc, part, pos, batch, segmentNum>>
  BY DEF vars, kafkaVars, storeVars, runVars, batchVars
<1>2. ChainUnbroken'
  BY <1>1 DEF ChainInv, ChainUnbroken, LastOf
<1>3. \A r \in Runs : RunInv(r)'
  BY <1>1 DEF ChainInv, RunInv, KeysInv, LinkInv, InPartition, SegmentKey, LastDone, ObjectAt,
      Follows, LastOf
<1> QED
  BY <1>2, <1>3 DEF ChainInv

LEMMA ChainStep ==
  ASSUME Consumer = "port", OneRun, TypeInv, SliceInv, ChainInv, [Next]_vars
  PROVE  ChainInv'
<1>1. CASE BrokerStep
  BY <1>1, ChainBroker
<1>2. ASSUME NEW r \in Runs, WorkerStep(r)
      PROVE  ChainInv'
  <2>1. CASE Start(r) \/ Finish(r) \/ OpenFails(r)
    BY <2>1, ChainOutside
  <2>2. CASE OpenPartition(r)
    BY <2>2, ChainOpen
  <2>3. CASE PollMessage(r)
    BY <2>3, ChainPoll
  <2>4. CASE PollNil(r) \/ CtxDone(r)
    BY <2>4, ChainPollEnds
  <2>5. CASE PutObject(r) \/ CreateFile(r) \/ WriteFile(r)
    BY <2>5, ChainPut
  <2>6. CASE PutFails(r)
    BY <2>6, ChainPutFails
  <2>7. CASE SaveSegmentMetadata(r)
    BY <2>7, ChainMeta
  <2>8. CASE PollFails(r)
    BY <2>8, ChainUnchanged DEF PollFails
  <2> QED
    BY <1>2, <2>1, <2>2, <2>3, <2>4, <2>5, <2>6, <2>7, <2>8 DEF WorkerStep, OwnStep, Poll
<1>3. ASSUME NEW r \in Runs, Cancel(r) \/ MainReturns(r) \/ Crash(r)
      PROVE  ChainInv'
  BY <1>3, ChainOutside
<1>4. CASE UNCHANGED vars
  BY <1>4, ChainUnchanged
<1> QED
  BY <1>1, <1>2, <1>3, <1>4 DEF Next, Terminating

LEMMA ChainInvariant ==
  Consumer = "port" /\ OneRun => (Spec => [](TypeInv /\ ChainInv))
<1> SUFFICES ASSUME Consumer = "port", OneRun PROVE Spec => [](TypeInv /\ ChainInv)
  OBVIOUS
<1>1. TypeInv /\ SliceInv /\ [Next]_vars => SliceInv'
  BY SliceStep
<1>2. TypeInv /\ SliceInv /\ ChainInv /\ [Next]_vars => ChainInv'
  BY ChainStep
<1> QED
  BY <1>1, <1>2, SliceInit, ChainInit, TypeInvariant, PTL DEF Spec

(* A backup that is run once leaves segments without a hole: each          *)
(* continues where its predecessor ends, whatever fails or is cancelled,   *)
(* wherever the process dies (flushBatch and its callers).                 *)
THEOREM ChainIsUnbroken ==
  Consumer = "port" /\ OneRun => (Spec => []ChainUnbroken)
<1> SUFFICES ASSUME Consumer = "port", OneRun PROVE Spec => []ChainUnbroken
  OBVIOUS
<1>1. ChainInv => ChainUnbroken
  BY DEF ChainInv
<1> QED
  BY <1>1, ChainInvariant, PTL

WholeKept ==
  \A k \in DOMAIN store :
    store[k].state = "whole" => k \in DOMAIN store' /\ store'[k] = store[k]

(* Only the three steps that store an object can disturb one, and they     *)
(* find their key free, or empty since they created the file themselves.   *)
LEMMA KeptByStep ==
  ASSUME TypeInv, ChainInv, [Next]_vars
  PROVE  WholeKept
<1>1. UNCHANGED store => WholeKept
  BY DEF WholeKept
<1>2. ASSUME NEW r \in Runs, pc[r] \in {"put", "write"},
             NEW object, StoreObject(r, object)
      PROVE  WholeKept
  BY <1>2, StoreAtKey DEF WholeKept
<1>3. CASE BrokerStep
  BY <1>1, <1>3 DEF BrokerStep, Produce, Retain, Compact, storeVars
<1>4. ASSUME NEW r \in Runs, WorkerStep(r)
      PROVE  WholeKept
  <2>1. CASE PutObject(r) \/ CreateFile(r) \/ WriteFile(r) \/ PutFails(r)
    BY <1>1, <1>2, <2>1 DEF PutObject, CreateFile, WriteFile, PutFails
  <2>2. CASE \/ Start(r) \/ Finish(r) \/ OpenPartition(r) \/ OpenFails(r)
             \/ PollMessage(r) \/ PollFails(r) \/ PollNil(r) \/ CtxDone(r)
             \/ SaveSegmentMetadata(r)
    BY <1>1, <2>2
    DEF Start, Finish, OpenPartition, OpenFails, PollMessage, PollFails,
        PollNil, CtxDone, SaveSegmentMetadata, storeVars, vars
  <2> QED
    BY <1>4, <2>1, <2>2 DEF WorkerStep, OwnStep, Poll
<1>5. ASSUME NEW r \in Runs, Cancel(r) \/ MainReturns(r) \/ Crash(r)
      PROVE  WholeKept
  BY <1>1, <1>5 DEF Cancel, MainReturns, Crash, ProcessEnds, storeVars
<1>6. CASE UNCHANGED vars
  BY <1>1, <1>6 DEF vars, storeVars
<1> QED
  BY <1>3, <1>4, <1>5, <1>6 DEF Next, Terminating

(* A backup that is run once never truncates, tears or replaces a segment  *)
(* it has stored (LocalRepository.Put would, under a key used before).     *)
THEOREM StoredOnce == Consumer = "port" /\ OneRun => (Spec => WriteOnce)
<1> SUFFICES ASSUME Consumer = "port", OneRun PROVE Spec => WriteOnce
  OBVIOUS
<1>1. TypeInv /\ ChainInv /\ [Next]_vars => WholeKept
  BY KeptByStep
<1> QED
  BY <1>1, ChainInvariant, PTL DEF Spec, WriteOnce, WholeKept

-----------------------------------------------------------------------------
(* The refinement: a stored segment is a chunk appended to the copy.       *)

Offsets(msgs) == {msgs[i].off : i \in DOMAIN msgs}

UnreadableInv == \A k \in DOMAIN store : store[k].state # "whole" => store[k].msgs = <<>>

(* The segments the run has done in its partition end at LastDone at the   *)
(* latest, which ChainUnbroken says of neighbours only.                    *)
AboveInv(r) ==
  InPartition(r) =>
    \A k \in DOMAIN store :
      k[1] = part[r] /\ k[2] < segmentNum[r] /\ store[k].state = "whole" =>
        LastOf(store[k].msgs).off <= LastDone(r)

CopyInv == UnreadableInv /\ \A r \in Runs : AboveInv(r)

LEMMA CopyInit == Init => CopyInv
<1> SUFFICES ASSUME Init PROVE CopyInv
  OBVIOUS
<1>1. DOMAIN store = {}
  BY DEF Init
<1> QED
  BY <1>1 DEF CopyInv, UnreadableInv, AboveInv

(* A step that changes neither the store nor where the run is within its   *)
(* partition.                                                              *)
LEMMA CopyKept ==
  ASSUME CopyInv, UNCHANGED store,
         \A r \in Runs :
           InPartition(r)' =>
             \/ InPartition(r) /\ part'[r] = part[r] /\ segmentNum'[r] = segmentNum[r]
             \/ \A k \in DOMAIN store : ~(k[2] < segmentNum'[r])
  PROVE  CopyInv'
<1>1. UnreadableInv'
  BY DEF CopyInv, UnreadableInv
<1>2. ASSUME NEW r \in Runs PROVE AboveInv(r)'
  <2>1. CASE InPartition(r) /\ part'[r] = part[r] /\ segmentNum'[r] = segmentNum[r]
    BY <2>1 DEF CopyInv, AboveInv, LastDone, ObjectAt, LastOf
  <2>2. CASE ~InPartition(r)' \/ \A k \in DOMAIN store : ~(k[2] < segmentNum'[r])
    BY <2>2 DEF AboveInv
  <2> QED
    BY <2>1, <2>2
<1> QED
  BY <1>1, <1>2 DEF CopyInv

LEMMA CopyMoves ==
  ASSUME OneRun, TypeInv, CopyInv, NEW r \in Runs,
         \/ Start(r) \/ Finish(r) \/ OpenPartition(r) \/ OpenFails(r)
         \/ PollMessage(r) \/ PollNil(r) \/ CtxDone(r)
         \/ Cancel(r) \/ MainReturns(r) \/ Crash(r)
  PROVE  CopyInv'
<1>1. RunTypeOK /\ UNCHANGED store
  BY DEF TypeInv, Start, Finish, OpenPartition, OpenFails, PollMessage, PollNil,
         CtxDone, Cancel, MainReturns, Crash, ProcessEnds, storeVars
<1>2. CASE Start(r) \/ Finish(r) \/ OpenFails(r) \/ MainReturns(r) \/ Crash(r)
  <2>1. pc'[r] \in {"next", "finished", "exited", "crashed"}
    BY <1>1, <1>2 DEF Start, Finish, OpenFails, HasNextPartition, MainReturns, Crash,
                      ProcessEnds, RunTypeOK
  <2> QED
    BY <1>1, <2>1, CopyKept DEF InPartition, OneRun
<1>3. CASE OpenPartition(r)
  <2>1. segmentNum'[r] = 0
    BY <1>1, <1>3 DEF OpenPartition, RunTypeOK
  <2>2. \A k \in DOMAIN store : ~(k[2] < segmentNum'[r])
    BY <2>1, KeyType
  <2> QED
    BY <1>1, <2>2, CopyKept DEF OneRun
<1>4. CASE PollMessage(r)
  BY <1>1, <1>4, CopyKept DEF PollMessage, InPartition, OneRun
<1>5. CASE PollNil(r) \/ CtxDone(r)
  <2>1. InPartition(r)
    BY <1>5 DEF PollNil, CtxDone, InPartition
  <2>2. CASE \E reason \in Reason : FlushRest(r, reason)
    BY <1>1, <2>1, <2>2, CopyKept DEF FlushRest, OneRun
  <2>3. CASE Return(r)
    <3>1. pc'[r] = "next"
      BY <1>1, <2>3 DEF Return, RunTypeOK
    <3> QED
      BY <1>1, <3>1, CopyKept DEF InPartition, OneRun
  <2> QED
    BY <1>5, <2>2, <2>3 DEF PollNil, CtxDone, Reason, ReturnNil, ReturnError
<1>6. CASE Cancel(r)
  BY <1>1, <1>6, CopyKept DEF Cancel, InPartition, batchVars, OneRun
<1> QED
  BY <1>2, <1>3, <1>4, <1>5, <1>6

LEMMA CopyPut ==
  ASSUME OneRun, TypeInv, ChainInv, CopyInv, NEW r \in Runs,
         pc[r] \in {"put", "write"}, NEW object, StoreObject(r, object),
         object.state # "whole" => object.msgs = <<>>,
         pc'[r] = "next" \/ UNCHANGED <<part, segmentNum>>
  PROVE  CopyInv'
<1> DEFINE key == SegmentKey(r)
<1>1. /\ InPartition(r) /\ KeysInv(r) /\ AboveInv(r)
      /\ part[r] \in Nat /\ segmentNum[r] \in Nat /\ key = <<part[r], segmentNum[r]>>
  BY DEF InPartition, ChainInv, RunInv, CopyInv, TypeInv, RunTypeOK, SegmentKey
<1>2. /\ DOMAIN store' = DOMAIN store \cup {key}
      /\ store'[key] = object
      /\ \A k \in DOMAIN store : k # key => store'[k] = store[k]
  BY StoreAtKey
<1>3. UnreadableInv'
  BY <1>2 DEF CopyInv, UnreadableInv
<1>4. AboveInv(r)'
  <2>1. CASE pc'[r] = "next"
    BY <2>1 DEF AboveInv, InPartition
  <2>2. CASE UNCHANGED <<part, segmentNum>>
    <3> SUFFICES ASSUME NEW k \in DOMAIN store', k[1] = part[r], k[2] < segmentNum[r],
                        store'[k].state = "whole"
                 PROVE  LastOf(store'[k].msgs).off <= LastDone(r)'
      BY <2>2 DEF AboveInv
    <3>1. k # key /\ k \in DOMAIN store /\ store'[k] = store[k]
      BY <1>1, <1>2
    <3>2. LastOf(store[k].msgs).off <= LastDone(r)
      BY <1>1, <3>1 DEF AboveInv
    <3>3. segmentNum[r] - 1 \in Nat /\ segmentNum[r] - 1 < segmentNum[r]
      BY <1>1, <3>1, KeyType
    <3>4. <<part[r], segmentNum[r] - 1>> \in DOMAIN store /\ <<part[r], segmentNum[r] - 1>> # key
      BY <1>1, <3>3 DEF KeysInv
    <3>5. LastDone(r)' = LastDone(r)
      BY <1>2, <2>2, <3>4 DEF LastDone, ObjectAt, LastOf
    <3> QED
      BY <3>1, <3>2, <3>5
  <2> QED
    BY <2>1, <2>2
<1> QED
  BY <1>3, <1>4 DEF CopyInv, OneRun

(* The segment just flushed begins above the one before it, so it ends     *)
(* above all of them.                                                      *)
LEMMA CopyMeta ==
  ASSUME OneRun, TypeInv, SliceInv, ChainInv, CopyInv,
         NEW r \in Runs, SaveSegmentMetadata(r)
  PROVE  CopyInv'
<1>1. /\ RunTypeOK /\ pc[r] = "meta" /\ InPartition(r) /\ UNCHANGED store
      /\ KeysInv(r) /\ LinkInv(r) /\ BatchInv(r) /\ AboveInv(r)
  BY DEF SaveSegmentMetadata, InPartition, ChainInv, RunInv, SliceInv, CopyInv, TypeInv
<1> DEFINE p == part[r]
           n == segmentNum[r]
           last == LastOf(batch[r]).off
<1>2. p \in Nat /\ n \in Nat /\ p \in Partitions
  BY <1>1, WorkerAssumption DEF TypeInv, RoomInv, RunTypeOK, Partitions
<1>3. UnreadableInv'
  BY <1>1 DEF CopyInv, UnreadableInv
<1>4. CASE why[r] = "loop"
  <2>1. segmentNum'[r] = n + 1 /\ part' = part
    BY <1>1, <1>4 DEF SaveSegmentMetadata, FlushDone, NextSegment, RunTypeOK
  <2>2. LastDone(r)' = last
    <3>1. segmentNum'[r] - 1 = n
      BY <1>2, <2>1
    <3>2. store[<<p, n>>].msgs = batch[r]
      BY <1>1 DEF KeysInv, SegmentKey, Whole
    <3> QED
      BY <1>1, <2>1, <3>1, <3>2 DEF LastDone, ObjectAt, LastOf
  <2>3. ASSUME NEW k \in DOMAIN store, k[1] = p, k[2] < n + 1, store[k].state = "whole"
        PROVE  LastOf(store[k].msgs).off <= last
    <3>1. /\ k[2] \in Nat /\ k = <<k[1], k[2]>>
          /\ LastOf(store[k].msgs).off \in Nat
      BY <1>2, <2>3, WholeSegment, EndsOf
    <3>2. CASE k[2] = n
      <4>1. store[k].msgs = batch[r]
        BY <1>1, <2>3, <3>1, <3>2 DEF KeysInv, SegmentKey, Whole
      <4> QED
        BY <3>1, <4>1
    <3>3. CASE k[2] # n
      <4>1. k[2] < n /\ n > 0
        BY <1>2, <2>3, <3>1, <3>3
      <4>2. LastDone(r) \in Nat /\ LastOf(store[k].msgs).off <= LastDone(r)
        BY <1>1, <2>3, <4>1, LastSegment DEF AboveInv
      <4>3. batch[r] # <<>> /\ batch[r] \in Seq(Message) /\ IsSlice(batch[r], p)
        BY <1>1 DEF BatchInv, RunTypeOK
      <4>4. LastDone(r) < batch[r][1].off
        BY <1>1, <4>1, <4>3 DEF LinkInv, Follows
      <4>5. batch[r][1].off \in Nat /\ last \in Nat /\ batch[r][1].off <= last
        BY <1>2, <4>3, EndsOf
      <4> HIDE DEF last
      <4> QED
        BY <3>1, <4>2, <4>4, <4>5
    <3> QED
      BY <3>2, <3>3
  <2>4. AboveInv(r)'
    BY <1>1, <2>1, <2>2, <2>3 DEF AboveInv, LastOf
  <2> QED
    BY <1>3, <2>4 DEF CopyInv, OneRun
<1>5. CASE Return(r)
  <2>1. pc'[r] = "next"
    BY <1>1, <1>5 DEF Return, RunTypeOK
  <2> QED
    BY <1>1, <2>1, CopyKept DEF InPartition, OneRun
<1> QED
  BY <1>4, <1>5 DEF SaveSegmentMetadata, FlushDone, ReturnNil, ReturnError

(* What the four steps that may store an object store.                     *)
LEMMA PutStores ==
  ASSUME ChainInv, NEW r \in Runs,
         PutObject(r) \/ CreateFile(r) \/ WriteFile(r) \/ PutFails(r)
  PROVE  /\ pc[r] \in {"put", "write"}
         /\ UNCHANGED log
         /\ \/ UNCHANGED store /\ Return(r)
            \/ /\ \E object \in {Whole(batch[r]), Broken("empty"), Broken("torn")} :
                    StoreObject(r, object)
               /\ Return(r) \/ UNCHANGED <<part, segmentNum>>
<1>1. CASE PutFails(r)
  BY <1>1 DEF PutFails, FlushFailed, ReturnNil, ReturnError, kafkaVars
<1>2. CASE PutObject(r) \/ CreateFile(r) \/ WriteFile(r)
  BY <1>2 DEF PutObject, CreateFile, WriteFile, PutGoesTo, kafkaVars, batchVars
<1> QED
  BY <1>1, <1>2

LEMMA CopyStep ==
  ASSUME Consumer = "port", OneRun, TypeInv, SliceInv, ChainInv, CopyInv, [Next]_vars
  PROVE  CopyInv'
<1>1. ASSUME UNCHANGED <<store, pc, part, segmentNum>>
      PROVE  CopyInv'
  BY <1>1, CopyKept DEF InPartition
<1>2. CASE BrokerStep
  BY <1>1, <1>2 DEF BrokerStep, Produce, Retain, Compact, storeVars, runVars, batchVars
<1>3. ASSUME NEW r \in Runs, WorkerStep(r)
      PROVE  CopyInv'
  <2>1. CASE PutObject(r) \/ CreateFile(r) \/ WriteFile(r) \/ PutFails(r)
    <3>1. pc[r] \in {"put", "write"} /\ (Return(r) => pc'[r] = "next")
      BY <2>1, PutStores DEF Return, TypeInv, RunTypeOK
    <3>2. CASE UNCHANGED store /\ Return(r)
      BY <3>1, <3>2, CopyKept DEF InPartition, OneRun
    <3>3. CASE /\ \E object \in {Whole(batch[r]), Broken("empty"), Broken("torn")} :
                     StoreObject(r, object)
               /\ Return(r) \/ UNCHANGED <<part, segmentNum>>
      <4>1. PICK object \in {Whole(batch[r]), Broken("empty"), Broken("torn")} :
              StoreObject(r, object)
        BY <3>3
      <4>2. object.state # "whole" => object.msgs = <<>>
        BY DEF Whole, Broken
      <4> QED
        BY <3>1, <3>3, <4>1, <4>2, CopyPut
    <3> QED
      BY <2>1, <3>2, <3>3, PutStores
  <2>2. CASE \/ Start(r) \/ Finish(r) \/ OpenPartition(r) \/ OpenFails(r)
             \/ PollMessage(r) \/ PollNil(r) \/ CtxDone(r)
    BY <2>2, CopyMoves
  <2>3. CASE SaveSegmentMetadata(r)
    BY <2>3, CopyMeta
  <2>4. CASE PollFails(r)
    BY <1>1, <2>4 DEF PollFails, vars, storeVars, runVars, batchVars
  <2> QED
    BY <1>3, <2>1, <2>2, <2>3, <2>4 DEF WorkerStep, OwnStep, Poll
<1>4. ASSUME NEW r \in Runs, Cancel(r) \/ MainReturns(r) \/ Crash(r)
      PROVE  CopyInv'
  BY <1>4, CopyMoves
<1>5. CASE UNCHANGED vars
  BY <1>1, <1>5 DEF vars, storeVars, runVars, batchVars
<1> QED
  BY <1>2, <1>3, <1>4, <1>5 DEF Next, Terminating

(* What is copied before a step, and after it.                             *)
LEMMA CopiedOf ==
  ASSUME NEW p \in Partitions, NEW o
  PROVE  /\ o \in CopiedOffsets[p]
              <=> \E k \in DOMAIN store : k[1] = p /\ o \in Offsets(store[k].msgs)
         /\ o \in CopiedOffsets'[p]
              <=> \E k \in DOMAIN store' : k[1] = p /\ o \in Offsets(store'[k].msgs)
<1>1. CopiedOffsets[p] = UNION {{store[k].msgs[i].off : i \in DOMAIN store[k].msgs} :
                                   k \in {l \in DOMAIN store : l[1] = p}}
  BY DEF CopiedOffsets
<1>2. CopiedOffsets'[p] = UNION {{store'[k].msgs[i].off : i \in DOMAIN store'[k].msgs} :
                                    k \in {l \in DOMAIN store' : l[1] = p}}
  BY DEF CopiedOffsets
<1>3. o \in CopiedOffsets[p]
        <=> \E k \in DOMAIN store : k[1] = p /\ o \in Offsets(store[k].msgs)
  BY <1>1 DEF Offsets
<1>4. o \in CopiedOffsets'[p]
        <=> \E k \in DOMAIN store' : k[1] = p /\ o \in Offsets(store'[k].msgs)
  BY <1>2 DEF Offsets
<1> QED
  BY <1>3, <1>4

(* A store under the free key of the run adds its messages to the copy of  *)
(* the run's partition.                                                    *)
LEMMA CopiedByStore ==
  ASSUME TypeInv, ChainInv, CopyInv, NEW r \in Runs, pc[r] \in {"put", "write"},
         NEW object, StoreObject(r, object), NEW p \in Partitions
  PROVE  CopiedOffsets'[p] =
           CopiedOffsets[p] \cup IF p = part[r] THEN Offsets(object.msgs) ELSE {}
<1> DEFINE key == SegmentKey(r)
<1>1. /\ DOMAIN store' = DOMAIN store \cup {key}
      /\ store'[key] = object
      /\ \A k \in DOMAIN store : k # key => store'[k] = store[k]
      /\ key \in DOMAIN store => store[key].state = "empty"
  BY StoreAtKey
<1>2. key[1] = part[r]
  BY DEF SegmentKey
<1>3. key \in DOMAIN store => Offsets(store[key].msgs) = {}
  BY <1>1 DEF CopyInv, UnreadableInv, Offsets
<1>4. ASSUME NEW o
      PROVE  o \in CopiedOffsets'[p]
               <=> \/ o \in CopiedOffsets[p]
                   \/ p = part[r] /\ o \in Offsets(object.msgs)
  <2> HIDE DEF key
  <2>1. \A k \in DOMAIN store' : k = key \/ (k \in DOMAIN store /\ store'[k] = store[k])
    BY <1>1
  <2>2. \A k \in DOMAIN store :
          o \in Offsets(store[k].msgs) => k \in DOMAIN store' /\ store'[k] = store[k]
    BY <1>1, <1>3
  <2> QED
    BY <1>1, <1>2, <2>1, <2>2, CopiedOf
<1> QED
  BY <1>4

(* Between two flushes the copy of the run's partition ends at LastDone.   *)
LEMMA CopiedBelow ==
  ASSUME TypeInv, SliceInv, ChainInv, CopyInv, NEW r \in Runs,
         pc[r] \in {"put", "write"}, part[r] \in Partitions
  PROVE  /\ \A c \in CopiedOffsets[part[r]] :
              c \in Nat /\ segmentNum[r] > 0 /\ c <= LastDone(r)
         /\ segmentNum[r] > 0 => LastDone(r) \in CopiedOffsets[part[r]]
<1> DEFINE p == part[r]
           n == segmentNum[r]
<1>1. KeysInv(r) /\ AboveInv(r) /\ InPartition(r) /\ p \in Nat /\ n \in Nat
  BY DEF ChainInv, RunInv, CopyInv, InPartition, TypeInv, RunTypeOK
<1>2. ASSUME NEW c \in CopiedOffsets[p]
      PROVE  c \in Nat /\ n > 0 /\ c <= LastDone(r)
  <2>1. PICK k \in DOMAIN store : k[1] = p /\ c \in Offsets(store[k].msgs)
    BY CopiedOf
  <2>2. store[k].state = "whole"
    BY <2>1 DEF CopyInv, UnreadableInv, Offsets
  <2>3. k[2] \in Nat /\ k[2] < n
    BY <1>1, <2>1, <2>2, KeyType DEF KeysInv
  <2>4. PICK i \in DOMAIN store[k].msgs : c = store[k].msgs[i].off
    BY <2>1 DEF Offsets
  <2>5. c \in Nat
    BY <2>2, <2>4, WholeSegment, MessageOf
  <2>6. LastOf(store[k].msgs).off \in Nat /\ c <= LastOf(store[k].msgs).off
    BY <2>1, <2>2, <2>4, WholeSegment, EndsOf
  <2>7. LastOf(store[k].msgs).off <= LastDone(r)
    BY <1>1, <2>1, <2>2, <2>3 DEF AboveInv
  <2>8. LastDone(r) \in Nat
    BY <1>1, <2>3, LastSegment
  <2> QED
    BY <1>1, <2>3, <2>5, <2>6, <2>7, <2>8
<1>3. ASSUME n > 0 PROVE LastDone(r) \in CopiedOffsets[p]
  <2> DEFINE last == <<p, n - 1>>
  <2>1. n - 1 \in Nat /\ n - 1 < n
    BY <1>1, <1>3
  <2>2. last \in DOMAIN store /\ store[last].state = "whole" /\ last[1] = p
    BY <1>1, <2>1 DEF KeysInv, ObjectAt
  <2>3. store[last].msgs \in Seq(Message) /\ store[last].msgs # <<>>
    BY <2>2, WholeSegment
  <2>4. Len(store[last].msgs) \in DOMAIN store[last].msgs
    BY <2>3
  <2>5. LastDone(r) \in Offsets(store[last].msgs)
    BY <2>4 DEF LastDone, ObjectAt, LastOf, Offsets
  <2> QED
    BY <2>2, <2>5, CopiedOf
<1> QED
  BY <1>2, <1>3

(* The batch is a chunk the copy may be extended with.                     *)
LEMMA BatchExtends ==
  ASSUME TypeInv, SliceInv, ChainInv, CopyInv, NEW r \in Runs,
         pc[r] \in {"put", "write"}, part[r] \in Partitions
  PROVE  /\ Offsets(batch[r]) # {}
         /\ Offsets(batch[r]) \cap CopiedOffsets[part[r]] = {}
         /\ Copy!ExtendsCopy(part[r], Offsets(batch[r]))
<1> DEFINE p == part[r]
           n == segmentNum[r]
           b == batch[r]
<1>1. /\ LinkInv(r) /\ InPartition(r) /\ BatchInv(r) /\ n \in Nat
      /\ b \in Seq(Message) /\ b # <<>> /\ IsSlice(b, p)
      /\ KafkaTypeOK
  BY BatchToFlush DEF ChainInv, RunInv, SliceInv, BatchInv, InPartition, TypeInv, RunTypeOK
<1>2. /\ b[1].off \in Nat /\ LastOf(b).off \in Nat /\ 1 \in DOMAIN b
      /\ Len(b) \in DOMAIN b
  BY <1>1, EndsOf
<1>3. \A i \in DOMAIN b : b[i].off \in Nat /\ b[1].off <= b[i].off
  <2>1. \A i \in DOMAIN b : b[i].off \in Nat
    BY <1>1, MessageOf
  <2>2. \A i \in DOMAIN b : i = 1 \/ 1 < i
    BY <1>1
  <2> QED
    BY <1>1, <1>2, <2>1, <2>2 DEF IsSlice
<1>4. \A c \in CopiedOffsets[p] : c \in Nat /\ n > 0 /\ c <= LastDone(r)
  BY CopiedBelow
<1>5. n > 0 => /\ LastDone(r) \in CopiedOffsets[p]
              /\ LastDone(r) \in Nat
              /\ LastDone(r) < b[1].off
              /\ \A o \in log[p] : ~(LastDone(r) < o /\ o < b[1].off)
  BY <1>1, CopiedBelow, LastSegment DEF LinkInv, Follows
<1>6. \A c \in CopiedOffsets[p] : c < b[1].off
  BY <1>2, <1>4, <1>5
<1>7. \A o \in Offsets(b) : o \in Nat /\ b[1].off <= o
  BY <1>3 DEF Offsets
<1>8. \A o \in Offsets(b) : \A c \in CopiedOffsets[p] : c < o
  BY <1>2, <1>4, <1>6, <1>7
<1>9. ASSUME NEW o \in log[p],
             \A c \in CopiedOffsets[p] : c < o,
             \E c \in Offsets(b) : o <= c,
             CopiedOffsets[p] = {} => \E c \in Offsets(b) : c <= o
      PROVE  o \in Offsets(b)
  <2>1. o \in Nat
    BY <1>1 DEF KafkaTypeOK
  <2>2. PICK j \in DOMAIN b : o <= b[j].off
    BY <1>9 DEF Offsets
  <2>3. b[1].off <= o
    <3>1. CASE n > 0
      BY <1>2, <1>5, <1>9, <2>1, <3>1
    <3>2. CASE ~(n > 0)
      <4>1. PICK c \in Offsets(b) : c <= o
        BY <1>4, <1>9, <3>2
      <4> QED
        BY <1>2, <1>7, <2>1, <4>1
    <3> QED
      BY <3>1, <3>2
  <2> QED
    BY <1>1, <1>2, <2>2, <2>3 DEF IsSlice, Offsets
<1>10. Copy!ExtendsCopy(p, Offsets(b))
  BY <1>8, <1>9 DEF Copy!ExtendsCopy, Copy!Above
<1>11. b[1].off \in Offsets(b)
  BY <1>2 DEF Offsets
<1> QED
  BY <1>2, <1>6, <1>7, <1>10, <1>11

(* An object that reads as the batch copies a chunk; any other is a        *)
(* stutter of the copy.                                                    *)
LEMMA StoreRefines ==
  ASSUME TypeInv, SliceInv, ChainInv, CopyInv, NEW r \in Runs,
         pc[r] \in {"put", "write"}, UNCHANGED log,
         NEW object \in {Whole(batch[r]), Broken("empty"), Broken("torn")},
         StoreObject(r, object)
  PROVE  [Copy!Next]_(Copy!vars)
<1> DEFINE p == part[r]
<1>1. p \in Partitions
  BY WorkerAssumption DEF TypeInv, RoomInv, InPartition, RunTypeOK, Partitions
<1>2. \A q \in Partitions :
        CopiedOffsets'[q] =
          CopiedOffsets[q] \cup IF q = p THEN Offsets(object.msgs) ELSE {}
  BY CopiedByStore
<1>3. CASE object = Whole(batch[r])
  <2>1. object.msgs = batch[r]
    BY <1>3 DEF Whole
  <2>2. CopiedOffsets'[p] = CopiedOffsets[p] \cup Offsets(batch[r])
    BY <1>1, <1>2, <2>1
  <2>3. \A q \in Partitions \ {p} : CopiedOffsets'[q] = CopiedOffsets[q]
    BY <1>2
  <2>4. /\ Offsets(batch[r]) # {}
        /\ Offsets(batch[r]) \cap CopiedOffsets[p] = {}
        /\ Copy!ExtendsCopy(p, Offsets(batch[r]))
    BY <1>1, BatchExtends
  <2>5. CopiedOffsets'[p] \ CopiedOffsets[p] = Offsets(batch[r])
    BY <2>2, <2>4
  <2>6. CopiedOffsets'[p] # CopiedOffsets[p] /\ CopiedOffsets[p] \subseteq CopiedOffsets'[p]
    BY <2>2, <2>4
  <2>7. Copy!CopyChunk(p)
    BY <2>3, <2>4, <2>5, <2>6 DEF Copy!CopyChunk
  <2> QED
    BY <1>1, <2>7 DEF Copy!Next
<1>4. CASE object # Whole(batch[r])
  <2>1. Offsets(object.msgs) = {}
    BY <1>4 DEF Broken, Offsets
  <2>2. \A q \in Partitions : CopiedOffsets'[q] = CopiedOffsets[q]
    BY <1>2, <2>1
  <2>3. CopiedOffsets' = CopiedOffsets
    BY <2>2 DEF CopiedOffsets
  <2> QED
    BY <2>3 DEF Copy!vars
<1> QED
  BY <1>3, <1>4

LEMMA RefinesInit == Init => Copy!Init
<1> SUFFICES ASSUME Init, NEW p \in Partitions PROVE CopiedOffsets[p] = {}
  BY DEF Copy!Init
<1>1. DOMAIN store = {}
  BY DEF Init
<1>2. \A o : o \notin CopiedOffsets[p]
  BY <1>1, CopiedOf
<1> QED
  BY <1>2

LEMMA RefinesStep ==
  ASSUME TypeInv, SliceInv, ChainInv, CopyInv, [Next]_vars
  PROVE  [Copy!Next]_(Copy!vars)
<1>1. ASSUME UNCHANGED store
      PROVE  [Copy!Next]_(Copy!vars)
  BY <1>1 DEF CopiedOffsets, Copy!Next, Copy!SourceChanges, Copy!vars
<1>2. CASE BrokerStep
  BY <1>1, <1>2 DEF BrokerStep, Produce, Retain, Compact, storeVars
<1>3. ASSUME NEW r \in Runs, WorkerStep(r)
      PROVE  [Copy!Next]_(Copy!vars)
  <2>1. CASE PutObject(r) \/ CreateFile(r) \/ WriteFile(r) \/ PutFails(r)
    BY <1>1, <2>1, PutStores, StoreRefines
  <2>2. CASE \/ Start(r) \/ Finish(r) \/ OpenPartition(r) \/ OpenFails(r)
             \/ PollMessage(r) \/ PollFails(r) \/ PollNil(r) \/ CtxDone(r)
             \/ SaveSegmentMetadata(r)
    BY <1>1, <2>2
    DEF Start, Finish, OpenPartition, OpenFails, PollMessage, PollFails,
        PollNil, CtxDone, SaveSegmentMetadata, storeVars, vars
  <2> QED
    BY <1>3, <2>1, <2>2 DEF WorkerStep, OwnStep, Poll
<1>4. ASSUME NEW r \in Runs, Cancel(r) \/ MainReturns(r) \/ Crash(r)
      PROVE  [Copy!Next]_(Copy!vars)
  BY <1>1, <1>4 DEF Cancel, MainReturns, Crash, ProcessEnds, storeVars
<1>5. CASE UNCHANGED vars
  BY <1>1, <1>5 DEF vars, storeVars
<1> QED
  BY <1>2, <1>3, <1>4, <1>5 DEF Next, Terminating

(* A backup that is run once implements PartitionCopy: every step of the   *)
(* worker, the broker and the faults is a change of the source, a chunk    *)
(* appended to the copy of one partition, or nothing.                      *)
THEOREM BackupIsACopy == Consumer = "port" /\ OneRun => (Spec => RefinesCopy)
<1> SUFFICES ASSUME Consumer = "port", OneRun PROVE Spec => RefinesCopy
  OBVIOUS
<1>1. TypeInv /\ SliceInv /\ [Next]_vars => SliceInv'
  BY SliceStep
<1>2. TypeInv /\ SliceInv /\ ChainInv /\ CopyInv /\ [Next]_vars => CopyInv'
  BY CopyStep
<1>3. TypeInv /\ SliceInv /\ ChainInv /\ CopyInv /\ [Next]_vars => [Copy!Next]_(Copy!vars)
  BY RefinesStep
<1> QED
  BY <1>1, <1>2, <1>3, SliceInit, CopyInit, RefinesInit, ChainInvariant, TypeInvariant, PTL
  DEF Spec, RefinesCopy, Copy!Spec

-----------------------------------------------------------------------------
(* The order of replay *)

(* An object stored under the key of the run comes after all segments of   *)
(* its partition: they end at LastDone, and its batch begins behind that.  *)
LEMMA AscendsStored ==
  ASSUME TypeInv, SliceInv, ChainInv, CopyInv, ReplayAscends, NEW r \in Runs,
         pc[r] \in {"put", "write"},
         NEW object \in {Whole(batch[r]), Broken("empty"), Broken("torn")},
         StoreObject(r, object)
  PROVE  ReplayAscends'
<1> DEFINE key == SegmentKey(r)
           p == part[r]
           n == segmentNum[r]
<1>1. /\ KeysInv(r) /\ LinkInv(r) /\ BatchInv(r) /\ AboveInv(r) /\ InPartition(r)
      /\ p \in Partitions /\ n \in Nat /\ batch[r] \in Seq(Message)
      /\ key[1] = p /\ key[2] = n
  BY WorkerAssumption
  DEF ChainInv, RunInv, SliceInv, CopyInv, InPartition, TypeInv, RoomInv, RunTypeOK,
      Partitions, SegmentKey
<1>2. /\ key \in DOMAIN store => store[key].state = "empty"
      /\ DOMAIN store' = DOMAIN store \cup {key}
      /\ store'[key] = object
      /\ \A k \in DOMAIN store : k # key => store'[k] = store[k]
      /\ \A k \in DOMAIN store : k[1] # p \/ k[2] <= n
  BY StoreAtKey
<1> SUFFICES ASSUME NEW k \in DOMAIN store', NEW l \in DOMAIN store',
                    k[1] = l[1], k[2] < l[2],
                    store'[k].state = "whole", store'[l].state = "whole"
             PROVE  LastOf(store'[k].msgs).off < store'[l].msgs[1].off
  BY DEF ReplayAscends, LastOf
<1>3. CASE k # key /\ l # key
  BY <1>2, <1>3 DEF ReplayAscends
<1>4. CASE k = key
  <2>1. l # key /\ l \in DOMAIN store /\ l[2] \in Nat
    BY <1>1, <1>2, <1>4, KeyType
  <2> QED
    BY <1>1, <1>2, <1>4, <2>1
<1>5. CASE k # key /\ l = key
  <2>1. k \in DOMAIN store /\ store'[k] = store[k] /\ k[1] = p /\ k[2] < n /\ k[2] \in Nat
    BY <1>1, <1>2, <1>5, KeyType
  <2>2. object.msgs = batch[r] /\ batch[r] # <<>>
    BY <1>1, <1>2, <1>5 DEF Whole, Broken, BatchInv
  <2>3. LastOf(store[k].msgs).off <= LastDone(r)
    BY <1>1, <2>1 DEF AboveInv
  <2>4. n > 0
    BY <1>1, <2>1
  <2>5. LastDone(r) < batch[r][1].off
    BY <1>1, <2>2, <2>4 DEF LinkInv, Follows
  <2>6. LastDone(r) \in Nat
    BY <1>1, <2>4, LastSegment
  <2>7. LastOf(store[k].msgs).off \in Nat
    BY <1>1, <2>1, WholeSegment, EndsOf
  <2>8. batch[r][1].off \in Nat
    BY <1>1, <2>2, EndsOf
  <2>9. LastOf(store[k].msgs).off < batch[r][1].off
    BY <2>3, <2>5, <2>6, <2>7, <2>8
  <2> QED
    BY <1>2, <1>5, <2>1, <2>2, <2>9
<1> QED
  BY <1>3, <1>4, <1>5

LEMMA AscendsStep ==
  ASSUME TypeInv, SliceInv, ChainInv, CopyInv, ReplayAscends, [Next]_vars
  PROVE  ReplayAscends'
<1>1. ASSUME UNCHANGED store PROVE ReplayAscends'
  BY <1>1 DEF ReplayAscends, LastOf
<1>2. CASE BrokerStep
  BY <1>1, <1>2 DEF BrokerStep, Produce, Retain, Compact, storeVars
<1>3. ASSUME NEW r \in Runs, WorkerStep(r)
      PROVE  ReplayAscends'
  <2>1. CASE PutObject(r) \/ CreateFile(r) \/ WriteFile(r) \/ PutFails(r)
    BY <1>1, <2>1, PutStores, AscendsStored
  <2>2. CASE \/ Start(r) \/ Finish(r) \/ OpenPartition(r) \/ OpenFails(r)
             \/ PollMessage(r) \/ PollFails(r) \/ PollNil(r) \/ CtxDone(r)
             \/ SaveSegmentMetadata(r)
    BY <1>1, <2>2
    DEF Start, Finish, OpenPartition, OpenFails, PollMessage, PollFails,
        PollNil, CtxDone, SaveSegmentMetadata, storeVars, vars
  <2> QED
    BY <1>3, <2>1, <2>2 DEF WorkerStep, OwnStep, Poll
<1>4. ASSUME NEW r \in Runs, Cancel(r) \/ MainReturns(r) \/ Crash(r)
      PROVE  ReplayAscends'
  BY <1>1, <1>4 DEF Cancel, MainReturns, Crash, ProcessEnds, storeVars
<1>5. CASE UNCHANGED vars
  BY <1>1, <1>5 DEF vars, storeVars
<1> QED
  BY <1>2, <1>3, <1>4, <1>5 DEF Next, Terminating

(* What restorePartition relies on when it takes the segments in the order *)
(* of their keys: any two of a partition, not only neighbours, are in the  *)
(* order of their offsets, through failed flushes, retention and crashes.  *)
THEOREM SegmentsAscend ==
  Consumer = "port" /\ OneRun => (Spec => []ReplayAscends)
<1> SUFFICES ASSUME Consumer = "port", OneRun PROVE Spec => []ReplayAscends
  OBVIOUS
<1>1. Init => ReplayAscends
  <2>1. Init => DOMAIN store = {}
    BY DEF Init
  <2> QED
    BY <2>1 DEF ReplayAscends
<1>2. TypeInv /\ SliceInv /\ [Next]_vars => SliceInv'
  BY SliceStep
<1>3. TypeInv /\ SliceInv /\ ChainInv /\ CopyInv /\ [Next]_vars => CopyInv'
  BY CopyStep
<1>4. TypeInv /\ SliceInv /\ ChainInv /\ CopyInv /\ ReplayAscends /\ [Next]_vars
        => ReplayAscends'
  BY AscendsStep
<1> QED
  BY <1>1, <1>2, <1>3, <1>4, SliceInit, CopyInit, ChainInvariant, PTL DEF Spec

-----------------------------------------------------------------------------
(* What the run says of itself *)

(* No put fails, be it by itself or because S3 sees a cancelled context.   *)
PutsSucceed == "put" \notin Faults /\ (AtomicPut => "cancel" \notin Faults)

(* Everything of the log from the low offset up to the consumer's position *)
(* is in the store or in the batch, and the last flush of a partition is   *)
(* entered with nothing left to read below the high offset.                *)
CoverInv(r) ==
  InPartition(r) =>
    LET p == part[r] IN
      /\ offsets[r].high <= logEnd[p]
      /\ pos[r][p] <= logEnd[p]
      /\ \A o \in log[p] :
           offsets[r].low <= o /\ o < pos[r][p] =>
             IsStored(p, o) \/ o \in Offsets(batch[r])
      /\ pc[r] # "poll" /\ why[r] = "eof" =>
           \A o \in log[p] : o < offsets[r].high => o < pos[r][p]

(* A claim is only about offsets the log has passed: later messages lie    *)
(* above it.                                                               *)
ClaimInv ==
  /\ \A p \in Partitions : logStart[p] <= logEnd[p]
  /\ "cancel" \notin Faults => \A r \in Runs : ~cancelled[r]
  /\ \A r \in Runs, p \in Partitions : claimed[r][p].high <= logEnd[p]
  /\ \A r \in Runs : CoverInv(r)
  /\ ClaimsAreStored

(* Where the run is in a log without holes: the batch is what lies right   *)
(* before the position, and the messages taken are all there were.         *)
ExactInv(r) ==
  InPartition(r) /\ NoHoles(part[r]) =>
    /\ total[r] = pos[r][part[r]] - offsets[r].low
    /\ \A i \in DOMAIN batch[r] :
         batch[r][i].off = pos[r][part[r]] - Len(batch[r]) + i - 1

(* Metadata is only there for whole segments the run has done.  Those of   *)
(* the partition it is in were flushed by the loop; of a partition it has  *)
(* left, all but the last one, which InteriorMetaMatches excepts by asking *)
(* for a successor.                                                        *)
MetaInv ==
  \A k \in DOMAIN segMeta :
    /\ k \in DOMAIN store
    /\ store[k].state = "whole"
    /\ \A r \in Runs : InPartition(r) =>
         \/ k[1] < part[r]
         \/ k[1] = part[r] /\ k[2] < segmentNum[r]
    /\ NoHoles(k[1]) =>
         \/ MetaMatches(k)
         \/ /\ \A r \in Runs : ~(InPartition(r) /\ k[1] = part[r])
            /\ <<k[1], k[2] + 1>> \notin DOMAIN store

ExactMetaInv == MetaInv /\ \A r \in Runs : ExactInv(r)

LEMMA StoredKept ==
  ASSUME TypeInv, ChainInv, CopyInv, [Next]_vars, NEW p, NEW o, IsStored(p, o)
  PROVE  IsStored(p, o)'
<1>1. PICK k \in DOMAIN store :
        k[1] = p /\ \E i \in DOMAIN store[k].msgs : store[k].msgs[i].off = o
  BY DEF IsStored
<1>2. store[k].state = "whole"
  BY <1>1 DEF CopyInv, UnreadableInv
<1>3. k \in DOMAIN store' /\ store'[k] = store[k]
  BY <1>2, KeptByStep DEF WholeKept
<1> QED
  BY <1>1, <1>3 DEF IsStored

(* What the broker may do to the log of a partition. *)
LEMMA LogGrows ==
  ASSUME TypeInv, SliceInv, BrokerStep, NEW p \in Partitions
  PROVE  /\ logEnd[p] \in Nat /\ logEnd'[p] \in Nat /\ logEnd[p] <= logEnd'[p]
         /\ \A o \in log'[p] : o \in Nat /\ (o \in log[p] \/ o = logEnd[p])
         /\ logStart[p] <= logEnd[p] => logStart'[p] <= logEnd'[p]
         /\ NoHoles(p)' => NoHoles(p)
<1> PICK q \in Partitions : Produce(q) \/ Retain(q) \/ Compact(q)
  BY DEF BrokerStep
<1>1. /\ logEnd[p] \in Nat /\ logStart[p] \in Nat /\ log[p] \subseteq Nat
      /\ \A o \in log[p] : o < logEnd[p]
  BY DEF TypeInv, KafkaTypeOK, SliceInv, LogInv
<1>2. CASE p # q
  BY <1>1, <1>2 DEF Produce, Retain, Compact, TypeInv, KafkaTypeOK, NoHoles
<1>3. CASE p = q /\ Produce(q)
  <2>1. logEnd'[p] = logEnd[p] + 1 /\ logStart' = logStart
    BY <1>3 DEF Produce, TypeInv, KafkaTypeOK
  <2>2. log'[p] = log[p] \/ log'[p] = log[p] \cup {logEnd[p]}
    BY <1>3 DEF Produce, TypeInv, KafkaTypeOK
  <2>3. ASSUME log'[p] = 0 .. logEnd'[p] - 1 PROVE log[p] = 0 .. logEnd[p] - 1
    <3>1. ASSUME NEW o \in log[p] PROVE o \in 0 .. logEnd[p] - 1
      BY <1>1, <3>1
    <3>2. ASSUME NEW o \in 0 .. logEnd[p] - 1 PROVE o \in log[p]
      <4>1. o \in log'[p] /\ o # logEnd[p]
        BY <1>1, <2>1, <2>3, <3>2
      <4> QED
        BY <2>2, <4>1
    <3> QED
      BY <3>1, <3>2
  <2> QED
    BY <1>1, <2>1, <2>2, <2>3 DEF NoHoles
<1>4. CASE p = q /\ (Retain(q) \/ Compact(q))
  <2>1. PICK o \in 0 .. logEnd[p] - 1 : log'[p] = log[p] \ {o}
    BY <1>1, <1>4 DEF Retain, Compact, TypeInv, KafkaTypeOK
  <2>2. logEnd' = logEnd /\ (logStart[p] <= logEnd[p] => logStart'[p] <= logEnd[p])
    BY <1>1, <1>4 DEF Retain, Compact, TypeInv, KafkaTypeOK
  <2> QED
    BY <1>1, <2>1, <2>2 DEF NoHoles
<1> QED
  BY <1>2, <1>3, <1>4

-----------------------------------------------------------------------------
(* Claims *)

LEMMA ClaimInit == Init => ClaimInv
<1> SUFFICES ASSUME Init PROVE ClaimInv
  OBVIOUS
<1>1. ASSUME NEW p \in Partitions
      PROVE  logStart[p] = 0 /\ logEnd[p] \in Nat
  BY WorkerAssumption DEF Init
<1>2. ASSUME NEW r \in Runs
      PROVE  /\ ~cancelled[r] /\ ~InPartition(r)
             /\ \A p \in Partitions : claimed[r][p].low = 0 /\ claimed[r][p].high = 0
  BY DEF Init, InPartition, NoClaim
<1>3. ASSUME NEW p \in Partitions, NEW o \in log[p] PROVE o \in Nat
  BY TypeInit, <1>3 DEF TypeInv, KafkaTypeOK
<1> QED
  BY <1>1, <1>2, <1>3 DEF ClaimInv, CoverInv, ClaimsAreStored

LEMMA ClaimBroker ==
  ASSUME TypeInv, SliceInv, ClaimInv, BrokerStep
  PROVE  ClaimInv'
<1>1. UNCHANGED <<store, pc, part, offsets, pos, batch, why, cancelled, claimed>>
  BY DEF BrokerStep, Produce, Retain, Compact, storeVars, runVars, batchVars
<1>2. RunTypeOK
  BY DEF TypeInv
<1>3. \A p \in Partitions : logStart'[p] <= logEnd'[p]
  BY LogGrows DEF ClaimInv
<1>4. ASSUME NEW r \in Runs, NEW p \in Partitions
      PROVE  claimed'[r][p].high <= logEnd'[p]
  <2>1. claimed[r][p].high \in Nat /\ claimed[r][p].high <= logEnd[p]
    BY <1>2 DEF ClaimInv, RunTypeOK, OffsetRange
  <2> QED
    BY <1>1, <2>1, LogGrows
<1>5. ASSUME NEW r \in Runs, NEW p \in Partitions, NEW o \in log'[p],
             claimed'[r][p].low <= o, o < claimed'[r][p].high
      PROVE  IsStored(p, o)'
  <2>1. claimed[r][p].high \in Nat /\ claimed[r][p].high <= logEnd[p]
    BY <1>2 DEF ClaimInv, RunTypeOK, OffsetRange
  <2>2. o \in log[p]
    BY <1>1, <1>5, <2>1, LogGrows
  <2>3. IsStored(p, o)
    BY <1>1, <1>5, <2>2 DEF ClaimInv, ClaimsAreStored
  <2> QED
    BY <1>1, <2>3 DEF IsStored
<1>6. ASSUME NEW r \in Runs PROVE CoverInv(r)'
  <2> DEFINE p == part[r]
  <2> SUFFICES ASSUME InPartition(r)
               PROVE  CoverInv(r)'
    BY <1>1 DEF CoverInv, InPartition
  <2>1. p \in Partitions
    BY <1>2, WorkerAssumption DEF TypeInv, RoomInv, RunTypeOK, Partitions
  <2>2. /\ offsets[r].high \in Nat /\ offsets[r].high <= logEnd[p]
        /\ pos[r][p] \in Nat /\ pos[r][p] <= logEnd[p]
    BY <1>2, <2>1 DEF ClaimInv, CoverInv, RunTypeOK, OffsetRange
  <2>3. /\ logEnd[p] \in Nat /\ logEnd'[p] \in Nat /\ logEnd[p] <= logEnd'[p]
        /\ \A o \in log'[p] : o \in Nat /\ (o \in log[p] \/ o = logEnd[p])
    BY <2>1, LogGrows
  <2>4. ASSUME NEW o \in log'[p], o < pos[r][p] \/ o < offsets[r].high
        PROVE  o \in log[p]
    BY <2>2, <2>3, <2>4
  <2>5. /\ \A o \in log[p] : offsets[r].low <= o /\ o < pos[r][p] =>
             IsStored(p, o) \/ o \in Offsets(batch[r])
        /\ pc[r] # "poll" /\ why[r] = "eof" =>
             \A o \in log[p] : o < offsets[r].high => o < pos[r][p]
    BY DEF ClaimInv, CoverInv
  <2>6. \A o : IsStored(p, o)' <=> IsStored(p, o)
    BY <1>1 DEF IsStored
  <2>7. offsets[r].high <= logEnd'[p] /\ pos[r][p] <= logEnd'[p]
    BY <2>2, <2>3
  <2>8. \A o \in log'[p] : offsets[r].low <= o /\ o < pos[r][p] =>
           IsStored(p, o)' \/ o \in Offsets(batch[r])
    BY <2>4, <2>5, <2>6
  <2>9. pc[r] # "poll" /\ why[r] = "eof" =>
           \A o \in log'[p] : o < offsets[r].high => o < pos[r][p]
    BY <2>4, <2>5
  <2> QED
    BY <1>1, <2>7, <2>8, <2>9 DEF CoverInv, Offsets
<1> QED
  BY <1>1, <1>3, <1>4, <1>5, <1>6 DEF ClaimInv, ClaimsAreStored

(* A step of the run has to show that it covers what it has read, and that *)
(* a new claim is about stored messages.                                   *)
LEMMA ClaimOfStep ==
  ASSUME OneRun, TypeInv, ChainInv, CopyInv, ClaimInv, [Next]_vars,
         NEW r \in Runs, UNCHANGED kafkaVars, CoverInv(r)',
         "cancel" \notin Faults => ~cancelled'[r],
         \A p \in Partitions :
           \/ claimed'[r][p] = claimed[r][p]
           \/ /\ claimed'[r][p].high <= logEnd[p]
              /\ \A o \in log[p] :
                   claimed'[r][p].low <= o /\ o < claimed'[r][p].high => IsStored(p, o)
  PROVE  ClaimInv'
<1>1. log' = log /\ logEnd' = logEnd /\ logStart' = logStart
  BY DEF kafkaVars
<1>2. \A q \in Runs : q = r
  BY DEF OneRun
<1>3. \A p \in Partitions : claimed'[r][p].high <= logEnd'[p]
  BY <1>1 DEF ClaimInv
<1>4. ASSUME NEW p \in Partitions, NEW o \in log'[p],
             claimed'[r][p].low <= o, o < claimed'[r][p].high
      PROVE  IsStored(p, o)'
  <2>1. IsStored(p, o)
    BY <1>1, <1>4 DEF ClaimInv, ClaimsAreStored
  <2> QED
    BY <2>1, StoredKept
<1> QED
  BY <1>1, <1>2, <1>3, <1>4 DEF ClaimInv, ClaimsAreStored

(* backupPartition returns nil: what it claims is in the store. *)
LEMMA ClaimOfReturn ==
  ASSUME RunTypeOK, ClaimInv, NEW r \in Runs, InPartition(r), ReturnNil(r),
         \A o \in log[part[r]] : o < offsets[r].high => o < pos[r][part[r]],
         \A o \in Offsets(batch[r]) : IsStored(part[r], o)
  PROVE  \A p \in Partitions :
           \/ claimed'[r][p] = claimed[r][p]
           \/ /\ claimed'[r][p].high <= logEnd[p]
              /\ \A o \in log[p] :
                   claimed'[r][p].low <= o /\ o < claimed'[r][p].high => IsStored(p, o)
<1>1. ASSUME NEW p \in Partitions, p # part[r] PROVE claimed'[r][p] = claimed[r][p]
  BY <1>1 DEF ReturnNil, RunTypeOK
<1>2. ASSUME part[r] \in Partitions PROVE claimed'[r][part[r]] = offsets[r]
  BY <1>2 DEF ReturnNil, RunTypeOK
<1>3. /\ offsets[r].high <= logEnd[part[r]]
      /\ \A o \in log[part[r]] :
           offsets[r].low <= o /\ o < offsets[r].high => IsStored(part[r], o)
  BY DEF ClaimInv, CoverInv
<1> QED
  BY <1>1, <1>2, <1>3

LEMMA ClaimOutside ==
  ASSUME OneRun, TypeInv, ChainInv, CopyInv, ClaimInv, [Next]_vars, NEW r \in Runs,
         \/ Start(r) \/ Finish(r) \/ OpenFails(r)
         \/ Cancel(r) \/ MainReturns(r) \/ Crash(r)
  PROVE  ClaimInv'
<1>1. RunTypeOK /\ UNCHANGED <<kafkaVars, storeVars, claimed>>
  BY DEF TypeInv, Start, Finish, OpenFails, Cancel, MainReturns, Crash, ProcessEnds
<1>2. log' = log /\ logEnd' = logEnd /\ store' = store
  BY <1>1 DEF kafkaVars, storeVars
<1>3. CASE Cancel(r)
  <2>1. UNCHANGED <<pc, part, offsets, pos, batch, why>> /\ "cancel" \in Faults
    BY <1>3 DEF Cancel, batchVars
  <2>2. CoverInv(r)'
    BY <1>2, <2>1 DEF ClaimInv, CoverInv, InPartition, IsStored, Offsets
  <2> QED
    BY <1>1, <2>1, <2>2, ClaimOfStep
<1>4. CASE ~Cancel(r)
  <2>1. cancelled' = cancelled
    BY <1>4 DEF Start, Finish, OpenFails, MainReturns, Crash, ProcessEnds
  <2>2. pc'[r] \in {"next", "finished", "exited", "crashed"}
    BY <1>1, <1>4 DEF Start, Finish, OpenFails, HasNextPartition, MainReturns, Crash,
                      ProcessEnds, RunTypeOK
  <2>3. CoverInv(r)'
    BY <2>2 DEF CoverInv, InPartition
  <2> QED
    BY <1>1, <2>1, <2>3, ClaimOfStep DEF ClaimInv
<1> QED
  BY <1>3, <1>4

LEMMA ClaimOpen ==
  ASSUME Consumer = "port", OneRun, TypeInv, ChainInv, CopyInv, ClaimInv, [Next]_vars,
         NEW r \in Runs, OpenPartition(r)
  PROVE  ClaimInv'
<1>1. /\ KafkaTypeOK /\ RunTypeOK /\ part[r] \in Partitions
      /\ UNCHANGED <<kafkaVars, part, cancelled, claimed, log, logEnd>>
  BY OpenFacts DEF kafkaVars
<1> DEFINE p == part[r]
<1>2. /\ pc'[r] = "poll"
      /\ offsets'[r] = [low |-> logStart[p], high |-> logEnd[p]]
      /\ pos'[r][p] = logStart[p]
  BY <1>1 DEF OpenPartition, Seek, RunTypeOK
<1>3. logStart[p] <= logEnd[p] /\ logEnd[p] \in Nat /\ logStart[p] \in Nat
  BY <1>1 DEF ClaimInv, KafkaTypeOK
<1>4. \A o \in log[p] : o \in Nat
  BY <1>1 DEF KafkaTypeOK
<1>5. CoverInv(r)'
  BY <1>1, <1>2, <1>3, <1>4 DEF CoverInv
<1> QED
  BY <1>1, <1>5, ClaimOfStep DEF ClaimInv

LEMMA ClaimPoll ==
  ASSUME Consumer = "port", OneRun, TypeInv, SliceInv, ChainInv, CopyInv, ClaimInv,
         [Next]_vars, NEW r \in Runs, PollMessage(r)
  PROVE  ClaimInv'
<1>1. /\ KafkaTypeOK /\ RunTypeOK /\ pc[r] = "poll" /\ InPartition(r)
      /\ UNCHANGED <<kafkaVars, log, logEnd, store, part, offsets, cancelled, claimed>>
  BY DEF TypeInv, PollMessage, InPartition, kafkaVars, storeVars
<1> DEFINE p == part[r]
<1>2. p \in Partitions
  BY <1>1, WorkerAssumption DEF TypeInv, RoomInv, RunTypeOK, Partitions
<1>3. PICK o \in log[p] : IsNext(o, p, pos[r][p]) /\ Take(r, p, o)
  BY DEF PollMessage, PolledPartitions
<1>4. /\ batch'[r] = Append(batch[r], [part |-> p, off |-> o])
      /\ pos'[r][p] = o + 1
      /\ batch[r] \in Seq(Message)
      /\ pc'[r] = "poll" \/ why'[r] = "loop"
  BY <1>1, <1>2, <1>3 DEF Take, RunTypeOK
<1>5. /\ o \in Nat /\ o < logEnd[p] /\ logEnd[p] \in Nat /\ pos[r][p] \in Nat
      /\ \A q \in log[p] : q \in Nat
  BY <1>1, <1>2 DEF KafkaTypeOK, SliceInv, LogInv, RunTypeOK
<1>6. Offsets(batch[r]) \cup {o} \subseteq Offsets(batch'[r])
  <2> DEFINE n == Len(batch[r])
             m == [part |-> p, off |-> o]
  <2>1. n \in Nat /\ DOMAIN batch[r] = 1 .. n
    BY <1>4
  <2>2. DOMAIN batch'[r] = 1 .. n + 1 /\ batch'[r][n + 1] = m
    BY <1>4, <2>1
  <2>3. \A i \in 1 .. n : batch'[r][i] = batch[r][i]
    BY <1>4, <2>1
  <2> HIDE DEF n
  <2>4. m.off = o
    OBVIOUS
  <2> HIDE DEF m
  <2> QED
    BY <2>1, <2>2, <2>3, <2>4 DEF Offsets
<1>7. ASSUME NEW q \in log[p], offsets[r].low <= q, q < o + 1
      PROVE  IsStored(p, q) \/ q \in Offsets(batch'[r])
  <2>1. CASE q < pos[r][p]
    BY <1>1, <1>6, <1>7, <2>1 DEF ClaimInv, CoverInv
  <2>2. CASE ~(q < pos[r][p])
    <3>1. q = o
      BY <1>3, <1>5, <1>7, <2>2 DEF IsNext
    <3> QED
      BY <1>6, <3>1
  <2> QED
    BY <2>1, <2>2
<1>8. o + 1 <= logEnd[p] /\ offsets[r].high <= logEnd[p]
  BY <1>1, <1>5 DEF ClaimInv, CoverInv
<1>9. \A q : IsStored(p, q)' <=> IsStored(p, q)
  BY <1>1 DEF IsStored
<1>10. CoverInv(r)'
  BY <1>1, <1>4, <1>7, <1>8, <1>9 DEF CoverInv, Offsets
<1> QED
  BY <1>1, <1>10, ClaimOfStep DEF ClaimInv

LEMMA ClaimPollEnds ==
  ASSUME Consumer = "port", OneRun, TypeInv, ChainInv, CopyInv, ClaimInv, [Next]_vars,
         NEW r \in Runs, PollNil(r) \/ CtxDone(r)
  PROVE  ClaimInv'
<1>1. /\ RunTypeOK /\ pc[r] = "poll" /\ InPartition(r)
      /\ UNCHANGED <<kafkaVars, log, logEnd, store, offsets, pos, cancelled>>
  BY DEF TypeInv, PollNil, CtxDone, InPartition, storeVars, kafkaVars
<1>2. PollNil(r) => \A o \in log[part[r]] : o < pos[r][part[r]]
  BY DEF PollNil, PollMayReturnNil
<1>3. CASE \/ FlushRest(r, "eof") /\ PollNil(r)
           \/ FlushRest(r, "cancel")
  <2>1. /\ UNCHANGED <<part, batch, claimed>>
        /\ \/ why'[r] = "eof" /\ PollNil(r)
           \/ why'[r] = "cancel"
    BY <1>1, <1>3 DEF FlushRest, RunTypeOK
  <2>2. CoverInv(r)'
    BY <1>1, <1>2, <2>1 DEF ClaimInv, CoverInv, IsStored, Offsets
  <2> QED
    BY <1>1, <2>1, <2>2, ClaimOfStep DEF ClaimInv
<1>4. CASE Return(r)
  <2>1. CoverInv(r)'
    BY <1>1, <1>4 DEF Return, CoverInv, InPartition, RunTypeOK
  <2>2. CASE claimed' = claimed
    BY <1>1, <2>1, <2>2, ClaimOfStep DEF ClaimInv
  <2>3. CASE PollNil(r) /\ batch[r] = <<>> /\ ReturnNil(r)
    <3>1. Offsets(batch[r]) = {}
      BY <2>3 DEF Offsets
    <3> QED
      BY <1>1, <1>2, <2>1, <2>3, <3>1, ClaimOfReturn, ClaimOfStep DEF ClaimInv
  <2> QED
    BY <1>4, <2>2, <2>3
    DEF PollNil, CtxDone, FlushRest, ReturnNil, ReturnError
<1> QED
  BY <1>3, <1>4 DEF PollNil, CtxDone, ReturnNil, ReturnError

LEMMA ClaimPut ==
  ASSUME OneRun, TypeInv, ChainInv, CopyInv, ClaimInv, [Next]_vars,
         NEW r \in Runs, PutObject(r) \/ CreateFile(r) \/ WriteFile(r)
  PROVE  ClaimInv'
<1>1. /\ pc[r] \in {"put", "write"} /\ InPartition(r)
      /\ UNCHANGED <<kafkaVars, log, logEnd, part, offsets, pos, batch, why, cancelled,
                     claimed>>
  BY DEF PutObject, CreateFile, WriteFile, PutGoesTo, InPartition, batchVars, kafkaVars
<1>2. ASSUME NEW o, IsStored(part[r], o) PROVE IsStored(part[r], o)'
  <2>1. PICK p : p = part[r]
    OBVIOUS
  <2>2. IsStored(p, o)'
    BY <1>2, <2>1, StoredKept
  <2> QED
    BY <1>1, <2>1, <2>2
<1>3. CoverInv(r)'
  BY <1>1, <1>2 DEF ClaimInv, CoverInv, Offsets
<1> QED
  BY <1>1, <1>3, ClaimOfStep DEF ClaimInv

LEMMA ClaimMeta ==
  ASSUME OneRun, TypeInv, ChainInv, CopyInv, ClaimInv, [Next]_vars,
         NEW r \in Runs, SaveSegmentMetadata(r)
  PROVE  ClaimInv'
<1>1. /\ RunTypeOK /\ pc[r] = "meta" /\ InPartition(r) /\ KeysInv(r)
      /\ UNCHANGED <<kafkaVars, log, logEnd, store, offsets, pos, cancelled>>
  BY DEF TypeInv, SaveSegmentMetadata, InPartition, ChainInv, RunInv, kafkaVars
<1>2. ASSUME NEW o \in Offsets(batch[r]) PROVE IsStored(part[r], o)
  <2>1. /\ SegmentKey(r) \in DOMAIN store /\ SegmentKey(r)[1] = part[r]
        /\ store[SegmentKey(r)].msgs = batch[r]
    BY <1>1 DEF KeysInv, Whole, SegmentKey
  <2> QED
    BY <1>2, <2>1 DEF IsStored, Offsets
<1>3. CASE why[r] = "loop" /\ UNCHANGED <<part, claimed>> /\ pc'[r] = "poll"
  <2>1. \A o : IsStored(part[r], o)' <=> IsStored(part[r], o)
    BY <1>1, <1>3 DEF IsStored
  <2>2. CoverInv(r)'
    BY <1>1, <1>2, <1>3, <2>1 DEF ClaimInv, CoverInv
  <2> QED
    BY <1>1, <1>3, <2>2, ClaimOfStep DEF ClaimInv
<1>4. CASE Return(r)
  <2>1. CoverInv(r)'
    BY <1>1, <1>4 DEF Return, CoverInv, InPartition, RunTypeOK
  <2>2. CASE claimed' = claimed
    BY <1>1, <2>1, <2>2, ClaimOfStep DEF ClaimInv
  <2>3. CASE why[r] = "eof" /\ ReturnNil(r)
    <3>1. \A o \in log[part[r]] : o < offsets[r].high => o < pos[r][part[r]]
      BY <1>1, <2>3 DEF ClaimInv, CoverInv
    <3> QED
      BY <1>1, <1>2, <2>1, <2>3, <3>1, ClaimOfReturn, ClaimOfStep DEF ClaimInv
  <2> QED
    BY <1>4, <2>2, <2>3 DEF SaveSegmentMetadata, FlushDone, ReturnError
<1>5. FlushDone(r)
  BY DEF SaveSegmentMetadata
<1>6. why[r] = "loop" /\ pc' = [pc EXCEPT ![r] = "poll"] => pc'[r] = "poll"
  BY <1>1 DEF RunTypeOK
<1> QED
  BY <1>3, <1>4, <1>5, <1>6 DEF FlushDone, ReturnNil, ReturnError

LEMMA ClaimUnchanged == ClaimInv /\ UNCHANGED vars => ClaimInv'
BY DEF ClaimInv, ClaimsAreStored, CoverInv, InPartition, IsStored, Offsets, vars,
       kafkaVars, storeVars, runVars, batchVars

LEMMA ClaimStep ==
  ASSUME Consumer = "port", OneRun, PutsSucceed,
         TypeInv, SliceInv, ChainInv, CopyInv, ClaimInv, [Next]_vars
  PROVE  ClaimInv'
<1>1. CASE BrokerStep
  BY <1>1, ClaimBroker
<1>2. ASSUME NEW r \in Runs, WorkerStep(r)
      PROVE  ClaimInv'
  <2>1. CASE Start(r) \/ Finish(r) \/ OpenFails(r)
    BY <2>1, ClaimOutside
  <2>2. CASE OpenPartition(r)
    BY <2>2, ClaimOpen
  <2>3. CASE PollMessage(r)
    BY <2>3, ClaimPoll
  <2>4. CASE PollNil(r) \/ CtxDone(r)
    BY <2>4, ClaimPollEnds
  <2>5. CASE PutObject(r) \/ CreateFile(r) \/ WriteFile(r)
    BY <2>5, ClaimPut
  <2>6. ~PutFails(r)
    BY DEF PutFails, PutsSucceed, ClaimInv
  <2>7. CASE SaveSegmentMetadata(r)
    BY <2>7, ClaimMeta
  <2>8. CASE PollFails(r)
    BY <2>8, ClaimUnchanged DEF PollFails
  <2> QED
    BY <1>2, <2>1, <2>2, <2>3, <2>4, <2>5, <2>6, <2>7, <2>8 DEF WorkerStep, OwnStep, Poll
<1>3. ASSUME NEW r \in Runs, Cancel(r) \/ MainReturns(r) \/ Crash(r)
      PROVE  ClaimInv'
  BY <1>3, ClaimOutside
<1>4. CASE UNCHANGED vars
  BY <1>4, ClaimUnchanged
<1> QED
  BY <1>1, <1>2, <1>3, <1>4 DEF Next, Terminating

(* What backupPartition returns nil for is in the store, whatever the      *)
(* broker does meanwhile and whatever else fails: all that was in the      *)
(* partition when its offsets were read and has not been deleted since.    *)
(* PutsSucceed is needed, as the run worker_put_error shows: the error of  *)
(* the last flush is dropped.                                              *)
THEOREM ClaimsAreTrue ==
  Consumer = "port" /\ OneRun /\ PutsSucceed => (Spec => []ClaimsAreStored)
<1> SUFFICES ASSUME Consumer = "port", OneRun, PutsSucceed
             PROVE  Spec => []ClaimsAreStored
  OBVIOUS
<1>1. ClaimInv => ClaimsAreStored
  BY DEF ClaimInv
<1>2. TypeInv /\ SliceInv /\ [Next]_vars => SliceInv'
  BY SliceStep
<1>3. TypeInv /\ SliceInv /\ ChainInv /\ CopyInv /\ [Next]_vars => CopyInv'
  BY CopyStep
<1>4. TypeInv /\ SliceInv /\ ChainInv /\ CopyInv /\ ClaimInv /\ [Next]_vars => ClaimInv'
  BY ClaimStep
<1> QED
  BY <1>1, <1>2, <1>3, <1>4, SliceInit, CopyInit, ClaimInit, ChainInvariant, PTL DEF Spec

-----------------------------------------------------------------------------
(* Segment metadata *)

LEMMA MetaInit == Init => ExactMetaInv
<1> SUFFICES ASSUME Init PROVE ExactMetaInv
  OBVIOUS
<1>1. DOMAIN segMeta = {}
  BY DEF Init
<1>2. ASSUME NEW r \in Runs PROVE pc[r] = "idle"
  BY DEF Init
<1> QED
  BY <1>1, <1>2 DEF ExactMetaInv, MetaInv, ExactInv, InPartition

LEMMA HolesStay ==
  ASSUME TypeInv, SliceInv, BrokerStep \/ UNCHANGED <<log, logEnd>>,
         NEW p \in Partitions, NoHoles(p)'
  PROVE  NoHoles(p)
BY LogGrows DEF NoHoles

LEMMA SegmentsOfLog ==
  ASSUME TypeInv, MetaInv, NEW k \in DOMAIN segMeta
  PROVE  k[1] \in Partitions /\ k[2] \in Nat /\ k = <<k[1], k[2]>>
BY DEF TypeInv, StoreTypeOK, Key

(* A step that leaves what is stored and how far the run has come alone.   *)
LEMMA MetaKept ==
  ASSUME TypeInv, MetaInv, UNCHANGED <<store, segMeta>>,
         \A p \in Partitions : NoHoles(p)' => NoHoles(p),
         \A r \in Runs : InPartition(r)' =>
           InPartition(r) /\ part'[r] = part[r] /\ segmentNum'[r] = segmentNum[r]
  PROVE  MetaInv'
<1> SUFFICES ASSUME NEW k \in DOMAIN segMeta
             PROVE  /\ k \in DOMAIN store
                    /\ store[k].state = "whole"
                    /\ \A r \in Runs : InPartition(r)' =>
                         \/ k[1] < part'[r]
                         \/ k[1] = part'[r] /\ k[2] < segmentNum'[r]
                    /\ NoHoles(k[1])' =>
                         \/ MetaMatches(k)
                         \/ /\ \A r \in Runs : ~(InPartition(r)' /\ k[1] = part'[r])
                            /\ <<k[1], k[2] + 1>> \notin DOMAIN store
  BY DEF MetaInv, MetaMatches, LastOf
<1>1. k[1] \in Partitions
  BY SegmentsOfLog
<1> QED
  BY <1>1 DEF MetaInv

LEMMA ExactKept ==
  ASSUME NEW r \in Runs, ExactInv(r), NoHoles(part[r])' => NoHoles(part[r]),
         InPartition(r)' => /\ InPartition(r)
                            /\ UNCHANGED <<part, offsets, pos, batch, total>>
  PROVE  ExactInv(r)'
BY DEF ExactInv

LEMMA MetaOutside ==
  ASSUME OneRun, TypeInv, SliceInv, ExactMetaInv, NEW r \in Runs,
         \/ Start(r) \/ Finish(r) \/ OpenFails(r)
         \/ Cancel(r) \/ MainReturns(r) \/ Crash(r)
         \/ PollNil(r) \/ CtxDone(r)
  PROVE  ExactMetaInv'
<1>1. /\ RunTypeOK
      /\ UNCHANGED <<log, logEnd, store, segMeta>>
  BY DEF TypeInv, Start, Finish, OpenFails, Cancel, MainReturns, Crash, ProcessEnds,
         PollNil, CtxDone, kafkaVars, storeVars
<1>2. InPartition(r)' =>
        InPartition(r) /\ UNCHANGED <<part, offsets, pos, batch, total, segmentNum>>
  <2>1. CASE Cancel(r)
    BY <2>1 DEF Cancel, InPartition, batchVars
  <2>2. CASE Start(r) \/ Finish(r) \/ OpenFails(r) \/ MainReturns(r) \/ Crash(r)
    BY <1>1, <2>2 DEF Start, Finish, OpenFails, HasNextPartition, MainReturns, Crash,
                      ProcessEnds, RunTypeOK, InPartition
  <2>3. CASE (PollNil(r) \/ CtxDone(r)) /\ Return(r)
    BY <1>1, <2>3 DEF Return, RunTypeOK, InPartition
  <2>4. CASE (PollNil(r) \/ CtxDone(r)) /\ \E reason \in Reason : FlushRest(r, reason)
    BY <2>4 DEF PollNil, CtxDone, FlushRest, InPartition
  <2> QED
    BY <2>1, <2>2, <2>3, <2>4 DEF PollNil, CtxDone, ReturnNil, ReturnError, Reason
<1>3. \A p : NoHoles(p)' => NoHoles(p)
  BY <1>1 DEF NoHoles
<1>4. MetaInv'
  BY <1>1, <1>2, <1>3, MetaKept DEF ExactMetaInv, OneRun
<1>5. NoHoles(part[r])' /\ InPartition(r)' => NoHoles(part[r])
  BY <1>1, <1>2 DEF NoHoles
<1>6. ExactInv(r)'
  BY <1>2, <1>5 DEF ExactMetaInv, ExactInv
<1> QED
  BY <1>4, <1>6 DEF ExactMetaInv, OneRun

LEMMA MetaBroker ==
  ASSUME TypeInv, SliceInv, ExactMetaInv, BrokerStep
  PROVE  ExactMetaInv'
<1>1. UNCHANGED <<store, segMeta, pc, part, offsets, pos, batch, segmentNum, total>>
  BY DEF BrokerStep, Produce, Retain, Compact, storeVars, runVars, batchVars
<1>2. MetaInv'
  BY <1>1, HolesStay, MetaKept DEF ExactMetaInv, InPartition
<1>3. ASSUME NEW r \in Runs PROVE ExactInv(r)'
  <2> SUFFICES ASSUME InPartition(r) PROVE ExactInv(r)'
    BY <1>1 DEF ExactInv, InPartition
  <2>1. part[r] \in Partitions
    BY WorkerAssumption DEF TypeInv, RoomInv, RunTypeOK, Partitions
  <2>2. NoHoles(part[r])' => NoHoles(part[r])
    <3>1. PICK p \in Partitions : p = part[r]
      BY <2>1
    <3> QED
      BY <1>1, <3>1, HolesStay DEF NoHoles
  <2> QED
    BY <1>1, <2>2 DEF ExactMetaInv, ExactInv
<1> QED
  BY <1>2, <1>3 DEF ExactMetaInv

(* A partition is opened: no key of it is in use yet. *)
LEMMA MetaOpen ==
  ASSUME Consumer = "port", OneRun, TypeInv, ChainInv, ExactMetaInv,
         NEW r \in Runs, OpenPartition(r)
  PROVE  ExactMetaInv'
<1>1. /\ RunTypeOK /\ KafkaTypeOK /\ part[r] \in Partitions /\ pc[r] = "next"
      /\ UNCHANGED <<store, segMeta, part, log, logEnd>>
  BY OpenFacts DEF storeVars, kafkaVars
<1> DEFINE p == part[r]
<1>2. \A k \in DOMAIN store : k[1] \in Nat /\ k[1] < p
  BY <1>1, KeyType DEF ChainInv, RunInv, KeysInv
<1>3. ASSUME NEW k \in DOMAIN segMeta
      PROVE  /\ k \in DOMAIN store
             /\ store[k].state = "whole"
             /\ k[1] \in Nat /\ k[1] < p
             /\ NoHoles(k[1]) => MetaMatches(k) \/ <<k[1], k[2] + 1>> \notin DOMAIN store
  BY <1>2 DEF ExactMetaInv, MetaInv
<1>4. MetaInv'
  <2>1. p \in Nat
    BY <1>1 DEF RunTypeOK
  <2> HIDE DEF p
  <2>2. ASSUME NEW k \in DOMAIN segMeta PROVE k[1] # p
    <3>1. k[1] \in Nat /\ k[1] < p
      BY <1>3
    <3> QED
      BY <2>1, <3>1
  <2>3. \A q \in Runs : part'[q] = p
    BY <1>1 DEF OneRun, p
  <2> QED
    BY <1>1, <1>3, <2>2, <2>3 DEF MetaInv, MetaMatches, LastOf, NoHoles
<1>5. /\ total'[r] = 0 /\ batch'[r] = <<>>
      /\ offsets'[r].low = logStart[p] /\ pos'[r][p] = logStart[p] /\ logStart[p] \in Nat
  BY <1>1 DEF OpenPartition, Seek, RunTypeOK, KafkaTypeOK
<1>6. ExactInv(r)'
  BY <1>1, <1>5 DEF ExactInv
<1> QED
  BY <1>4, <1>6 DEF ExactMetaInv, OneRun

(* In a log without holes Poll returns the very message at the position.   *)
LEMMA MetaPoll ==
  ASSUME Consumer = "port", OneRun, TypeInv, SliceInv, ExactMetaInv,
         NEW r \in Runs, PollMessage(r)
  PROVE  ExactMetaInv'
<1>1. /\ KafkaTypeOK /\ RunTypeOK /\ pc[r] = "poll" /\ InPartition(r)
      /\ UNCHANGED <<log, logEnd, store, segMeta, part, offsets, segmentNum>>
  BY DEF TypeInv, PollMessage, InPartition, storeVars, kafkaVars
<1> DEFINE p == part[r]
           n == Len(batch[r])
<1>2. p \in Partitions
  BY <1>1, WorkerAssumption DEF TypeInv, RoomInv, RunTypeOK, Partitions
<1>3. \A q : NoHoles(q)' <=> NoHoles(q)
  BY <1>1 DEF NoHoles
<1>4. MetaInv'
  BY <1>1, <1>3, MetaKept DEF ExactMetaInv, OneRun
<1>5. PICK o \in log[p] : IsNext(o, p, pos[r][p]) /\ Take(r, p, o)
  BY DEF PollMessage, PolledPartitions
<1>6. /\ batch'[r] = Append(batch[r], [part |-> p, off |-> o])
      /\ pos'[r][p] = o + 1
      /\ total'[r] = total[r] + 1
      /\ batch[r] \in Seq(Message)
      /\ pos[r][p] \in Nat /\ total[r] \in Nat /\ offsets[r].low \in Nat
  BY <1>1, <1>2, <1>5 DEF Take, RunTypeOK, OffsetRange
<1>7. ExactInv(r)'
  <2> SUFFICES ASSUME NoHoles(p) PROVE ExactInv(r)'
    BY <1>1, <1>3 DEF ExactInv
  <2>1. /\ total[r] = pos[r][p] - offsets[r].low
        /\ \A i \in DOMAIN batch[r] : batch[r][i].off = pos[r][p] - n + i - 1
    BY <1>1 DEF ExactMetaInv, ExactInv
  <2>2. o = pos[r][p]
    <3>1. o \in Nat /\ o >= pos[r][p] /\ o <= logEnd[p] - 1 /\ logEnd[p] \in Nat
      BY <1>1, <1>2, <1>5 DEF IsNext, NoHoles, KafkaTypeOK
    <3>2. pos[r][p] \in log[p]
      BY <1>6, <3>1 DEF NoHoles
    <3> QED
      BY <1>5, <1>6, <3>1, <3>2 DEF IsNext
  <2>3. /\ n \in Nat /\ DOMAIN batch[r] = 1 .. n
        /\ Len(batch'[r]) = n + 1 /\ DOMAIN batch'[r] = 1 .. n + 1
        /\ batch'[r][n + 1] = [part |-> p, off |-> o]
        /\ \A i \in 1 .. n : batch'[r][i] = batch[r][i]
    BY <1>6
  <2>4. batch'[r][n + 1].off = o
    BY <2>3
  <2> HIDE DEF n
  <2>5. ASSUME NEW i \in 1 .. n + 1
        PROVE  batch'[r][i].off = pos'[r][p] - (n + 1) + i - 1
    <3> DEFINE from == pos[r][p]
    <3>1. pos'[r][p] = from + 1 /\ from \in Nat
      BY <1>6, <2>2
    <3>2. CASE i \in 1 .. n
      <4>1. batch'[r][i].off = from - n + i - 1
        BY <2>1, <2>3, <3>2
      <4> HIDE DEF from
      <4> QED
        BY <2>3, <3>1, <4>1
    <3>3. CASE i = n + 1
      <4>1. batch'[r][i].off = from
        BY <2>2, <2>4, <3>3
      <4> HIDE DEF from
      <4>2. (from + 1) - (n + 1) + i - 1 = from
        BY <2>3, <3>1, <3>3
      <4>3. pos'[r][p] - (n + 1) + i - 1 = (from + 1) - (n + 1) + i - 1
        BY <3>1
      <4> QED
        BY <4>1, <4>2, <4>3
    <3> QED
      BY <2>3, <3>2, <3>3
  <2>6. total'[r] = pos'[r][p] - offsets[r].low
    BY <1>6, <2>1, <2>2
  <2> QED
    BY <1>1, <2>3, <2>5, <2>6 DEF ExactInv
<1> QED
  BY <1>4, <1>7 DEF ExactMetaInv, OneRun

(* An object stored under the key of the run only gives a successor to the *)
(* segment before it, which the loop has flushed.                          *)
LEMMA MetaPut ==
  ASSUME OneRun, TypeInv, SliceInv, ChainInv, ExactMetaInv, [Next]_vars, NEW r \in Runs,
         PutObject(r) \/ CreateFile(r) \/ WriteFile(r) \/ PutFails(r)
  PROVE  ExactMetaInv'
<1>1. /\ RunTypeOK /\ pc[r] \in {"put", "write"} /\ InPartition(r)
      /\ UNCHANGED <<log, logEnd, segMeta>>
  BY DEF TypeInv, PutObject, CreateFile, WriteFile, PutFails, PutGoesTo, InPartition,
         kafkaVars
<1>2. InPartition(r)' =>
        InPartition(r) /\ UNCHANGED <<part, offsets, pos, batch, total, segmentNum>>
  <2>1. CASE Return(r)
    BY <1>1, <2>1 DEF Return, RunTypeOK, InPartition
  <2>2. CASE PutObject(r) \/ CreateFile(r) \/ WriteFile(r)
    BY <1>1, <2>2 DEF PutObject, CreateFile, WriteFile, PutGoesTo, batchVars
  <2> QED
    BY <2>1, <2>2 DEF PutFails, FlushFailed, ReturnNil, ReturnError
<1>3. \A p : NoHoles(p)' <=> NoHoles(p)
  BY <1>1 DEF NoHoles
<1>4. \/ store' = store
      \/ /\ DOMAIN store' = DOMAIN store \cup {SegmentKey(r)}
         /\ part[r] \in Nat /\ segmentNum[r] \in Nat
  <2>1. \/ store' = store
        \/ \E object : StoreObject(r, object)
    BY DEF PutObject, CreateFile, WriteFile, PutFails
  <2> QED
    BY <1>1, <2>1, StoreAtKey DEF RunTypeOK
<1>5. MetaInv'
  <2> SUFFICES ASSUME NEW k \in DOMAIN segMeta
               PROVE  /\ k \in DOMAIN store'
                      /\ store'[k].state = "whole"
                      /\ InPartition(r)' =>
                           \/ k[1] < part'[r]
                           \/ k[1] = part'[r] /\ k[2] < segmentNum'[r]
                      /\ NoHoles(k[1]) =>
                           \/ MetaMatches(k)'
                           \/ /\ ~(InPartition(r)' /\ k[1] = part'[r])
                              /\ <<k[1], k[2] + 1>> \notin DOMAIN store'
    BY <1>1, <1>3 DEF MetaInv, OneRun
  <2>1. /\ k \in DOMAIN store /\ store[k].state = "whole"
        /\ \/ k[1] < part[r]
           \/ k[1] = part[r] /\ k[2] < segmentNum[r]
        /\ NoHoles(k[1]) =>
             \/ MetaMatches(k)
             \/ k[1] # part[r] /\ <<k[1], k[2] + 1>> \notin DOMAIN store
    BY <1>1 DEF ExactMetaInv, MetaInv
  <2>2. k \in DOMAIN store' /\ store'[k] = store[k]
    BY <2>1, KeptByStep DEF WholeKept
  <2>3. MetaMatches(k) => MetaMatches(k)'
    BY <1>1, <2>2 DEF MetaMatches, LastOf
  <2>4. k[1] # part[r] /\ <<k[1], k[2] + 1>> \notin DOMAIN store
          => <<k[1], k[2] + 1>> \notin DOMAIN store'
    BY <1>4 DEF SegmentKey
  <2> QED
    BY <1>2, <2>1, <2>2, <2>3, <2>4
<1>6. ExactInv(r)'
  BY <1>2, <1>3 DEF ExactMetaInv, ExactInv
<1> QED
  BY <1>5, <1>6 DEF ExactMetaInv, OneRun

(* The metadata the loop saves is right, that of the last flush has no     *)
(* successor.                                                              *)
LEMMA MetaSave ==
  ASSUME OneRun, TypeInv, SliceInv, ChainInv, ExactMetaInv, NEW r \in Runs,
         SaveSegmentMetadata(r)
  PROVE  ExactMetaInv'
<1>1. /\ RunTypeOK /\ pc[r] = "meta" /\ InPartition(r) /\ KeysInv(r) /\ BatchInv(r)
      /\ UNCHANGED <<log, logEnd, store, offsets, pos, total>>
  BY DEF TypeInv, SaveSegmentMetadata, InPartition, ChainInv, RunInv, SliceInv, kafkaVars
<1> DEFINE p == part[r]
           n == segmentNum[r]
           key == SegmentKey(r)
           len == Len(batch[r])
<1>2. p \in Nat /\ n \in Nat /\ key = <<p, n>> /\ key[1] = p /\ key[2] = n
  BY <1>1 DEF RunTypeOK, SegmentKey
<1>3. /\ key \in DOMAIN store /\ store[key].state = "whole" /\ store[key].msgs = batch[r]
      /\ batch[r] # <<>> /\ batch[r] \in Seq(Message)
  BY <1>1 DEF KeysInv, Whole, BatchInv, RunTypeOK
<1>4. \A q : NoHoles(q)' <=> NoHoles(q)
  BY <1>1 DEF NoHoles
<1>5. <<p, n + 1>> \notin DOMAIN store
  <2>1. ASSUME <<p, n + 1>> \in DOMAIN store PROVE FALSE
    <3> DEFINE k == <<p, n + 1>>
    <3>1. k[1] < p \/ (k[1] = p /\ k[2] < n) \/ k = key
      BY <1>1, <2>1 DEF KeysInv
    <3> QED
      BY <1>2, <3>1
  <2> QED
    BY <2>1
<1>6. key \notin DOMAIN segMeta
  <2>1. ASSUME NEW k \in DOMAIN segMeta PROVE k[1] < p \/ (k[1] = p /\ k[2] < n)
    BY <1>1 DEF ExactMetaInv, MetaInv
  <2> HIDE DEF key, p, n
  <2> QED
    BY <1>2, <2>1
<1>7. ASSUME why[r] = "loop", NoHoles(p), segMeta'[key] = SegmentOffsets(r)
      PROVE  segMeta'[key] = [low |-> store'[key].msgs[1].off,
                              high |-> LastOf(store'[key].msgs).off]
  <2>1. /\ total[r] = pos[r][p] - offsets[r].low
        /\ \A i \in DOMAIN batch[r] : batch[r][i].off = pos[r][p] - len + i - 1
    BY <1>1, <1>7 DEF ExactMetaInv, ExactInv
  <2>2. len \in Nat /\ len > 0 /\ 1 \in DOMAIN batch[r] /\ len \in DOMAIN batch[r]
    BY <1>3
  <2>3. p \in Partitions
    BY <1>1, WorkerAssumption DEF TypeInv, RoomInv, RunTypeOK, Partitions
  <2>4. pos[r][p] \in Nat /\ offsets[r].low \in Nat
    BY <1>1, <2>3 DEF RunTypeOK, OffsetRange
  <2>5. StartOffset(r) = offsets[r].low + total[r] - len
    BY <1>7 DEF StartOffset
  <2> HIDE DEF len
  <2>6. batch[r][1].off = StartOffset(r) /\ batch[r][len].off = StartOffset(r) + len - 1
    BY <2>1, <2>2, <2>4, <2>5
  <2>7. segMeta'[key] = [low |-> batch[r][1].off, high |-> LastOf(batch[r]).off]
    BY <1>7, <2>6 DEF SegmentOffsets, LastOf, len
  <2>8. store'[key].msgs = batch[r]
    BY <1>1, <1>3
  <2> QED
    BY <2>7, <2>8
<1>8. \/ /\ DOMAIN segMeta' = DOMAIN segMeta \cup {key}
         /\ segMeta'[key] = SegmentOffsets(r)
         /\ \A k \in DOMAIN segMeta : segMeta'[k] = segMeta[k]
      \/ segMeta' = segMeta
  BY <1>6 DEF SaveSegmentMetadata, Write
<1>9. \/ /\ why[r] = "loop" /\ InPartition(r)' /\ part' = part
         /\ segmentNum'[r] = n + 1 /\ batch'[r] = <<>>
      \/ ~InPartition(r)'
  BY <1>1 DEF SaveSegmentMetadata, FlushDone, NextSegment, ReturnNil, ReturnError, Return,
              RunTypeOK, InPartition
<1>10. MetaInv'
  <2> SUFFICES ASSUME NEW k \in DOMAIN segMeta'
               PROVE  /\ k \in DOMAIN store
                      /\ store[k].state = "whole"
                      /\ InPartition(r)' =>
                           \/ k[1] < part'[r]
                           \/ k[1] = part'[r] /\ k[2] < segmentNum'[r]
                      /\ NoHoles(k[1]) =>
                           \/ MetaMatches(k)'
                           \/ /\ ~(InPartition(r)' /\ k[1] = part'[r])
                              /\ <<k[1], k[2] + 1>> \notin DOMAIN store
    BY <1>1, <1>4 DEF MetaInv, OneRun
  <2>1. CASE k = key /\ segMeta'[key] = SegmentOffsets(r)
    <3>1. k \in DOMAIN store /\ store[k].state = "whole" /\ k[1] = p /\ k[2] = n
      BY <1>2, <1>3, <2>1
    <3>2. <<k[1], k[2] + 1>> \notin DOMAIN store
      BY <1>5, <3>1
    <3>3. NoHoles(p) /\ why[r] = "loop" => MetaMatches(k)'
      BY <1>7, <2>1 DEF MetaMatches, LastOf
    <3> HIDE DEF p, n
    <3>4. InPartition(r)' => why[r] = "loop" /\ part'[r] = p /\ segmentNum'[r] = n + 1
      BY <1>9 DEF p
    <3>5. n < n + 1
      BY <1>2
    <3> QED
      BY <1>9, <3>1, <3>2, <3>3, <3>4, <3>5
  <2>2. CASE k \in DOMAIN segMeta /\ segMeta'[k] = segMeta[k]
    <3>1. /\ k \in DOMAIN store /\ store[k].state = "whole"
          /\ \/ k[1] < p
             \/ k[1] = p /\ k[2] < n
          /\ NoHoles(k[1]) =>
               \/ MetaMatches(k)
               \/ k[1] # p /\ <<k[1], k[2] + 1>> \notin DOMAIN store
      BY <1>1, <2>2 DEF ExactMetaInv, MetaInv
    <3>2. MetaMatches(k) => MetaMatches(k)'
      BY <1>1, <2>2 DEF MetaMatches, LastOf
    <3>3. k[2] \in Nat
      BY <3>1, KeyType
    <3> HIDE DEF p, n
    <3>4. k[2] < n => k[2] < n + 1
      BY <1>2, <3>3
    <3>5. InPartition(r)' => part'[r] = p /\ segmentNum'[r] = n + 1
      BY <1>9 DEF p
    <3> QED
      BY <3>1, <3>2, <3>4, <3>5
  <2> QED
    BY <1>8, <2>1, <2>2
<1>11. ExactInv(r)'
  <2>1. batch[r] = <<>> => DOMAIN batch[r] = {}
    OBVIOUS
  <2>2. batch'[r] = <<>> => DOMAIN batch'[r] = {}
    OBVIOUS
  <2> QED
    BY <1>1, <1>4, <1>9, <2>2 DEF ExactMetaInv, ExactInv
<1> QED
  BY <1>10, <1>11 DEF ExactMetaInv, OneRun

LEMMA MetaUnchanged ==
  ASSUME TypeInv, ExactMetaInv, UNCHANGED vars
  PROVE  ExactMetaInv'
<1>1. UNCHANGED <<log, logEnd, store, segMeta, pc, part, offsets, pos, batch, segmentNum,
                  total>>
  BY DEF vars, kafkaVars, storeVars, runVars, batchVars
<1>2. MetaInv'
  BY <1>1 DEF ExactMetaInv, MetaInv, MetaMatches, LastOf, NoHoles, InPartition
<1>3. \A r \in Runs : ExactInv(r)'
  BY <1>1 DEF ExactMetaInv, ExactInv, NoHoles, InPartition
<1> QED
  BY <1>2, <1>3 DEF ExactMetaInv

LEMMA MetaStep ==
  ASSUME Consumer = "port", OneRun, TypeInv, SliceInv, ChainInv, ExactMetaInv, [Next]_vars
  PROVE  ExactMetaInv'
<1>1. CASE BrokerStep
  BY <1>1, MetaBroker
<1>2. ASSUME NEW r \in Runs, WorkerStep(r)
      PROVE  ExactMetaInv'
  <2>1. CASE Start(r) \/ Finish(r) \/ OpenFails(r) \/ PollNil(r) \/ CtxDone(r)
    BY <2>1, MetaOutside
  <2>2. CASE OpenPartition(r)
    BY <2>2, MetaOpen
  <2>3. CASE PollMessage(r)
    BY <2>3, MetaPoll
  <2>4. CASE PutObject(r) \/ CreateFile(r) \/ WriteFile(r) \/ PutFails(r)
    BY <2>4, MetaPut
  <2>5. CASE SaveSegmentMetadata(r)
    BY <2>5, MetaSave
  <2>6. CASE PollFails(r)
    BY <2>6, MetaUnchanged DEF PollFails
  <2> QED
    BY <1>2, <2>1, <2>2, <2>3, <2>4, <2>5, <2>6 DEF WorkerStep, OwnStep, Poll
<1>3. ASSUME NEW r \in Runs, Cancel(r) \/ MainReturns(r) \/ Crash(r)
      PROVE  ExactMetaInv'
  BY <1>3, MetaOutside
<1>4. CASE UNCHANGED vars
  BY <1>4, MetaUnchanged
<1> QED
  BY <1>1, <1>2, <1>3, <1>4 DEF Next, Terminating

(* The offsets the loop of backupPartition saves for a segment are those   *)
(* of its first and last message, as long as the log has no hole: the      *)
(* count of messages and the consumer's position move together, through    *)
(* every flush, failed flush and crash.                                    *)
THEOREM InteriorMetaIsRight ==
  Consumer = "port" /\ OneRun => (Spec => []InteriorMetaMatches)
<1> SUFFICES ASSUME Consumer = "port", OneRun
             PROVE  Spec => []InteriorMetaMatches
  OBVIOUS
<1>1. ExactMetaInv => InteriorMetaMatches
  BY DEF ExactMetaInv, MetaInv, InteriorMetaMatches
<1>2. TypeInv /\ SliceInv /\ [Next]_vars => SliceInv'
  BY SliceStep
<1>3. TypeInv /\ SliceInv /\ ChainInv /\ ExactMetaInv /\ [Next]_vars => ExactMetaInv'
  BY MetaStep
<1> QED
  BY <1>1, <1>2, <1>3, SliceInit, MetaInit, ChainInvariant, PTL DEF Spec
=============================================================================
