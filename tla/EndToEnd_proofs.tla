-------------------------- MODULE EndToEnd_proofs --------------------------
(***************************************************************************)
(* A backup and a restore of it, over one object store: what the target    *)
(* receives of the source.  BackupWorker is extended, a restore is an      *)
(* instance of RestoreWorker.  Both run as they like; they meet in the     *)
(* state of the store a restore works on, which the backup may have        *)
(* reached at any time, while it was still running or after it crashed.    *)
(***************************************************************************)
EXTENDS SegmentChain_proofs

CONSTANTS
  Snapshot,    \* what the store holds for the restore
  Promised,    \* source messages that were reported as backed up then
  Hash, Configs, Producer, MaxRuns, RestoreFaults

VARIABLES config, exists, target, restorePc, run, topic, restorePart, listed,
          pending, current, index, sent, counted, completed, errors, skipped,
          restoreCancelled

(* The topic of the backup is topic 0 of the restore.  What does not decode *)
(* has no messages.                                                         *)
KeyOf(k) == <<k[2], k[3]>>

Restore == INSTANCE RestoreWorker_proofs WITH
  NumTopics <- 1,
  Stored <- [k \in {<<0, b[1], b[2]>> : b \in DOMAIN Snapshot} |->
               Len(Snapshot[KeyOf(k)].msgs)],
  Faults <- RestoreFaults,
  pc <- restorePc, part <- restorePart, cancelled <- restoreCancelled

(* The offset a message of the backup has in the source. *)
OffsetOf(m) == Snapshot[KeyOf(m)].msgs[m[4]].off

(* backupPartition has returned nil for o, which the log still holds.       *)
IsReported(p, o) ==
  \E r \in Runs : claimed[r][p].low <= o /\ o < claimed[r][p].high

Handover ==
  /\ store = Snapshot
  /\ Promised =
       UNION {{p} \X {o \in log[p] : IsReported(p, o)} : p \in Partitions}

BackupAndRestore == Spec /\ <>Handover /\ Restore!Spec

(* Each run of the restore gives the target the messages of a partition in  *)
(* the order of their offsets in the source, and none twice.                *)
TargetAscends ==
  \A i, j \in DOMAIN target :
    (/\ i < j
     /\ target[i].run = target[j].run
     /\ target[i].msg[2] = target[j].msg[2])
      => OffsetOf(target[i].msg) < OffsetOf(target[j].msg)

(* What a backup reported as stored, and a restore reports as completed, is *)
(* in the target, or the restore has said that it is missing.               *)
PromisesAreKept ==
  0 \in completed =>
    \A po \in Promised :
      <<0, po[1]>> \in config.partitions =>
        \E m \in Restore!Messages :
          /\ m[2] = po[1] /\ OffsetOf(m) = po[2]
          /\ m \in Restore!Restored \/ m \in skipped \/ <<0, po[1]>> \in errors

-----------------------------------------------------------------------------
(* The order of the source *)

(* A store whose objects ascend, each within itself and all of a partition  *)
(* by their keys.                                                           *)
Ascending(s) ==
  /\ DOMAIN s \subseteq Key
  /\ \A k \in DOMAIN s : s[k] \in Object
  /\ \A k \in DOMAIN s : \A i, j \in DOMAIN s[k].msgs :
       i < j => s[k].msgs[i].off < s[k].msgs[j].off
  /\ \A k, l \in DOMAIN s : k[1] = l[1] /\ k[2] < l[2] =>
       \A i \in DOMAIN s[k].msgs, j \in DOMAIN s[l].msgs :
         s[k].msgs[i].off < s[l].msgs[j].off

LEMMA OffsetsAreNat ==
  ASSUME NEW msgs \in Seq(Message), NEW n \in DOMAIN msgs
  PROVE  msgs[n].off \in Nat
<1>1. msgs[n] \in Message
  OBVIOUS
<1> QED
  BY <1>1 DEF Message

LEMMA SliceEnds ==
  ASSUME NEW msgs \in Seq(Message), NEW p, IsSlice(msgs, p), NEW i \in DOMAIN msgs
  PROVE  msgs[1].off <= msgs[i].off /\ msgs[i].off <= LastOf(msgs).off
<1>1. /\ 1 \in DOMAIN msgs /\ Len(msgs) \in DOMAIN msgs
      /\ i \in Nat /\ 1 <= i /\ i <= Len(msgs) /\ Len(msgs) \in Nat
  OBVIOUS
<1>2. \A n \in DOMAIN msgs : msgs[n].off \in Nat
  BY OffsetsAreNat
<1>3. 1 = i \/ msgs[1].off < msgs[i].off
  BY <1>1 DEF IsSlice
<1>4. i = Len(msgs) \/ msgs[i].off < msgs[Len(msgs)].off
  BY <1>1 DEF IsSlice
<1> QED
  BY <1>1, <1>2, <1>3, <1>4 DEF LastOf

LEMMA StoreIsAscending ==
  ASSUME TypeInv, SliceInv, UnreadableInv, ReplayAscends
  PROVE  Ascending(store)
<1>1. DOMAIN store \subseteq Key /\ \A k \in DOMAIN store : store[k] \in Object
  BY DEF TypeInv, StoreTypeOK
<1>2. \A k \in DOMAIN store : store[k].msgs \in Seq(Message)
  BY <1>1 DEF Object
<1>3. ASSUME NEW k \in DOMAIN store, NEW i \in DOMAIN store[k].msgs
      PROVE  store[k].state = "whole" /\ IsSlice(store[k].msgs, k[1])
  BY <1>3, <1>2 DEF UnreadableInv, SliceInv, ObjectInv
<1>4. ASSUME NEW k \in DOMAIN store, NEW i \in DOMAIN store[k].msgs,
             NEW j \in DOMAIN store[k].msgs, i < j
      PROVE  store[k].msgs[i].off < store[k].msgs[j].off
  BY <1>3, <1>4 DEF IsSlice
<1>5. ASSUME NEW k \in DOMAIN store, NEW l \in DOMAIN store, k[1] = l[1], k[2] < l[2],
             NEW i \in DOMAIN store[k].msgs, NEW j \in DOMAIN store[l].msgs
      PROVE  store[k].msgs[i].off < store[l].msgs[j].off
  <2>1. LastOf(store[k].msgs).off < store[l].msgs[1].off
    BY <1>3, <1>5 DEF ReplayAscends
  <2>2. store[k].msgs[i].off <= LastOf(store[k].msgs).off
    BY <1>2, <1>3, SliceEnds
  <2>3. store[l].msgs[1].off <= store[l].msgs[j].off
    BY <1>2, <1>3, SliceEnds
  <2>4. /\ store[k].msgs[i].off \in Nat /\ store[l].msgs[j].off \in Nat
        /\ LastOf(store[k].msgs).off \in Nat /\ store[l].msgs[1].off \in Nat
    <3>1. /\ Len(store[k].msgs) \in DOMAIN store[k].msgs
          /\ 1 \in DOMAIN store[l].msgs
      BY <1>2
    <3> QED
      BY <1>2, <3>1, OffsetsAreNat DEF LastOf
  <2> QED
    BY <2>1, <2>2, <2>3, <2>4
<1> QED
  BY <1>1, <1>4, <1>5 DEF Ascending

LEMMA AlwaysAscending ==
  Consumer = "port" /\ OneRun => (Spec => []Ascending(store))
<1> SUFFICES ASSUME Consumer = "port", OneRun PROVE Spec => []Ascending(store)
  OBVIOUS
<1>1. TypeInv /\ SliceInv /\ [Next]_vars => SliceInv'
  BY SliceStep
<1>2. TypeInv /\ SliceInv /\ ChainInv /\ CopyInv /\ [Next]_vars => CopyInv'
  BY CopyStep
<1>3. TypeInv /\ SliceInv /\ CopyInv /\ ReplayAscends => Ascending(store)
  BY StoreIsAscending DEF CopyInv
<1> QED
  BY <1>1, <1>2, <1>3, SliceInit, CopyInit, ChainInvariant, SegmentsAscend, PTL
  DEF Spec

(* Where a message of the restore lies in the snapshot. *)
LEMMA MessageIsStored ==
  ASSUME Ascending(Snapshot), NEW m \in Restore!Messages
  PROVE  /\ m = <<0, m[2], m[3], m[4]>>
         /\ KeyOf(m) \in DOMAIN Snapshot
         /\ m[3] \in Nat /\ m[4] \in DOMAIN Snapshot[KeyOf(m)].msgs /\ m[4] \in Nat
<1>1. PICK b \in DOMAIN Snapshot : m \in Restore!MessagesOf(<<0, b[1], b[2]>>)
  BY DEF Restore!Messages, Restore!Segments
<1>2. b = <<b[1], b[2]>> /\ b[2] \in Nat /\ Snapshot[b].msgs \in Seq(Message)
  BY DEF Ascending, Key, Object
<1>3. PICK i \in 1 .. Len(Snapshot[b].msgs) : m = <<0, b[1], b[2], i>>
  BY <1>1, <1>2 DEF Restore!MessagesOf, Restore!MessageAt, KeyOf
<1> QED
  BY <1>2, <1>3 DEF KeyOf

LEMMA OrderCarriesOver ==
  ASSUME Ascending(Snapshot), Restore!TypeOK, Restore!RestoredInOrder
  PROVE  TargetAscends
<1> SUFFICES ASSUME NEW i \in DOMAIN target, NEW j \in DOMAIN target, i < j,
                    target[i].run = target[j].run,
                    target[i].msg[2] = target[j].msg[2]
             PROVE  OffsetOf(target[i].msg) < OffsetOf(target[j].msg)
  BY DEF TargetAscends
<1> DEFINE m == target[i].msg
           n == target[j].msg
<1>1. m \in Restore!Messages /\ n \in Restore!Messages
  <2>1. target \in Seq(Restore!Entry)
    BY DEF Restore!TypeOK
  <2>2. target[i] \in Restore!Entry /\ target[j] \in Restore!Entry
    BY <2>1
  <2> QED
    BY <2>2 DEF Restore!Entry
<1>2. m[1] = n[1]
  BY <1>1, MessageIsStored
<1>3. m[3] < n[3] \/ (m[3] = n[3] /\ m[4] < n[4])
  BY <1>2 DEF Restore!RestoredInOrder, Restore!SamePartition, Restore!Precedes
<1> HIDE DEF m, n
<1>4. m[2] = n[2]
  BY DEF m, n
<1>5. OffsetOf(m) < OffsetOf(n)
  BY <1>1, <1>3, <1>4, MessageIsStored DEF Ascending, OffsetOf, KeyOf
<1> QED
  BY <1>5 DEF m, n

(* From the source log to the target topic: whatever state of the store a   *)
(* restore works on, each of its runs replays every partition by ascending  *)
(* offsets of the source, with nothing twice.                               *)
THEOREM SourceOrderIsKept ==
  ASSUME Consumer = "port", OneRun, Restore!RestoreAssumption, Restore!FewAndPadded
  PROVE  BackupAndRestore => []TargetAscends
<1>1. Spec => []Ascending(store)
  BY AlwaysAscending
<1>2. CASE Ascending(Snapshot)
  <2>1. Restore!Spec => []Restore!TypeOK
    BY Restore!TypeCorrect
  <2>2. Restore!Spec => []Restore!RestoredInOrder
    BY Restore!ReplayKeepsOrder
  <2>3. Restore!TypeOK /\ Restore!RestoredInOrder => TargetAscends
    BY <1>2, OrderCarriesOver
  <2> QED
    BY <2>1, <2>2, <2>3, PTL DEF BackupAndRestore
<1>3. CASE ~Ascending(Snapshot)
  <2>1. Ascending(store) => ~Handover
    BY <1>3 DEF Handover
  <2> QED
    BY <1>1, <2>1, PTL DEF BackupAndRestore
<1> QED
  BY <1>2, <1>3

-----------------------------------------------------------------------------
(* What was promised *)

Kept(s, p, o) ==
  \E k \in DOMAIN s : k[1] = p /\ \E i \in DOMAIN s[k].msgs : s[k].msgs[i].off = o

(* A snapshot that has all that was promised. *)
Complete(s) ==
  /\ DOMAIN s \subseteq Key
  /\ \A k \in DOMAIN s : s[k].msgs \in Seq(Message)
  /\ \A po \in Promised : po[1] \in Partitions /\ Kept(s, po[1], po[2])

LEMMA PromiseCarriesOver ==
  ASSUME Complete(Snapshot), Restore!NothingVanishes
  PROVE  PromisesAreKept
<1> SUFFICES ASSUME 0 \in completed, NEW po \in Promised,
                    <<0, po[1]>> \in config.partitions
             PROVE  \E m \in Restore!Messages :
                      /\ m[2] = po[1] /\ OffsetOf(m) = po[2]
                      /\ \/ m \in Restore!Restored
                         \/ m \in skipped
                         \/ <<0, po[1]>> \in errors
  BY DEF PromisesAreKept
<1>1. PICK k \in DOMAIN Snapshot : /\ k[1] = po[1]
                                   /\ \E i \in DOMAIN Snapshot[k].msgs :
                                        Snapshot[k].msgs[i].off = po[2]
  BY DEF Complete, Kept
<1>2. PICK i \in DOMAIN Snapshot[k].msgs : Snapshot[k].msgs[i].off = po[2]
  BY <1>1
<1> DEFINE s == <<0, k[1], k[2]>>
           m == <<0, k[1], k[2], i>>
<1>3. k = <<k[1], k[2]>> /\ i \in 1 .. Len(Snapshot[k].msgs)
  BY <1>2 DEF Complete, Key
<1>4. s \in Restore!Segments /\ m \in Restore!MessagesOf(s)
  BY <1>3 DEF Restore!Segments, Restore!MessagesOf, Restore!MessageAt, KeyOf
<1>5. m \in Restore!Messages /\ m \in Restore!Due(0)
  BY <1>1, <1>4
  DEF Restore!Messages, Restore!Due, Restore!SegmentsOfTopic,
      Restore!ShouldRestorePartition
<1>6. m[2] = po[1] /\ OffsetOf(m) = po[2]
  BY <1>1, <1>2, <1>3 DEF OffsetOf, KeyOf
<1>7. m \in Restore!Restored \/ m \in skipped \/ <<0, m[2]>> \in errors
  BY <1>5 DEF Restore!NothingVanishes
<1> QED
  BY <1>5, <1>6, <1>7

(* What the backup reported as stored when the restore's state of the store *)
(* was reached, and the restore reports as completed, is in the target or   *)
(* the restore has logged that it is not: the two reports, each made by a   *)
(* program that knows nothing of the other, together can be relied on.      *)
THEOREM PromiseIsKept ==
  ASSUME Consumer = "port", OneRun, PutsSucceed, Restore!RestoreAssumption
  PROVE  BackupAndRestore => []PromisesAreKept
<1>1. Spec => []ClaimsAreStored
  BY ClaimsAreTrue
<1>2. Spec => [](TypeInv /\ ChainInv)
  BY ChainInvariant
<1>3. TypeInv /\ ClaimsAreStored /\ Handover => Complete(Snapshot)
  <2> SUFFICES ASSUME TypeInv, ClaimsAreStored, Handover
               PROVE  Complete(Snapshot)
    OBVIOUS
  <2>1. DOMAIN store \subseteq Key /\ \A k \in DOMAIN store : store[k].msgs \in Seq(Message)
    BY DEF TypeInv, StoreTypeOK, Object
  <2>2. ASSUME NEW po \in Promised
        PROVE  po[1] \in Partitions /\ Kept(store, po[1], po[2])
    <3>1. /\ po[1] \in Partitions
          /\ po[2] \in log[po[1]]
          /\ IsReported(po[1], po[2])
      BY DEF Handover
    <3> QED
      BY <3>1 DEF IsReported, ClaimsAreStored, IsStored, Kept
  <2> QED
    BY <2>1, <2>2 DEF Handover, Complete
<1>4. CASE Complete(Snapshot)
  <2>1. Restore!Spec => []Restore!NothingVanishes
    BY Restore!NothingIsLostSilently
  <2>2. Restore!NothingVanishes => PromisesAreKept
    BY <1>4, PromiseCarriesOver
  <2> QED
    BY <2>1, <2>2, PTL DEF BackupAndRestore
<1>5. CASE ~Complete(Snapshot)
  <2>1. ~(TypeInv /\ ClaimsAreStored /\ Handover)
    BY <1>3, <1>5
  <2> QED
    BY <1>1, <1>2, <2>1, PTL DEF BackupAndRestore
<1> QED
  BY <1>4, <1>5
=============================================================================
