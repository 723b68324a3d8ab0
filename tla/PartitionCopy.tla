--------------------------- MODULE PartitionCopy ---------------------------
(***************************************************************************)
(* What the backup of a topic promises about each partition, said without  *)
(* segments, batches or offsets ranges: the copy of a partition grows at   *)
(* its end only, one chunk at a time, and a chunk skips nothing that the   *)
(* source still holds.  BackupWorker is shown to implement it.             *)
(***************************************************************************)
EXTENDS Integers

CONSTANT Partitions

VARIABLES source,   \* source[p]: the offsets the partition's log holds
          copied    \* copied[p]: the offsets found in the backup of p

vars == <<source, copied>>

Above(S, o) == \A c \in S : c < o

(***************************************************************************)
(* The chunk lies above everything copied so far, and every message of the *)
(* source between the end of the copy (or, for the first chunk, between    *)
(* the chunk's first message) and the chunk's last message is in it.       *)
(***************************************************************************)
ExtendsCopy(p, chunk) ==
  /\ \A o \in chunk : Above(copied[p], o)
  /\ \A o \in source[p] :
       /\ Above(copied[p], o)
       /\ \E c \in chunk : o <= c
       /\ copied[p] = {} => \E c \in chunk : c <= o
       => o \in chunk

(* The source changes by itself: producers, retention, compaction. *)
SourceChanges == source' # source /\ UNCHANGED copied

CopyChunk(p) ==
  /\ copied'[p] # copied[p]
  /\ copied[p] \subseteq copied'[p]
  /\ ExtendsCopy(p, copied'[p] \ copied[p])
  /\ \A q \in Partitions \ {p} : copied'[q] = copied[q]
  /\ UNCHANGED source

Init == \A p \in Partitions : copied[p] = {}

Next == SourceChanges \/ \E p \in Partitions : CopyChunk(p)

Spec == Init /\ [][Next]_vars
=============================================================================
