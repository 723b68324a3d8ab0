-------------------------- MODULE MCRestoreWorker --------------------------
(* Instances of RestoreWorker for TLC. *)
EXTENDS RestoreWorker, TLC

(* Segments 2 and 10 are in the order of their names only because the       *)
(* numbers are padded.  Topic 0 has an empty segment, topic 1 nothing.      *)
SmallBackup ==
  (<<0, 0, 2>> :> 2) @@ (<<0, 0, 10>> :> 1) @@ (<<0, 1, 0>> :> 0)
    @@ (<<0, 1, 1>> :> 1)

(* Partition numbers with a common beginning.                               *)
ElevenPartitions == (<<0, 1, 0>> :> 1) @@ (<<0, 10, 0>> :> 1)

(* Any hash will do for what is checked. *)
HashByIndex == [m \in Messages |-> m[4] % NumPartitions]

EveryPartition == Topics \X Partitions

Identity == [t \in Topics |-> t]

Restore(partitions, mapping, createTopics, storage, torn) ==
  [selected |-> Topics, partitions |-> partitions, mapping |-> mapping,
   createTopics |-> createTopics, storage |-> storage, torn |-> torn]

SmallRestores ==
  {Restore(EveryPartition, Identity, TRUE, "local", {}),
   Restore(EveryPartition, [t \in Topics |-> 0], FALSE, "local", {<<0, 0, 2>>}),
   Restore(EveryPartition, Identity, TRUE, "s3", {}),
   [Restore(EveryPartition \ {<<0, 0>>}, Identity, FALSE, "local", {})
      EXCEPT !.selected = {0}]}

PlainRestore == {Restore(EveryPartition, Identity, TRUE, "local", {})}

AllFaults ==
  {"connect", "admin", "list", "read", "produce", "cancel", "crash"}

NoFaults == {}
=============================================================================
