----------------------------- MODULE MCEndToEnd -----------------------------
(* A backup and a restore of it, interleaved: the restore moves while the   *)
(* store is in the state it was started on, which the backup may leave.     *)
EXTENDS EndToEnd_proofs, TLC

MessagesFrom(low, high) ==
  [i \in 1 .. high - low + 1 |-> [part |-> 0, off |-> low + i - 1]]

(* A full segment and a last one. *)
TwoSegments ==
  (<<0, 0>> :> Whole(MessagesFrom(0, 1))) @@ (<<0, 1>> :> Whole(MessagesFrom(2, 2)))

ThreeMessages == {0} \X (0 .. 2)

AnyHash == [m \in Restore!Messages |-> 0]

PlainRestore ==
  {[selected |-> {0}, partitions |-> {<<0, 0>>}, mapping |-> [t \in {0} |-> 0],
    createTopics |-> FALSE, storage |-> "local", torn |-> {}]}

MovingLog == {"produce", "marker", "retain"}
ReadFaults == {"poll", "meta", "crash"}
AllRestoreFaults == {"connect", "list", "read", "produce", "cancel", "crash"}

restoreVars ==
  <<config, exists, target, restorePc, run, topic, restorePart, listed, pending,
    current, index, sent, counted, completed, errors, skipped, restoreCancelled>>

BothInit == Init /\ Restore!Init

BothNext ==
  \/ Next /\ UNCHANGED restoreVars
  \/ Handover /\ Restore!Next /\ UNCHANGED vars

Both == BothInit /\ [][BothNext]_<<vars, restoreVars>>
=============================================================================
