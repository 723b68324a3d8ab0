---------------------------- MODULE TopicReplay ----------------------------
(***************************************************************************)
(* What a restore promises about the messages it was asked for, said       *)
(* without topics' loops, segments or keys: each attempt delivers the      *)
(* messages of a partition in their order and none of them twice, passes   *)
(* over a message only after it has left a trace of it, and reports a      *)
(* topic completed only when it owes nothing of it.  RestoreWorker is      *)
(* shown to implement it.                                                  *)
(***************************************************************************)
EXTENDS Integers, Sequences

CONSTANTS Messages,
          TopicOf,   \* TopicOf[m]: the topic m is from
          Earlier    \* <<d, m>>: d lies before m in the same partition

VARIABLES wanted,     \* the messages the restore was asked for
          target,     \* what was delivered, by the attempt that did
          attempt,    \* attempts so far
          completed,  \* topics reported completed by this attempt
          missed      \* messages this attempt has left a trace of

vars == <<wanted, target, attempt, completed, missed>>

Delivered == {target[i].msg : i \in {j \in DOMAIN target : target[j].run = attempt}}

(* m comes next: nothing later was delivered, nothing earlier is owed.      *)
IsNext(m) ==
  /\ m \in wanted
  /\ \A d \in Delivered : d # m /\ <<m, d>> \notin Earlier
  /\ \A e \in Messages : <<e, m>> \in Earlier => e \in Delivered \cup missed

(* The message reaches the target; the answer may be lost on its way back,  *)
(* which is then logged like a failure.                                     *)
Deliver ==
  /\ Len(target') = Len(target) + 1
  /\ LET last == target'[Len(target) + 1] IN
       /\ target' = Append(target, last)
       /\ last.run = attempt
       /\ IsNext(last.msg)
       /\ missed' \in {missed, missed \cup {last.msg}}
  /\ UNCHANGED <<wanted, attempt, completed>>

Miss ==
  /\ missed \subseteq missed'
  /\ missed' # missed
  /\ UNCHANGED <<wanted, target, attempt, completed>>

Complete ==
  /\ \E t \in completed' :
       /\ completed' = completed \cup {t}
       /\ \A m \in wanted : TopicOf[m] = t => m \in Delivered \cup missed
  /\ UNCHANGED <<wanted, target, attempt, missed>>

(* A new attempt knows nothing of the last one; the target does not forget. *)
Restart ==
  /\ attempt' = attempt + 1
  /\ completed' = {}
  /\ missed' = {}
  /\ UNCHANGED <<wanted, target>>

Init ==
  /\ wanted \subseteq Messages
  /\ target = <<>>
  /\ attempt = 1
  /\ completed = {}
  /\ missed = {}

Next == Deliver \/ Miss \/ Complete \/ Restart

Spec == Init /\ [][Next]_vars
=============================================================================
