-------------------------- MODULE MCRestoreService --------------------------
(* Instances of RestoreService for TLC. *)
EXTENDS RestoreService

AllFaults == {"kafka", "state", "cancel", "crash"}

OnlyKafka == {"kafka"}
=============================================================================
