-------------------------- MODULE MCBackupService --------------------------
(* Instances of BackupService for TLC. *)
EXTENDS BackupService, TLC

(* Pods, and callers of the use case, are interchangeable. *)
ClientSymmetry == Permutations(Clients)

NoFaults == {}

AllFaults == {"kafka", "state", "crash"}
=============================================================================
