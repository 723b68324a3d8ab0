------------------------- MODULE MCBackupController -------------------------
(* Instances of BackupController for TLC. *)
EXTENDS BackupController
=============================================================================
