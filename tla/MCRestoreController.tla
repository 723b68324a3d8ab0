------------------------ MODULE MCRestoreController ------------------------
(* Instances of RestoreController for TLC. *)
EXTENDS RestoreController
=============================================================================
