-------------------------- MODULE MCBackupWorker --------------------------
(* Instances of BackupWorker for TLC. *)
EXTENDS BackupWorker, TLC

(* The runs of a backup are interchangeable. *)
RunSymmetry == Permutations(Runs)

AllLogEvents == {"produce", "marker", "retain", "compact"}

ReadLogEvents == {"produce", "marker", "retain"}

StillLog == {}

AllFaults == {"connect", "offsets", "poll", "put", "meta", "cancel", "crash"}

NoFaults == {}

OnlyCancel == {"cancel"}

OnlyPutFaults == {"put"}

PutAndCrash == {"put", "crash"}

ReadFaults == {"offsets", "poll", "meta", "cancel"}
=============================================================================
