----------------------------- MODULE MCCvmJobs ------------------------------
(* A small instance of CvmJobs for TLC: p1 migrates, imports and backs up  *)
(* (a round of pbackup_backup is what backup_backup does), p2 asks for     *)
(* progress and cancels.                                                   *)
EXTENDS CvmJobs, TLC

CONSTANTS p1, p2

MCProcs == {p1, p2}
MCDoes == p1 :> {"migrate_send1", "checked", "pbackup"}
          @@ p2 :> {"query", "cancel"}
=============================================================================
