---------------------------- MODULE MCBackupRuns ----------------------------
(* BackupRuns on small instances.                                          *)
EXTENDS BackupRuns, TLC

CONSTANTS t1, t2, t3, open, later, closed
=============================================================================
