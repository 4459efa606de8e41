------------------------------ MODULE MCBackups ------------------------------
(* Model values for checking with TLC what comments of backups.ts say. *)
EXTENDS Backups

CONSTANTS t1, t2

MCTasks == {t1, t2}
MCKeeps == {1}
=============================================================================
