--------------------------- MODULE MCBackupDeletion --------------------------
(* Model checking of BackupDeletion. *)
EXTENDS BackupDeletion, TLC

Deleters == Permutations(Deleter)

\* A backup under two ids, and an id for two backups.
Pairs == {<<1, 1>>, <<2, 1>>, <<2, 2>>}
=============================================================================
