------------------------------ MODULE MCBackup ------------------------------
(***************************************************************************)
(* Two backups of one cluster, seen by a cluster scoped operator.          *)
(***************************************************************************)
EXTENDS BackupController

MCScope == [b \in Backup |-> "cluster-scoped"]
=============================================================================
