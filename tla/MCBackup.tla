------------------------------ MODULE MCBackup ------------------------------
(***************************************************************************)
(* Backup for TLC.  The identities of the runs are model values of the     *)
(* cfg files; no symmetry is used, because the runs check liveness.        *)
(***************************************************************************)
EXTENDS Backup
=============================================================================
