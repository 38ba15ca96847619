----------------------------- MODULE MCBackups -------------------------------
(***************************************************************************)
(* One home and the credentials.                                           *)
(***************************************************************************)
EXTENDS Backups, TLC

MCHomes == <<"home">>

Pids == Permutations(Procs)
=============================================================================
