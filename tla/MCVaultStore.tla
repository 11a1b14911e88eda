---------------------------- MODULE MCVaultStore ----------------------------
(***************************************************************************)
(* TLC instance of VaultStore.                                             *)
(***************************************************************************)
EXTENDS VaultStore, TLC

ProcSymmetry == Permutations(Procs)
=============================================================================
