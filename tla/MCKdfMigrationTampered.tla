----------------------- MODULE MCKdfMigrationTampered -----------------------
(***************************************************************************)
(* TLC instance of KdfMigrationTampered.                                   *)
(***************************************************************************)
EXTENDS KdfMigrationTampered, TLC

ProcSymmetry == Permutations(Procs)
=============================================================================
