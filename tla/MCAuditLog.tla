----------------------------- MODULE MCAuditLog -----------------------------
(***************************************************************************)
(* TLC instance of AuditLog.                                               *)
(***************************************************************************)
EXTENDS AuditLog, TLC

ProcSymmetry == Permutations(Procs)
=============================================================================
