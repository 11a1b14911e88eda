------------------------------ MODULE MCConsent ------------------------------
(***************************************************************************)
(* TLC instance of Consent.                                                *)
(***************************************************************************)
EXTENDS Consent, TLC

ProcSymmetry == Permutations(Procs)
=============================================================================
