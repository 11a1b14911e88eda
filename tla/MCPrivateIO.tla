----------------------------- MODULE MCPrivateIO -----------------------------
(***************************************************************************)
(* TLC instance of PrivateIO.                                              *)
(***************************************************************************)
EXTENDS PrivateIO
=============================================================================
