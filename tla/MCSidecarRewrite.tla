-------------------------- MODULE MCSidecarRewrite --------------------------
(***************************************************************************)
(* TLC instances of SidecarRewrite.                                        *)
(***************************************************************************)
EXTENDS SidecarRewrite
=============================================================================
