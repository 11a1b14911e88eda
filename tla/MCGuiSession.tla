---------------------------- MODULE MCGuiSession ----------------------------
(***************************************************************************)
(* GuiSession for TLC.                                                     *)
(***************************************************************************)
EXTENDS GuiSession, TLC

CONSTANTS w1, w2, s1, s2

GuiSymmetry == Permutations(Windows) \cup Permutations(Slots)
=============================================================================
