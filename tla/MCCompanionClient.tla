------------------------- MODULE MCCompanionClient --------------------------
(***************************************************************************)
(* CompanionClient for TLC.                                                *)
(***************************************************************************)
EXTENDS CompanionClient, TLC

CodeSymmetry == Permutations(Codes)
=============================================================================
