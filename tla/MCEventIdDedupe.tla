-------------------------- MODULE MCEventIdDedupe ---------------------------
(***************************************************************************)
(* EventIdDedupe for TLC.                                                  *)
(***************************************************************************)
EXTENDS EventIdDedupe, TLC

IdSymmetry == Permutations(CheckedIds)
=============================================================================
