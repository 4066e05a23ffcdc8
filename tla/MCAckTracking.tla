---------------------------- MODULE MCAckTracking ---------------------------
(***************************************************************************)
(* AckTracking for TLC: more codes than either queue can hold, so that     *)
(* eviction, re-entry of a code and eviction of a stored ACK all occur.    *)
(***************************************************************************)
EXTENDS AckTracking, TLC

CodeSymmetry == Permutations(Codes)
=============================================================================
