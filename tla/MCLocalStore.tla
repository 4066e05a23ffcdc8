---------------------------- MODULE MCLocalStore ----------------------------
(* Instances of LocalStore for TLC. *)
EXTENDS LocalStore, TLC

Interchangeable == Permutations(Processes)
=============================================================================
