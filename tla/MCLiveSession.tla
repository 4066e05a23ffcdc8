---------------------------- MODULE MCLiveSession ----------------------------
(* Small instances of LiveSession. *)
EXTENDS LiveSession
=============================================================================
