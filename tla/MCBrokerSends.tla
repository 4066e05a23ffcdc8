---------------------------- MODULE MCBrokerSends ----------------------------
(* Two sends, which may share a code and compete for one place. *)
EXTENDS BrokerSends
=============================================================================
