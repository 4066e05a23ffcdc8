--------------------------- MODULE MCBleTransport ---------------------------
(***************************************************************************)
(* The Bluetooth transport for TLC: two adapters, so that one of them may  *)
(* fail while the other works.                                             *)
(***************************************************************************)
EXTENDS BleTransport
=============================================================================
