---------------------------- MODULE MCMqttBridge ----------------------------
(***************************************************************************)
(* MqttBridge for TLC: channels of one place, so that every full-channel   *)
(* case is reached, and a snapshot that can block half-way.                *)
(***************************************************************************)
EXTENDS MqttBridge

SmallestCapacity == 1
SmallestSnapshot == 2
=============================================================================
