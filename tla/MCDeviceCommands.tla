-------------------------- MODULE MCDeviceCommands --------------------------
(* Two contacts, one command or a batch of two lines at a time. *)
EXTENDS DeviceCommands
=============================================================================
