---------------------------- MODULE MCHookRuntime ----------------------------
(* Two concurrent calls that share one permit. *)
EXTENDS HookRuntime
=============================================================================
