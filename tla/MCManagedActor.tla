--------------------------- MODULE MCManagedActor ---------------------------
(***************************************************************************)
(* ManagedActor for TLC: one request may run, one wait in the queue and    *)
(* one wait for a slot.  No symmetry: the properties include liveness.     *)
(***************************************************************************)
EXTENDS ManagedActor

\* One command that opens a session, one that uses it, the one that may be
\* interrupted without closing it, and the one that ends the actor.
RepresentativeKinds == {"reconnect", "request", "ack", "shutdown"}
=============================================================================
