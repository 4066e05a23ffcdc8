----------------------------- MODULE AckTracker -----------------------------
(***************************************************************************)
(* The ACK bookkeeping of meshquill-core's Client (client.rs): two maps    *)
(* keyed by the four-byte ACK code, each paired with a queue that records  *)
(* the order in which the codes were entered and bounds the map.           *)
(*                                                                         *)
(* A map is represented by its set of keys: what a CommandTracking or an   *)
(* Ack carries besides the code is returned to the caller and never tested.*)
(* Every action below names the private method of Client it translates and *)
(* speaks about one of the two map/queue pairs only, so that a handler     *)
(* that calls two of them is the conjunction of the two.                   *)
(***************************************************************************)
EXTENDS Queues

CONSTANTS Codes,              \* ACK codes the companion may use
          PendingCapacity,    \* CLIENT_PENDING_ACK_CAPACITY (256)
          CompletedCapacity   \* CLIENT_COMPLETED_ACK_CAPACITY (256)

ASSUME CapacityAssumption == /\ PendingCapacity \in Nat \ {0}
                             /\ CompletedCapacity \in Nat \ {0}

VARIABLES pendingAcks, pendingAckOrder, completedAcks, completedAckOrder

pendingVars == <<pendingAcks, pendingAckOrder>>
completedVars == <<completedAcks, completedAckOrder>>
trackerVars == <<pendingAcks, pendingAckOrder, completedAcks, completedAckOrder>>

-----------------------------------------------------------------------------
TrackerInit == /\ pendingAcks = {} /\ pendingAckOrder = <<>>
               /\ completedAcks = {} /\ completedAckOrder = <<>>

DiscardPendingAck(c) ==
    /\ pendingAcks' = pendingAcks \ {c}
    /\ pendingAckOrder' = Retain(pendingAckOrder, c)

DiscardCompletedAck(c) ==
    /\ completedAcks' = completedAcks \ {c}
    /\ completedAckOrder' = Retain(completedAckOrder, c)

\* Mutants: the map keeps what the queue evicts; the code's own old entry
\* counts against the capacity.
RememberLeavesEvicted(c) ==
    /\ pendingAcks' = pendingAcks \cup {c}
    /\ pendingAckOrder' =
           Append(Trimmed(Retain(pendingAckOrder, c), PendingCapacity), c)
RememberEvictsFirst(c) ==
    /\ pendingAcks' = (pendingAcks \ Popped(pendingAckOrder, PendingCapacity)) \cup {c}
    /\ pendingAckOrder' =
           Append(Retain(Trimmed(pendingAckOrder, PendingCapacity), c), c)

\* Re-entering a code first removes its old entry, so only a new code evicts.
RememberPendingAck(c) ==
    LET kept == Retain(pendingAckOrder, c)
    IN  /\ pendingAcks' = (pendingAcks \ Popped(kept, PendingCapacity)) \cup {c}
        /\ pendingAckOrder' = Append(Trimmed(kept, PendingCapacity), c)

RememberCompletedAck(c) ==
    LET kept == Retain(completedAckOrder, c)
    IN  /\ completedAcks' = (completedAcks \ Popped(kept, CompletedCapacity)) \cup {c}
        /\ completedAckOrder' = Append(Trimmed(kept, CompletedCapacity), c)

\* Mutant: an ACK stored for an earlier use of the code survives.
TrackSentKeepsOldAck(c) == RememberPendingAck(c) /\ UNCHANGED completedVars

\* update_tracking on MSG_SENT, and a tracked send's own MSG_SENT.
TrackSent(c) == DiscardCompletedAck(c) /\ RememberPendingAck(c)

\* update_tracking on an ACK: take_pending_ack, then remember_completed_ack.
TrackAck(c) ==
    \/ c \in pendingAcks /\ DiscardPendingAck(c) /\ RememberCompletedAck(c)
    \/ c \notin pendingAcks /\ UNCHANGED trackerVars

\* wait_for_ack finds the ACK already there (take_completed_ack).
TakeCompletedAck(c) ==
    /\ c \in completedAcks
    /\ DiscardCompletedAck(c)
    /\ UNCHANGED pendingVars

\* wait_for_ack reads the matching ACK itself.
MatchWaitedAck(c) == DiscardPendingAck(c) /\ UNCHANGED completedVars

\* Mutant: a timed out wait leaves its code tracked.
AbandonLeavesPending(c) == DiscardCompletedAck(c) /\ UNCHANGED pendingVars

\* wait_for_ack ends in an error: timeout, device error or read error.
AbandonAck(c) == DiscardPendingAck(c) /\ DiscardCompletedAck(c)

ClearTracking == /\ pendingAcks' = {} /\ pendingAckOrder' = <<>>
                 /\ completedAcks' = {} /\ completedAckOrder' = <<>>

\* What one step of the client may do to the tracker.
TrackerNext ==
    \/ \E c \in Codes :
          \/ TrackSent(c)
          \/ TrackAck(c)
          \/ TakeCompletedAck(c)
          \/ c \notin completedAcks /\ MatchWaitedAck(c)
          \/ c \notin completedAcks /\ AbandonAck(c)
    \/ ClearTracking

\* What any step of the client may do to its ACK bookkeeping: one of the
\* methods above, applied whole, or nothing.
TrackerSpec == TrackerInit /\ [][TrackerNext]_trackerVars

-----------------------------------------------------------------------------
\* Each queue lists exactly the keys of its map, once each, and no code is
\* both awaited and already acknowledged.  The methods of Client keep the
\* pairs in step by hand, one statement at a time.
TrackersConsistent ==
    /\ Holds(pendingAckOrder) = pendingAcks
    /\ Holds(completedAckOrder) = completedAcks
    /\ NoDuplicates(pendingAckOrder) /\ NoDuplicates(completedAckOrder)
    /\ pendingAcks \cap completedAcks = {}
=============================================================================
