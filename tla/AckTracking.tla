----------------------------- MODULE AckTracking ----------------------------
(***************************************************************************)
(* The life of an ACK code in a Client session: sends that the companion   *)
(* answers with MSG_SENT, ACKs that arrive while the client is idle or     *)
(* busy with something else, callers that wait, give up or are never seen  *)
(* again, and sessions that end.  The history variables record what a      *)
(* caller is entitled to, independently of how AckTracker stores it.       *)
(***************************************************************************)
EXTENDS AckTracker, FiniteSets

VARIABLES
    unresolved,   \* codes sent and tracked, not yet ACKed, abandoned or cleared
    newerSends,   \* [c |-> the other codes tracked since c was last tracked]
    arrived,      \* codes whose ACK was read while tracked and not yet collected
    newerAcks,    \* [c |-> the other codes whose ACK was stored since c's was]
    ackedSince    \* codes whose ACK was read since their last tracked send

historyVars == <<unresolved, newerSends, arrived, newerAcks, ackedSince>>
vars == <<trackerVars, historyVars>>

\* c becomes the most recent entry; it becomes newer than every other code.
MakeNewest(newer, c) ==
    [d \in Codes |-> IF d = c THEN {} ELSE newer[d] \cup {c}]

Init == /\ TrackerInit
        /\ unresolved = {} /\ arrived = {} /\ ackedSince = {}
        /\ newerSends = [c \in Codes |-> {}]
        /\ newerAcks = [c \in Codes |-> {}]

\* A MSG_SENT is read, by the send that asked for it or by any other reader.
Sent(c) == /\ TrackSent(c)
           /\ unresolved' = unresolved \cup {c}
           /\ newerSends' = MakeNewest(newerSends, c)
           /\ arrived' = arrived \ {c}
           /\ ackedSince' = ackedSince \ {c}
           /\ UNCHANGED newerAcks

\* An ACK is read by someone who is not waiting for this code.
AckRead(c) ==
    /\ TrackAck(c)
    /\ ackedSince' = ackedSince \cup {c}
    /\ unresolved' = unresolved \ {c}
    /\ IF c \in pendingAcks
       THEN arrived' = arrived \cup {c} /\ newerAcks' = MakeNewest(newerAcks, c)
       ELSE UNCHANGED <<arrived, newerAcks>>
    /\ UNCHANGED newerSends

\* wait_for_ack(c) returns an ACK that had already arrived.
Collect(c) == /\ TakeCompletedAck(c)
              /\ arrived' = arrived \ {c}
              /\ UNCHANGED <<unresolved, newerSends, newerAcks, ackedSince>>

\* wait_for_ack(c), having found none stored, reads the ACK of c.
WaitMatched(c) == /\ c \notin completedAcks
                  /\ MatchWaitedAck(c)
                  /\ ackedSince' = ackedSince \cup {c}
                  /\ unresolved' = unresolved \ {c}
                  /\ UNCHANGED <<newerSends, arrived, newerAcks>>

\* wait_for_ack(c), having found none stored, times out or fails.
WaitFailed(c) == /\ c \notin completedAcks
                 /\ AbandonAck(c)
                 /\ unresolved' = unresolved \ {c}
                 /\ arrived' = arrived \ {c}
                 /\ UNCHANGED <<newerSends, newerAcks, ackedSince>>

\* connect, reconnect and every path into the disconnected state.
SessionReset == /\ ClearTracking
                /\ unresolved' = {} /\ arrived' = {} /\ ackedSince' = {}
                /\ newerSends' = [c \in Codes |-> {}]
                /\ newerAcks' = [c \in Codes |-> {}]

Next == \/ \E c \in Codes : \/ Sent(c) \/ AckRead(c) \/ Collect(c)
                            \/ WaitMatched(c) \/ WaitFailed(c)
        \/ SessionReset

Spec == Init /\ [][Next]_vars

-----------------------------------------------------------------------------
\* Every variable has its type, and each queue stays within its capacity.
TypeOK == /\ pendingAcks \subseteq Codes /\ pendingAckOrder \in Seq(Codes)
          /\ completedAcks \subseteq Codes /\ completedAckOrder \in Seq(Codes)
          /\ Len(pendingAckOrder) <= PendingCapacity
          /\ Len(completedAckOrder) <= CompletedCapacity
          /\ unresolved \subseteq Codes /\ arrived \subseteq Codes
          /\ ackedSince \subseteq Codes
          /\ newerSends \in [Codes -> SUBSET Codes]
          /\ newerAcks \in [Codes -> SUBSET Codes]

\* A stored ACK answers the latest tracked send of its code: the ACK of an
\* earlier send that used the same code, or of an earlier session, is never
\* handed to wait_for_ack.
StoredAckIsFresh == completedAcks \subseteq ackedSince

\* A send stays tracked, so that its ACK is recognised, until at least
\* PendingCapacity other codes have been tracked after it: entering a code
\* again, acknowledging or abandoning others never costs it its place.
TrackedUntilCapacity ==
    \A c \in unresolved :
        Cardinality(newerSends[c]) < PendingCapacity => c \in pendingAcks

\* An ACK that arrived while nobody waited is kept for a later wait_for_ack
\* until at least CompletedCapacity other ACKs have been stored after it.
StoredUntilCapacity ==
    \A c \in arrived :
        Cardinality(newerAcks[c]) < CompletedCapacity => c \in completedAcks

\* The order in which a queue lists its codes is the order in which they were
\* last entered; eviction from the front is eviction of the oldest.
ByRecency(order, newer) ==
    \A i, j \in DOMAIN order : i < j => order[j] \in newer[order[i]]

QueuesAreByRecency == /\ ByRecency(pendingAckOrder, newerSends)
                      /\ ByRecency(completedAckOrder, newerAcks)

\* Nothing is tracked or stored that was resolved, abandoned or cleared.
NothingLeftBehind == pendingAcks \subseteq unresolved /\ completedAcks \subseteq arrived

\* Nothing owed to a caller is evicted early, and the oldest entry goes first,
\* for the sends that are tracked and for the ACKs that are stored.
KeptUntilCapacity == TrackedUntilCapacity /\ StoredUntilCapacity /\ QueuesAreByRecency
=============================================================================
