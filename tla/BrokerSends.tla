----------------------------- MODULE BrokerSends -----------------------------
(***************************************************************************)
(* Sends that come from the broker: the gate of meshquill-mqtt (its        *)
(* event-ID cache is EventIdDedupe), the execution of accepted commands by *)
(* the bridge (mqtt_cli.rs), and the queue of sends that wait for their    *)
(* acknowledgement.  The bridge is one task; the device, the broker, the   *)
(* clock and the broadcast channel of device events go on while it waits.  *)
(* Hooks, the history and the output may fail at every call.               *)
(***************************************************************************)
EXTENDS Naturals, Sequences, FiniteSets

CONSTANTS Codes,          \* acknowledgement codes; two sends may share one
          Limits,         \* values of MAX_PENDING_ACKS
          EventCapacity,  \* capacity of the broadcast channel of device events
          MaxSends,       \* bound: commands accepted in a behaviour
          MaxWaiting      \* bound: commands accepted that the bridge has not taken

ASSUME BrokerAssumption ==
    /\ Limits \subseteq Nat \ {0} /\ EventCapacity \in Nat \ {0} /\ MaxSends \in Nat
    /\ MaxWaiting \in Nat \ {0}
    /\ IsFiniteSet(Codes) /\ Codes # {}

VARIABLES
    sends,     \* history: the accepted commands, in order; their records
    taken,     \* how many of them the bridge has taken from the gateway
    loop,      \* [at, why]: where bridge_loop is, why it ended
    pending,   \* VecDeque<PendingBrokerAck>: [send, code, due]
    events,    \* broadcast::Receiver<Event>: acknowledgement codes and others
    lagged,    \* the receiver has lost events it has not been told of
    linked,    \* the device is connected
    limit      \* MAX_PENDING_ACKS, which never changes

vars == <<sends, taken, loop, pending, events, lagged, linked, limit>>

Lost == "Disconnected"
Other == "other"

\* A record: its history status, the code stored with it, what the device did.
NewSend(kind, content) ==
    [kind |-> kind, content |-> content, status |-> "none", stored |-> {}, wanted |-> "none",
     code |-> {}, queued |-> FALSE, confirmed |-> FALSE]

Running == loop.at # "ended"
Goes(at) == loop' = [loop EXCEPT !.at = at]
Ends(why) == loop' = [at |-> "ended", why |-> why]

-----------------------------------------------------------------------------
(* The gate.                                                               *)

Kinds == {"direct", "channel"}
Contents == {"fine", "out of bounds", "own origin", "malformed"}

\* process_at up to the cache, with validate_send_command
ValidCommand(content) == content = "fine"

\* validate_send_command after before_send, and the channel number it must be
ValidPrepared(content) == content = "fine"

\* A publication reaches the gate and is fresh; a rejected one is only reported.
Process(kind, content) ==
    /\ loop.at # "ended" /\ ValidCommand(content)
    /\ Len(sends) < MaxSends /\ Len(sends) - taken < MaxWaiting
    /\ sends' = Append(sends, NewSend(kind, content))
    /\ UNCHANGED <<taken, loop, pending, events, lagged, linked, limit>>

-----------------------------------------------------------------------------
(* History and hooks (workflow.rs).  A status is written and then its hook *)
(* runs; each may fail.  wanted is the status the record should have by    *)
(* now: it differs from status only where the store failed.                *)

Written(s, status) ==
    {[s EXCEPT !.wanted = status, !.status = status], [s EXCEPT !.wanted = status]}

\* failed(): the error is only logged.
RecordFailed(s) == Written(s, "failed")

\* The bridge knows a send by its position.
Put(n, s) == sends' = [sends EXCEPT ![n] = s]

-----------------------------------------------------------------------------
(* Execution of one command.                                               *)

Current == sends[taken]

RoomForAck == Len(pending) < limit

\* rejected_command: no more than a report, which may fail and end the loop.
Rejects == Goes("select") \/ Ends("error")

\* gateway.recv_notice: the limit, before_send, which may refuse or change the message, and the
\* check of what it left.
TakeCommand ==
    /\ loop.at = "select" /\ taken < Len(sends)
    /\ taken' = taken + 1
    /\ \/ Rejects /\ UNCHANGED sends
       \/ /\ sends[taken + 1].kind = "direct" => RoomForAck
          /\ \E content \in {"fine", "out of bounds"} :
                /\ ValidPrepared(content)
                /\ sends' = [sends EXCEPT ![taken + 1].content = content]
          /\ Goes("begin")
    /\ UNCHANGED <<pending, events, lagged, linked, limit>>

\* begin_outgoing: nothing is sent that is not in the history.
BeginOutgoing ==
    /\ loop.at = "begin"
    /\ \/ Rejects /\ UNCHANGED sends
       \/ /\ Put(taken, [Current EXCEPT !.status = "pending", !.wanted = "pending"])
          /\ Goes(IF Current.kind = "direct" THEN "resolve" ELSE "send")
    /\ UNCHANGED <<taken, pending, events, lagged, linked, limit>>

\* list_contacts and resolve_contact
Resolve ==
    /\ loop.at = "resolve"
    /\ \/ linked /\ Goes("send") /\ UNCHANGED sends
       \/ Rejects /\ \E s \in RecordFailed(Current) : Put(taken, s)
    /\ UNCHANGED <<taken, pending, events, lagged, linked, limit>>

\* The device may have sent what the client reports as failed.
SendFails ==
    /\ loop.at = "send"
    /\ \E s \in RecordFailed(Current), c \in {{}} \cup {{d} : d \in Codes} :
          /\ c # {} => linked
          /\ Put(taken, [s EXCEPT !.code = c])
    /\ Rejects
    /\ UNCHANGED <<taken, pending, events, lagged, linked, limit>>

SendAccepted ==
    /\ loop.at = "send" /\ linked
    /\ \E c \in Codes : Put(taken, [Current EXCEPT !.code = {c}, !.queued = TRUE])
    /\ Goes("sent")
    /\ UNCHANGED <<taken, pending, events, lagged, linked, limit>>

PendingAck(n) == [send |-> n, code |-> sends[n].code, due |-> FALSE]

\* Mutant: a send whose after_send hook or history failed is not waited for.
SentKeepsOnSuccess ==
    /\ loop.at = "sent"
    /\ \/ Put(taken, [Current EXCEPT !.stored = Current.code])
          /\ pending' = IF Current.kind = "direct" THEN Append(pending, PendingAck(taken)) ELSE pending
       \/ UNCHANGED <<sends, pending>>
    /\ (Goes("select") \/ Ends("error"))
    /\ UNCHANGED <<taken, events, lagged, linked, limit>>

\* sent(): the code is stored with the record, then after_send runs; a failure of either is
\* reported and the acknowledgement waited for all the same.
Sent ==
    /\ loop.at = "sent"
    /\ \/ Put(taken, [Current EXCEPT !.stored = Current.code])
       \/ UNCHANGED sends
    /\ pending' = IF Current.kind = "direct" THEN Append(pending, PendingAck(taken)) ELSE pending
    /\ (Goes("select") \/ Ends("error"))
    /\ UNCHANGED <<taken, events, lagged, linked, limit>>

-----------------------------------------------------------------------------
(* Acknowledgements and their absence.                                     *)

\* What is pending at the positions of S, in its order.
Kept(S) == [k \in 1 .. Cardinality(S) |-> pending[CHOOSE i \in S : Cardinality({j \in S : j <= i}) = k]]
Without(i) == Kept(DOMAIN pending \ {i})
Matching(code) == {i \in DOMAIN pending : pending[i].code = {code}}
First(S) == CHOOSE i \in S : \A j \in S : i <= j

\* acknowledged(): the store must know the code of the send.
Acknowledged(s, code) ==
    IF s.stored = {code} THEN Written(s, "acknowledged") ELSE {s}

\* Mutant: an acknowledgement is taken for that of the oldest send.
AckEventOfOldest(code) ==
    IF pending = <<>> THEN Goes("select") /\ UNCHANGED <<sends, pending>>
    ELSE /\ pending' = Tail(pending) /\ Goes("select")
         /\ \E s \in Written(sends[pending[1].send], "acknowledged") : Put(pending[1].send, s)

\* publish_core_event of Event::Ack: the oldest send with that code.
AckEvent(code) ==
    IF Matching(code) = {} THEN (Goes("select") \/ Ends("error")) /\ UNCHANGED <<sends, pending>>
    ELSE LET i == First(Matching(code)) n == pending[i].send
         IN  /\ pending' = Without(i)
             /\ \E s \in Acknowledged(sends[n], code) :
                    /\ Put(n, s)
                    /\ IF s.wanted = "acknowledged" /\ s.status = "acknowledged"
                       THEN Goes("select") \/ Ends("error") ELSE Ends("error")

\* Event::Disconnected: what is pending fails, and the loop ends.
DisconnectedEvent ==
    /\ pending' = <<>>
    /\ \E fails \in SUBSET {pending[i].send : i \in DOMAIN pending} :
          sends' = [n \in DOMAIN sends |->
                      IF \E i \in DOMAIN pending : pending[i].send = n
                      THEN [sends[n] EXCEPT !.wanted = "failed",
                                            !.status = IF n \in fails THEN @ ELSE "failed"]
                      ELSE sends[n]]
    /\ Ends("device")

\* events.recv(): Lagged is only reported.
ReceiveEvent ==
    /\ loop.at = "select"
    /\ \/ lagged /\ lagged' = FALSE /\ Rejects /\ UNCHANGED <<sends, pending, events>>
       \/ /\ ~lagged /\ events # <<>>
          /\ events' = Tail(events) /\ UNCHANGED lagged
          /\ CASE Head(events) = Lost -> DisconnectedEvent \/ (Ends("error") /\ UNCHANGED <<sends, pending>>)
               [] Head(events) = Other -> (Goes("select") \/ Ends("error")) /\ UNCHANGED <<sends, pending>>
               [] OTHER -> AckEvent(Head(events))
    /\ UNCHANGED <<taken, linked, limit>>

DueNow == {i \in DOMAIN pending : pending[i].due}

\* Mutant: nothing expires while something else is pending.
ExpireLast ==
    /\ loop.at = "select" /\ DueNow = DOMAIN pending /\ Len(pending) = 1
    /\ sends' = [sends EXCEPT ![pending[1].send] = [@ EXCEPT !.wanted = "timed out", !.status = "timed out"]]
    /\ pending' = <<>> /\ UNCHANGED <<taken, loop, events, lagged, linked, limit>>

\* expire_pending_acks, at the tick of the interval.  A failure of the history or of on_timeout
\* ends the loop at once; what was not yet looked at keeps its status.
ExpirePendingAcks ==
    /\ loop.at = "select" /\ DueNow # {}
    /\ \/ /\ sends' = [n \in DOMAIN sends |->
                         IF \E i \in DueNow : pending[i].send = n
                         THEN [sends[n] EXCEPT !.wanted = "timed out", !.status = "timed out"]
                         ELSE sends[n]]
          /\ pending' = Kept(DOMAIN pending \ DueNow) /\ UNCHANGED loop
       \/ \E k \in DueNow : \E s \in Written(sends[pending[k].send], "timed out") :
             /\ sends' = [n \in DOMAIN sends |->
                            IF n = pending[k].send THEN s
                            ELSE IF \E i \in DueNow : i < k /\ pending[i].send = n
                            THEN [sends[n] EXCEPT !.wanted = "timed out", !.status = "timed out"]
                            ELSE sends[n]]
             /\ pending' = <<>> /\ Ends("error")
    /\ UNCHANGED <<taken, events, lagged, linked, limit>>

\* Ctrl-C, or the gateway stops.
EndsOtherwise ==
    /\ loop.at = "select" /\ Ends("error")
    /\ UNCHANGED <<sends, taken, pending, events, lagged, linked, limit>>

-----------------------------------------------------------------------------
(* Around the bridge, as long as its process lives.                        *)

\* broadcast::Sender::send: a full channel loses its oldest event.
Push(event) ==
    LET q == Append(events, event)
    IN  IF Len(q) > EventCapacity THEN events' = Tail(q) /\ lagged' = TRUE
        ELSE events' = q /\ UNCHANGED lagged

\* The destination confirms; the bridge may have given up on the send.
Confirms(n) ==
    /\ Running /\ linked /\ sends[n].code # {} /\ ~sends[n].confirmed /\ sends[n].kind = "direct"
    /\ Put(n, [sends[n] EXCEPT !.confirmed = TRUE])
    /\ \E c \in sends[n].code : Push(c)
    /\ UNCHANGED <<taken, loop, pending, linked, limit>>

OtherEvent ==
    /\ Running /\ linked /\ Push(Other)
    /\ UNCHANGED <<sends, taken, loop, pending, linked, limit>>

DeviceLost ==
    /\ Running /\ linked /\ linked' = FALSE /\ Push(Lost)
    /\ UNCHANGED <<sends, taken, loop, pending, limit>>

\* The timeout that the device gave with the send has passed.
AckIsDue(i) ==
    /\ Running /\ ~pending[i].due /\ pending' = [pending EXCEPT ![i].due = TRUE]
    /\ UNCHANGED <<sends, taken, loop, events, lagged, linked, limit>>

Init ==
    /\ sends = <<>> /\ taken = 0 /\ loop = [at |-> "select", why |-> "none"]
    /\ pending = <<>> /\ events = <<>> /\ lagged = FALSE /\ linked = TRUE
    /\ limit \in Limits

BridgeStep ==
    \/ TakeCommand \/ BeginOutgoing \/ Resolve \/ SendFails \/ SendAccepted \/ Sent
    \/ ReceiveEvent \/ ExpirePendingAcks

Next ==
    \/ \E kind \in Kinds, content \in Contents : Process(kind, content)
    \/ BridgeStep \/ EndsOtherwise
    \/ \E n \in DOMAIN sends : Confirms(n)
    \/ OtherEvent \/ DeviceLost
    \/ \E i \in DOMAIN pending : AckIsDue(i)

\* select! polls its branches in random order, so a branch that is ready again and again is
\* taken at some time; deadlines pass.
Spec ==
    /\ Init /\ [][Next]_vars
    /\ WF_vars(BridgeStep)
    /\ SF_vars(ExpirePendingAcks) /\ SF_vars(ReceiveEvent)
    /\ WF_vars(\E i \in DOMAIN pending : AckIsDue(i))

-----------------------------------------------------------------------------
(* Properties.                                                             *)

\* The state has its type, and no more sends are waited for than the limit allows.
TypeOK ==
    /\ Len(pending) <= limit /\ Len(events) <= EventCapacity
    /\ taken \in 0 .. Len(sends) /\ lagged \in BOOLEAN /\ linked \in BOOLEAN
    /\ loop.at \in {"select", "begin", "resolve", "send", "sent", "ended"}
    /\ \A n \in DOMAIN sends :
          sends[n].status \in {"none", "pending", "failed", "acknowledged", "timed out"}

\* As long as the bridge runs, it waits for exactly the sends that the device has taken and
\* that have no outcome yet, for each of them once: none is forgotten, whatever hook, history
\* or lagging channel failed, and none is settled twice.
PendingIsTracked ==
    loop.at = "select" =>
        /\ \A n \in 1 .. taken :
              LET waits == {i \in DOMAIN pending : pending[i].send = n}
              IN Cardinality(waits) =
                    IF sends[n].queued /\ sends[n].kind = "direct" /\ sends[n].wanted = "pending"
                    THEN 1 ELSE 0
        /\ \A i \in DOMAIN pending : sends[pending[i].send].status = "pending"

\* What the device gets to send has passed the gate, and passed its limits again after the
\* before_send hook.
OnlyAllowedIsSent == \A n \in DOMAIN sends : sends[n].code # {} => sends[n].content = "fine"

\* A send is recorded as acknowledged only if the destination confirmed a send with its code.
AcknowledgedIsConfirmed ==
    \A n \in DOMAIN sends :
        sends[n].status = "acknowledged" =>
            \E m \in DOMAIN sends : sends[m].confirmed /\ sends[m].code = sends[n].code

\* An outcome is final: no later event, deadline or loss changes it.
OutcomeIsFinal ==
    [][\A n \in DOMAIN sends :
          sends[n].status \in {"failed", "acknowledged", "timed out"} => sends'[n].status = sends[n].status]_vars

\* When the device is lost, no send stays pending in the history but those whose record could
\* not be written.
LossLeavesNothingPending ==
    loop.why = "device" =>
        \A n \in DOMAIN sends : sends[n].kind = "direct" /\ sends[n].queued => sends[n].wanted # "pending"

\* Every send that the bridge waits for gets an outcome, or the bridge ends.
SendsSettle ==
    \A n \in 1 .. MaxSends :
        (n \in DOMAIN sends /\ sends[n].queued /\ sends[n].kind = "direct")
            ~> (loop.at = "ended" \/ (n \in DOMAIN sends /\ sends[n].wanted # "pending"))

\* The loss of the device ends the bridge, also when its event channel overflows.
LossEndsBridge == ~linked ~> loop.at = "ended"

\* Bridge and history know every send whose outcome is open.
SendsAreTracked == TypeOK /\ PendingIsTracked /\ LossLeavesNothingPending

\* What is sent was allowed, and what counts as acknowledged was confirmed.
SendsAreTrue == OnlyAllowedIsSent /\ AcknowledgedIsConfirmed

\* Every send gets one outcome, also when events, hooks or the device are lost.
SendsSettleOnce == OutcomeIsFinal /\ SendsSettle /\ LossEndsBridge
=============================================================================
