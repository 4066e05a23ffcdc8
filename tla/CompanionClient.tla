-------------------------- MODULE CompanionClient ---------------------------
(***************************************************************************)
(* meshquill-core's Client (client.rs) and the companion at the other end  *)
(* of its transport.                                                       *)
(*                                                                         *)
(* The client owns its transport and runs one operation at a time.  The    *)
(* companion answers commands in the order it receives them; its answers   *)
(* carry no request tag, so the client recognises an answer by its type    *)
(* only.  Every packet of the model carries, as history, the request it    *)
(* answers (re), which the client cannot see.                              *)
(*                                                                         *)
(* An await is a point between two actions; what runs between two awaits   *)
(* is one action.  faults names what the environment may do beyond         *)
(* answering every ordinary command before its timeout:                    *)
(*   late           an answer may come after the client's timeout          *)
(*   refuse         APP_START may be answered with an error                *)
(*   mute           a command may never be answered                        *)
(*   malformed      a packet may fail to parse                             *)
(*   carry          bytes in flight survive the reopening of the transport *)
(*   connect_twice  the application calls connect() on an open session     *)
(***************************************************************************)
EXTENDS AckTracker

CONSTANTS Kinds,           \* ordinary request kinds the application uses
          DrainCapacity,   \* CLIENT_SYNC_READY_DRAIN_CAPACITY (256)
          FaultSets,       \* the environments: what faults may be
          MaxRequests,     \* bound: requests in a behaviour
          MaxInFlight      \* bound: packets in one direction of the link

OrdinaryKinds == {"ok", "query", "contacts", "send", "remote", "bye"}

ASSUME ClientAssumption ==
    /\ Kinds \subseteq OrdinaryKinds
    /\ FaultSets \subseteq SUBSET {"late", "refuse", "mute", "malformed", "carry", "connect_twice"}
    /\ DrainCapacity \in Nat /\ MaxRequests \in Nat /\ MaxInFlight \in Nat \ {0}

VARIABLES
    connected,      \* Client::connected; the transport is open exactly then
    syncState,      \* SyncState
    deferredSync,   \* Option<ReadySync>
    op,             \* the operation that holds the client
    outbound,       \* commands written and not yet handled by the companion
    inbound,        \* packets sent by the companion and not yet read
    nextId,         \* history: requests written so far
    lifecycle,      \* history: the last Connected/Disconnected event published
    faults,         \* the environment of this behaviour
    served          \* history: the last operation that ended on a packet

sessionVars == <<connected, syncState, deferredSync>>
linkVars == <<outbound, inbound>>
clientVars == <<sessionVars, op, linkVars, nextId, lifecycle, served, faults, trackerVars>>

NoCode == "no code"
NoRequest == [kind |-> "none", id |-> 0]
NoPacket == [type |-> "none", code |-> NoCode, re |-> NoRequest]
NoOp == [kind |-> "none", id |-> 0, code |-> NoCode, n |-> 0]
Operation(kind, id, code, n) == [kind |-> kind, id |-> id, code |-> code, n |-> n]
Packet(type, code, re) == [type |-> type, code |-> code, re |-> re]

Idle == op = NoOp

-----------------------------------------------------------------------------
(* Which packet ends which operation.                                      *)

SyncTypes == {"ContactMsg", "NoMoreMsgs", "Error"}

\* Ok(_) of the operation's read loop.
Accepts == [init     |-> {"SelfInfo"},
            ok       |-> {"Ok"},
            query    |-> {"Value"},
            contacts |-> {"ContactEnd", "NoMoreMsgs"},
            send     |-> {"MsgSent"},
            remote   |-> {"MsgSent"},
            sync     |-> {"ContactMsg", "NoMoreMsgs"}]

\* The packets it turns into an error.
Rejects == [init     |-> {"Error"},
            ok       |-> {"Disabled", "Error"},
            query    |-> {"Disabled", "Error"},
            contacts |-> {"Error"},
            send     |-> {"Error"},
            remote   |-> {"Error"},
            sync     |-> {"Error"}]

\* What the companion answers to a command.
Answers(kind) == CASE kind = "init"     -> {"SelfInfo"} \cup {t \in {"Error"} : "refuse" \in faults}
                   [] kind = "ok"       -> {"Ok", "Disabled", "Error"}
                   [] kind = "query"    -> {"Value", "Disabled", "Error"}
                   [] kind = "contacts" -> {"ContactEnd", "Error"}
                   [] kind = "send"     -> {"MsgSent", "Error"}
                   [] kind = "remote"   -> {"MsgSent", "Error"}
                   [] kind = "sync"     -> SyncTypes
                   [] OTHER             -> {}

-----------------------------------------------------------------------------
(* State changes shared by the operations.                                 *)

\* retain_sync_response: whoever reads the answer of an outstanding sync
\* keeps it for the next sync_next_message.
RetainSyncResponse(p) ==
    IF syncState = "AwaitingResponse" /\ p.type \in SyncTypes
    THEN deferredSync' = p /\ syncState' = "Idle"
    ELSE UNCHANGED <<deferredSync, syncState>>

\* Mutant: a new send does not discard the ACK stored for its code.
UpdateTrackingKeepsAck(p) ==
    CASE p.type = "MsgSent" -> RememberPendingAck(p.code) /\ UNCHANGED completedVars
      [] p.type = "Ack"     -> TrackAck(p.code)
      [] OTHER              -> UNCHANGED trackerVars

\* update_tracking
UpdateTracking(p) ==
    CASE p.type = "MsgSent" -> TrackSent(p.code)
      [] p.type = "Ack"     -> TrackAck(p.code)
      [] OTHER              -> UNCHANGED trackerVars

\* publish_event, then update_tracking: what most read loops do with a packet
\* that is not theirs.
PublishAndTrack(p) == RetainSyncResponse(p) /\ UpdateTracking(p)

\* Mutant: the kept answer survives the session.
ClearSyncState == syncState' = "Idle" /\ UNCHANGED deferredSync

ClearSyncTracking == syncState' = "Idle" /\ deferredSync' = NoPacket

\* What is on its way when the transport closes is lost, or is still there
\* when it is opened again.
CloseLink(unsent, unread) ==
    \/ outbound' = <<>> /\ inbound' = <<>>
    \/ "carry" \in faults /\ outbound' = unsent /\ inbound' = unread

\* mark_disconnected, with the transport closed
MarkDisconnected ==
    /\ ClearTracking /\ ClearSyncTracking
    /\ connected' = FALSE
    /\ lifecycle' = IF connected THEN "Disconnected" ELSE lifecycle
    /\ op' = NoOp
    /\ CloseLink(outbound, inbound)

\* The operation ends without touching the session.
EndOperation == op' = NoOp /\ UNCHANGED <<connected, lifecycle>>

Write(kind) == /\ outbound' = Append(outbound, [kind |-> kind, id |-> nextId])
               /\ nextId' = nextId + 1

Consume == inbound' = Tail(inbound) /\ UNCHANGED outbound

Serve(p) == served' = [by |-> [kind |-> op.kind, id |-> op.id], re |-> p.re]

CanWrite == nextId <= MaxRequests /\ Len(outbound) < MaxInFlight

-----------------------------------------------------------------------------
ClientInit ==
    /\ TrackerInit
    /\ connected = FALSE /\ syncState = "Idle" /\ deferredSync = NoPacket
    /\ op = NoOp /\ outbound = <<>> /\ inbound = <<>>
    /\ nextId = 1 /\ lifecycle = "none"
    /\ served = [by |-> NoRequest, re |-> NoRequest]
    /\ faults \in FaultSets

\* connect and reconnect up to the APP_START write: both start from cleared
\* tracking, and reconnect reports the end of the session it replaces.
OpenSession ==
    /\ Idle /\ CanWrite
    /\ ClearTracking /\ ClearSyncTracking
    /\ connected' = TRUE
    /\ lifecycle' = IF connected THEN "Disconnected" ELSE lifecycle
    /\ op' = Operation("init", nextId, NoCode, 0)
    /\ nextId' = nextId + 1
    /\ \E sent \in {<<>>} \cup {s \in {outbound} : "carry" \in faults} :
           outbound' = Append(sent, [kind |-> "init", id |-> nextId])
    /\ \E read \in {<<>>} \cup {s \in {inbound} : "carry" \in faults} :
           inbound' = read
    /\ UNCHANGED served

\* The transport does not open, or opens and rejects the write.
OpenSessionFails ==
    /\ Idle
    /\ ClearTracking /\ ClearSyncTracking /\ CloseLink(outbound, inbound)
    /\ connected' = FALSE
    /\ lifecycle' \in IF connected THEN {"Disconnected"} ELSE {lifecycle, "Disconnected"}
    /\ UNCHANGED <<op, nextId, served>>

\* connect() on an open session: the tracking is cleared first, then the
\* transport reports AlreadyExists and the session goes on.
ConnectAgain ==
    /\ "connect_twice" \in faults
    /\ Idle /\ connected
    /\ ClearTracking /\ ClearSyncTracking
    /\ UNCHANGED <<connected, op, linkVars, nextId, lifecycle, served>>

\* disconnect(), also as the actor calls it on an operation it interrupts.
Disconnect == /\ op.kind # "drain"
              /\ MarkDisconnected
              /\ UNCHANGED <<nextId, served>>

\* Mutant: requests are written although a sync answer is outstanding.
BeginRequestUnguarded(kind) ==
    /\ Idle /\ connected /\ CanWrite
    /\ Write(kind)
    /\ op' = Operation(kind, nextId, NoCode, 0)
    /\ UNCHANGED <<sessionVars, inbound, lifecycle, served, trackerVars>>

\* An ordinary request: send_raw refuses while a sync answer is outstanding.
BeginRequest(kind) ==
    /\ Idle /\ connected /\ CanWrite
    /\ syncState # "AwaitingResponse"
    /\ Write(kind)
    /\ op' = Operation(kind, nextId, NoCode, 0)
    /\ UNCHANGED <<sessionVars, inbound, lifecycle, served, trackerVars>>

\* reboot and factory_reset: written, then the session is closed.
SendDisconnectCommand ==
    /\ "bye" \in Kinds
    /\ Idle /\ connected /\ CanWrite
    /\ syncState # "AwaitingResponse"
    /\ nextId' = nextId + 1
    /\ ClearTracking /\ ClearSyncTracking
    /\ connected' = FALSE /\ lifecycle' = "Disconnected"
    /\ CloseLink(Append(outbound, [kind |-> "bye", id |-> nextId]), inbound)
    /\ UNCHANGED <<op, served>>

\* A terminal write error, of a request or of the sync command.
WriteFails ==
    /\ connected
    /\ \/ Idle /\ syncState # "AwaitingResponse"
       \/ op.kind = "drain" /\ inbound = <<>> /\ syncState # "AwaitingResponse"
    /\ MarkDisconnected
    /\ UNCHANGED <<nextId, served>>

\* sync_next_message: a kept answer is returned at once; otherwise what is
\* already buffered is drained before anything is written.
BeginSync ==
    /\ Idle /\ connected
    /\ IF deferredSync # NoPacket
       THEN /\ deferredSync' = NoPacket
            /\ served' = [by |-> [kind |-> "sync", id |-> 0], re |-> deferredSync.re]
            /\ UNCHANGED op
       ELSE /\ syncState = "Idle" => CanWrite
            /\ op' = Operation("drain", 0, NoCode, 0)
            /\ UNCHANGED <<deferredSync, served>>
    /\ UNCHANGED <<connected, syncState, linkVars, nextId, lifecycle, trackerVars>>

\* One iteration of drain_ready_packets_before_sync with a packet ready.
DrainPacket ==
    /\ op.kind = "drain" /\ inbound # <<>>
    /\ LET p == Head(inbound)
       IN  \/ /\ p.type = "Malformed"
              /\ EndOperation
              /\ UNCHANGED <<syncState, deferredSync, served, trackerVars>>
           \/ /\ p.type \in SyncTypes
              /\ syncState' = "Idle"
              /\ served' = [by |-> [kind |-> "sync", id |-> 0], re |-> p.re]
              /\ EndOperation
              /\ UNCHANGED <<deferredSync, trackerVars>>
           \/ /\ p.type \notin SyncTypes \cup {"Malformed"}
              /\ PublishAndTrack(p)
              /\ IF op.n = DrainCapacity
                 THEN EndOperation
                 ELSE op' = [op EXCEPT !.n = @ + 1] /\ UNCHANGED <<connected, lifecycle>>
              /\ UNCHANGED served
    /\ Consume
    /\ UNCHANGED nextId

\* Nothing is buffered: wait for the outstanding answer, or record it as
\* outstanding and write the command.
DrainDone ==
    /\ op.kind = "drain" /\ inbound = <<>>
    /\ \/ /\ syncState = "AwaitingResponse"
          /\ op' = Operation("sync", 0, NoCode, 0)
          /\ UNCHANGED <<syncState, outbound, nextId>>
       \/ /\ syncState = "Idle"
          /\ syncState' = "AwaitingResponse"
          /\ Write("sync")
          /\ op' = Operation("sync", nextId, NoCode, 0)
    /\ UNCHANGED <<connected, deferredSync, inbound, lifecycle, served, trackerVars>>

\* wait_for_ack: an ACK that has arrived is returned at once.
BeginWaitForAck(c) ==
    /\ Idle /\ connected
    /\ IF c \in completedAcks
       THEN TakeCompletedAck(c) /\ UNCHANGED op
       ELSE op' = Operation("ack", 0, c, 0) /\ UNCHANGED trackerVars
    /\ UNCHANGED <<sessionVars, linkVars, nextId, lifecycle, served>>

-----------------------------------------------------------------------------
(* Reading, one packet per action.                                         *)

Reading == op.kind \notin {"none", "drain"}

\* Ends the operation with an error: init gives the session up, wait_for_ack
\* gives its code up, the others leave everything as it is.
FailOperation ==
    \/ /\ op.kind = "init"
       /\ ClearTracking /\ ClearSyncTracking
       /\ connected' = FALSE /\ lifecycle' = "Disconnected" /\ op' = NoOp
    \/ /\ op.kind = "ack"
       /\ AbandonAck(op.code)
       /\ EndOperation /\ UNCHANGED <<syncState, deferredSync>>
    \/ /\ op.kind \notin {"init", "ack"}
       /\ EndOperation /\ UNCHANGED <<syncState, deferredSync, trackerVars>>

\* A packet that does not parse, or a read error that is not terminal.
ReadMalformed ==
    /\ Reading /\ inbound # <<>> /\ Head(inbound).type = "Malformed"
    /\ FailOperation
    /\ IF op.kind = "init" THEN CloseLink(outbound, Tail(inbound)) ELSE Consume
    /\ UNCHANGED <<nextId, served>>

\* The packet the read loop waits for.
ReadAccepted ==
    /\ op.kind \in DOMAIN Accepts /\ inbound # <<>>
    /\ LET p == Head(inbound)
       IN  /\ p.type \in Accepts[op.kind]
           /\ Serve(p)
           /\ syncState' = IF op.kind = "sync" THEN "Idle" ELSE syncState
           /\ lifecycle' = IF op.kind = "init" THEN "Connected" ELSE lifecycle
           /\ IF op.kind = "send" THEN TrackSent(p.code) ELSE UNCHANGED trackerVars
           /\ op' = IF op.kind = "remote"
                    THEN Operation("response", op.id, p.code, 0) ELSE NoOp
    /\ Consume
    /\ UNCHANGED <<connected, deferredSync, nextId>>

\* A packet the read loop turns into an error.
ReadRejected ==
    /\ op.kind \in DOMAIN Rejects /\ inbound # <<>>
    /\ Head(inbound).type \in Rejects[op.kind]
    /\ Serve(Head(inbound))
    /\ IF op.kind = "sync"
       THEN syncState' = "Idle" /\ EndOperation /\ UNCHANGED <<deferredSync, trackerVars>>
       ELSE FailOperation
    /\ IF op.kind = "init" THEN CloseLink(outbound, Tail(inbound)) ELSE Consume
    /\ UNCHANGED nextId

\* Any other packet is published and tracked, and the loop goes on.
ReadOther ==
    /\ op.kind \in DOMAIN Accepts /\ inbound # <<>>
    /\ Head(inbound).type \notin Accepts[op.kind] \cup Rejects[op.kind] \cup {"Malformed"}
    /\ PublishAndTrack(Head(inbound))
    /\ Consume
    /\ UNCHANGED <<connected, op, nextId, lifecycle, served>>

\* wait_for_packet of a remote request: the tagged response, a rejection, or
\* something else.
ReadResponse ==
    /\ op.kind = "response" /\ inbound # <<>> /\ Head(inbound).type # "Malformed"
    /\ LET p == Head(inbound)
       IN  \/ /\ \/ p.type = "BinaryResponse" /\ p.code = op.code
                 \/ p.type \in {"Disabled", "Error"}
              /\ FailOperation
           \/ /\ ~ (p.type = "BinaryResponse" /\ p.code = op.code)
              /\ p.type \notin {"Disabled", "Error"}
              /\ PublishAndTrack(p)
              /\ UNCHANGED <<connected, op, lifecycle>>
    /\ Consume
    /\ UNCHANGED <<nextId, served>>

\* wait_for_ack: its own ACK ends it, and so does any ERROR, which is not
\* kept for an outstanding sync; another ACK is tracked, another MSG_SENT not.
ReadAwaitingAck ==
    /\ op.kind = "ack" /\ inbound # <<>> /\ Head(inbound).type # "Malformed"
    /\ LET p == Head(inbound)
       IN  \/ /\ p.type = "Ack" /\ p.code = op.code
              /\ MatchWaitedAck(p.code)
              /\ EndOperation /\ UNCHANGED <<syncState, deferredSync>>
           \/ /\ p.type = "Ack" /\ p.code # op.code
              /\ PublishAndTrack(p)
              /\ UNCHANGED <<connected, op, lifecycle>>
           \/ /\ p.type = "Error"
              /\ FailOperation
           \/ /\ p.type \notin {"Ack", "Error"}
              /\ RetainSyncResponse(p)
              /\ UNCHANGED <<connected, op, lifecycle, trackerVars>>
    /\ Consume
    /\ UNCHANGED <<nextId, served>>

\* next_event, which the actor calls between operations.
NextEvent ==
    /\ Idle /\ connected /\ inbound # <<>>
    /\ IF Head(inbound).type = "Malformed"
       THEN UNCHANGED <<syncState, deferredSync, trackerVars>>
       ELSE PublishAndTrack(Head(inbound))
    /\ Consume
    /\ UNCHANGED <<connected, op, nextId, lifecycle, served>>

\* The peer closed, or a terminal read error, met by whoever reads.
ReadFails == /\ connected /\ MarkDisconnected /\ UNCHANGED <<nextId, served>>

\* read_next_packet_with_timeout: the time since the last packet runs out.
\* Without the fault "late" an ordinary command is answered in time or never.
RequestTimeout ==
    /\ op.kind \in DOMAIN Accepts /\ inbound = <<>>
    /\ \/ op.kind = "sync" \/ "late" \in faults \/ outbound = <<>>
    /\ FailOperation
    /\ IF op.kind = "init" THEN CloseLink(outbound, inbound) ELSE UNCHANGED linkVars
    /\ UNCHANGED <<nextId, served>>

\* Mutant: wait_for_ack has no deadline of its own.
OnlyResponseExpires ==
    /\ op.kind = "response"
    /\ FailOperation
    /\ UNCHANGED <<linkVars, nextId, served>>

\* wait_for_ack and wait_for_packet: one deadline for the whole wait.
DeadlineExpires ==
    /\ op.kind \in {"ack", "response"}
    /\ FailOperation
    /\ UNCHANGED <<linkVars, nextId, served>>

\* The caller drops the future of a wait_for_ack or of a sync.
DropOperation == /\ op.kind \in {"ack", "sync"}
                 /\ EndOperation
                 /\ UNCHANGED <<syncState, deferredSync, linkVars, nextId, served, trackerVars>>

-----------------------------------------------------------------------------
(* The companion (external): modelled from what the client expects of it.  *)

CanSend == Len(inbound) < MaxInFlight
Send(p) == inbound' = Append(inbound, p)

\* One answer per command, in order.
CompanionAnswers ==
    /\ outbound # <<>> /\ CanSend
    /\ LET cmd == Head(outbound)
       IN  \E type \in Answers(cmd.kind) :
           \E code \in IF type = "MsgSent" THEN Codes ELSE {NoCode} :
               Send(Packet(type, code, cmd))
    /\ outbound' = Tail(outbound)
    /\ UNCHANGED <<sessionVars, op, nextId, lifecycle, served, trackerVars>>

\* A command it does not answer: a reset, or one it lost.
CompanionIsMute ==
    /\ outbound # <<>>
    /\ "mute" \in faults \/ Head(outbound).kind = "bye"
    /\ outbound' = Tail(outbound)
    /\ UNCHANGED <<sessionVars, op, inbound, nextId, lifecycle, served, trackerVars>>

\* Unsolicited packets: ACKs, tagged responses and pushes.
CompanionPushes ==
    /\ connected /\ CanSend
    /\ \/ Send(Packet("Push", NoCode, NoRequest))
       \/ \E c \in Codes : \/ Send(Packet("Ack", c, NoRequest))
                           \/ "remote" \in Kinds /\ Send(Packet("BinaryResponse", c, NoRequest))
       \/ "malformed" \in faults /\ Send(Packet("Malformed", NoCode, NoRequest))
    /\ UNCHANGED <<sessionVars, op, outbound, nextId, lifecycle, served, trackerVars>>

ClientStep == \/ ReadMalformed \/ ReadAccepted \/ ReadRejected \/ ReadOther
              \/ ReadResponse \/ ReadAwaitingAck
              \/ DrainPacket \/ DrainDone

Act ==
    \/ OpenSession \/ OpenSessionFails \/ ConnectAgain \/ Disconnect
    \/ \E kind \in Kinds \ {"bye"} : BeginRequest(kind)
    \/ SendDisconnectCommand \/ WriteFails \/ BeginSync
    \/ \E c \in Codes : BeginWaitForAck(c)
    \/ ClientStep
    \/ NextEvent \/ ReadFails
    \/ RequestTimeout \/ DeadlineExpires \/ DropOperation
    \/ CompanionAnswers \/ CompanionIsMute \/ CompanionPushes

InThisEnvironment(A) == A /\ UNCHANGED faults

ClientNext == InThisEnvironment(Act)

ClientSpec == ClientInit /\ [][ClientNext]_clientVars

\* The runtime polls the task that holds the client and fires its timers; the
\* companion handles the commands it receives even while it pushes packets.
ClientFairness == /\ WF_clientVars(InThisEnvironment(ClientStep))
                  /\ WF_clientVars(InThisEnvironment(RequestTimeout))
                  /\ WF_clientVars(InThisEnvironment(DeadlineExpires))
                  /\ SF_clientVars(InThisEnvironment(CompanionAnswers \/ CompanionIsMute))

FairClientSpec == ClientSpec /\ ClientFairness

-----------------------------------------------------------------------------
Requests == [kind : OrdinaryKinds \cup {"init", "sync", "none"}, id : 0 .. MaxRequests]
IsPacket(p) == /\ DOMAIN p = {"type", "code", "re"}
               /\ p.code \in Codes \cup {NoCode} /\ p.re \in Requests

\* Every variable has its type and the bounds of the model hold.
ClientTypeOK ==
    /\ connected \in BOOLEAN /\ syncState \in {"Idle", "AwaitingResponse"}
    /\ IsPacket(deferredSync)
    /\ op.kind \in {"none", "drain", "ack", "response"} \cup DOMAIN Accepts
    /\ op.n \in 0 .. DrainCapacity /\ op.code \in Codes \cup {NoCode}
    /\ \A i \in DOMAIN outbound : outbound[i] \in Requests
    /\ \A i \in DOMAIN inbound : IsPacket(inbound[i])
    /\ nextId \in 1 .. MaxRequests + 1
    /\ lifecycle \in {"none", "Connected", "Disconnected"}

\* Answers come in time, parse, and die with their session: what the companion protocol, which
\* has no request tags, takes for granted.
Prompt == faults \subseteq {"refuse", "mute"}

SyncInFlight == \/ \E i \in DOMAIN outbound : outbound[i].kind = "sync"
                \/ \E i \in DOMAIN inbound : inbound[i].re.kind = "sync"

\* A sync answer is outstanding only while the client knows it: no other
\* operation can begin in a session that still owes one (docs/architecture.md:
\* the client "blocks later commands until that one response is consumed").
SyncAnswerIsExpected ==
    Prompt /\ connected /\ op.kind # "init" /\ SyncInFlight => syncState = "AwaitingResponse"

\* Conversely the client blocks commands only while the answer is really on
\* its way.  This does not hold: wait_for_ack takes the ERROR that answers an
\* outstanding sync for its own failure and leaves syncState as it is.
BlockedOnlyWhileOutstanding ==
    connected /\ Idle /\ syncState = "AwaitingResponse" => SyncInFlight

\* A request ends on the answer to itself, a sync on the answer to a sync
\* command and a handshake on the answer to a handshake: serialization makes
\* up for the missing request tags (ADR 0004).
AnswerMatchesRequest ==
    \/ ~Prompt
    \/ served.by = served.re
    \/ served.by.kind \in {"sync", "init"} /\ served.re.kind = served.by.kind

\* Never are two sync commands unanswered, and a kept answer is handed out
\* before the next command is written.
OneSyncAtATime ==
    Prompt =>
    /\ deferredSync # NoPacket => syncState = "Idle" /\ ~SyncInFlight
    /\ \A i, j \in DOMAIN outbound :
           outbound[i].kind = "sync" /\ outbound[j].kind = "sync" => i = j

\* A disconnected client remembers nothing of the session it lost.
DisconnectedIsClean ==
    ~connected => /\ pendingAcks = {} /\ completedAcks = {}
                  /\ syncState = "Idle" /\ deferredSync = NoPacket
                  /\ Idle

\* What subscribers were last told is what holds: Connected exactly while an
\* initialized session is open.
LifecycleIsCurrent ==
    lifecycle = "Connected" <=> connected /\ op.kind # "init"

\* A handshake, a request or a wait for an ACK always ends: by its answer, its
\* timer or the loss of the link ("CoreError::Timeout when no response arrives
\* in time").  On a link that stays busy this does not hold, because the timer
\* restarts with every packet.
RequestEnds == (op.kind \notin {"none", "drain", "sync"}) ~> Idle

\* It does at least on a link that falls quiet: whatever commands the
\* companion loses, and whatever else the client reads first, no operation
\* waits for ever.
RequestEndsWhenQuiet ==
    (<>[][~CompanionPushes]_clientVars) => RequestEnds

\* Every answer reaches the request it belongs to, although none carries a tag.
AnswersAreMatched == SyncAnswerIsExpected /\ AnswerMatchesRequest /\ OneSyncAtATime

\* A session begins with nothing of the one before, and subscribers know it.
SessionsAreSeparate == ClientTypeOK /\ DisconnectedIsClean /\ LifecycleIsCurrent
=============================================================================
