----------------------------- MODULE MqttBridge -----------------------------
(***************************************************************************)
(* `meshquill mqtt bridge` (mqtt_cli.rs): the foreground loop between the  *)
(* MQTT gateway and the managed client.  It publishes device events and    *)
(* snapshots, executes the commands the gateway has accepted, and ends on  *)
(* Ctrl-C, on the loss of the device, on an error, or with the gateway.    *)
(*                                                                         *)
(* Queries and sends to the device always come back (ManagedActor), so a   *)
(* handler suspends for good only where it publishes.                      *)
(***************************************************************************)
EXTENDS MqttGateway

CONSTANT SnapshotSize   \* publications of a full snapshot (contacts, battery, telemetry)

ASSUME BridgeAssumption == SnapshotSize \in Nat

VARIABLES
    bridge,             \* [at, left]: where mqtt_bridge is, publications left to queue
    reconnectPending,   \* bridge_loop's reconnect_pending
    contactResync,      \* ContactResyncDebounce has a deadline
    deviceLost,         \* the handler at work is that of Event::Disconnected
    reported,           \* history: the last broker state taken from the gateway
    executed,           \* history: [EventIds -> times executed]
    interrupted         \* history: the user has pressed Ctrl-C

loopVars == <<reconnectPending, contactResync, deviceLost>>
historyVars == <<reported, executed, interrupted>>
vars == <<gatewayVars, bridge, loopVars, historyVars>>

\* publish_full_device_snapshot, before the loop begins; a query that fails
\* contributes no publication.
Init == /\ GatewayInit
        /\ bridge \in [at : {"start"}, left : 0 .. SnapshotSize]
        /\ reconnectPending = FALSE /\ contactResync = FALSE /\ deviceLost = FALSE
        /\ reported = "Disconnected" /\ executed = [id \in EventIds |-> 0]
        /\ interrupted = FALSE

At(place) == bridge.at = place
Goto(place, left) == bridge' = [at |-> place, left |-> left]
GatewayUnchanged == UNCHANGED gatewayVars

\* gateway.publish(): waits for room, fails once the gateway is cancelled.
BridgePublishes ==
    /\ bridge.at \in {"start", "work"} /\ bridge.left > 0
    /\ ~cancelled /\ publications < ChannelCapacity
    /\ publications' = publications + 1
    /\ Goto(bridge.at, bridge.left - 1)
    /\ UNCHANGED <<brokerVars, worker, network, runner, notices, requests, remembered,
                   cancelled, loopVars, historyVars>>

PublishCancelled ==
    /\ bridge.at \in {"start", "work"} /\ bridge.left > 0 /\ cancelled
    /\ Goto("closing", 0)
    /\ UNCHANGED <<loopVars, historyVars>> /\ GatewayUnchanged

\* The handler returns to the loop, which the loss of the device ends.
HandlerEnds ==
    /\ bridge.at \in {"start", "work"} /\ bridge.left = 0
    /\ Goto(IF deviceLost THEN "closing" ELSE "select", 0)
    /\ UNCHANGED <<loopVars, historyVars>> /\ GatewayUnchanged

\* A hook, the history or the output fails: `?` ends the loop.
HandlerFails ==
    /\ bridge.at \in {"start", "work"}
    /\ Goto("closing", 0)
    /\ UNCHANGED <<loopVars, historyVars>> /\ GatewayUnchanged

\* events.recv(): most events are published, some only written locally; an
\* opaque contact notification arms the debounce.
DeviceEvent ==
    /\ At("select")
    /\ \E n \in 0 .. 1 : Goto("work", n)
    /\ \/ contactResync' \in {contactResync, TRUE} /\ UNCHANGED deviceLost
       \/ deviceLost' = TRUE /\ UNCHANGED contactResync
    /\ UNCHANGED <<reconnectPending, historyVars>> /\ GatewayUnchanged

\* Nothing is due before the 250 ms tick either: expiring ACKs publishes
\* nothing.
ContactResyncDue ==
    /\ At("select") /\ contactResync
    /\ contactResync' = FALSE
    /\ \E n \in 0 .. 1 : Goto("work", n)
    /\ UNCHANGED <<reconnectPending, deviceLost, historyVars>> /\ GatewayUnchanged

\* recv_notice and handle_gateway_notice, with the decision of
\* broker_reconnect_requires_snapshot taken first.
BridgeTakesNotice ==
    /\ At("select") /\ notices # <<>>
    /\ LET n == Head(notices)
           snapshot == n.type = "Connected" /\ reconnectPending
       IN  /\ \E left \in IF snapshot THEN 0 .. SnapshotSize ELSE {0} : Goto("work", left)
           /\ reconnectPending' = (n.type = "Disconnected" \/ (reconnectPending /\ ~snapshot))
           /\ contactResync' = (contactResync /\ ~snapshot)
           /\ reported' = IF n.type \in {"Connected", "Disconnected"} THEN n.type ELSE reported
           /\ executed' = IF n.type = "Command" THEN [executed EXCEPT ![n.id] = @ + 1]
                                                ELSE executed
    /\ notices' = Tail(notices)
    /\ UNCHANGED <<brokerVars, worker, network, runner, publications, requests, remembered,
                   cancelled, deviceLost, interrupted>>

\* recv_notice returns None: "MQTT gateway stopped unexpectedly".
GatewayGone ==
    /\ At("select") /\ notices = <<>> /\ runner.at = "stopped"
    /\ Goto("closing", 0)
    /\ UNCHANGED <<loopVars, historyVars>> /\ GatewayUnchanged

\* SIGINT once the loop has installed its handler.  Every turn of the loop
\* makes a new tokio::signal::ctrl_c(), which sees the signals that arrive
\* while it is polled; during a handler there is none.
CtrlC ==
    /\ ~interrupted /\ bridge.at \in {"select", "work"}
    /\ interrupted' = TRUE
    /\ IF At("select") THEN Goto("closing", 0) ELSE UNCHANGED bridge
    /\ UNCHANGED <<loopVars, reported, executed>> /\ GatewayUnchanged

\* gateway.cancel(), then the shutdown of the client.
BridgeCloses ==
    /\ At("closing")
    /\ cancelled' = TRUE /\ Goto("joining", 0)
    /\ UNCHANGED <<brokerVars, worker, network, runner, publications, notices, requests,
                   remembered, loopVars, historyVars>>

\* join_gateway
BridgeStops ==
    /\ At("joining") /\ runner.at = "stopped"
    /\ Goto("stopped", 0)
    /\ UNCHANGED <<loopVars, historyVars>> /\ GatewayUnchanged

\* ... which aborts a runner that has not ended within its timeout.
JoinTimesOut ==
    /\ At("joining") /\ runner.at # "stopped"
    /\ runner' = [at |-> "stopped", todo |-> <<>>]
    /\ Goto("stopped", 0)
    /\ UNCHANGED <<brokerVars, worker, network, publications, notices, requests, remembered,
                   cancelled, loopVars, historyVars>>

GatewaySteps == GatewayNext /\ UNCHANGED <<bridge, loopVars, historyVars>>

BridgeProgress == \/ BridgePublishes \/ PublishCancelled \/ HandlerEnds
                  \/ BridgeCloses \/ BridgeStops \/ JoinTimesOut

Next == \/ GatewaySteps \/ BridgeProgress
        \/ HandlerFails \/ DeviceEvent \/ ContactResyncDue \/ CtrlC
        \/ BridgeTakesNotice \/ GatewayGone

Spec == Init /\ [][Next]_vars

\* The runtime polls every task that can go on, and the loop's select, which
\* starts at a random branch, does not pass over the gateway for ever.
Fairness == /\ WF_vars(WorkerProgress /\ UNCHANGED <<bridge, loopVars, historyVars>>)
            /\ WF_vars(RunnerProgress /\ UNCHANGED <<bridge, loopVars, historyVars>>)
            /\ WF_vars(BridgeProgress)
            /\ SF_vars(BridgeTakesNotice) /\ SF_vars(GatewayGone)

FairSpec == Spec /\ Fairness

-----------------------------------------------------------------------------
\* Every variable has its type and no channel holds more than its capacity.
TypeOK ==
    /\ up \in BOOLEAN /\ subscribing \in BOOLEAN /\ cancelled \in BOOLEAN
    /\ worker.at \in {"poll", "send", "backoff", "stopped"}
    /\ runner.at \in {"run", "joining", "stopped"} /\ Len(runner.todo) <= 3
    /\ Len(network) <= ChannelCapacity /\ Len(notices) <= ChannelCapacity
    /\ Len(requests) <= ChannelCapacity /\ publications \in 0 .. ChannelCapacity
    /\ remembered \subseteq EventIds
    /\ bridge.at \in {"start", "select", "work", "closing", "joining", "stopped"}
    /\ bridge.left \in 0 .. (IF SnapshotSize > 0 THEN SnapshotSize ELSE 1)

\* The steps of a handler as the loop will see them: a request is no notice.
NoticesIn(todo) ==
    [i \in DOMAIN todo |-> IF todo[i].do = "notice" THEN todo[i].arg ELSE NoNotice]

\* Everything on its way from the broker to the loop, oldest first.
Pipeline == notices \o NoticesIn(runner.todo) \o network \o <<worker.held>>

LinkStates == {"Connected", "Disconnected"}

\* Who knows the state `from` of the connection and takes n knows the state `to`; a notice about the
\* connection always reports a change of it.
Changes(from, n, to) ==
    IF n.type \in LinkStates THEN to = n.type /\ from # to ELSE to = from

\* The same for the notices of seq, one after the other.
Leads(from, seq, to) ==
    \E known \in [0 .. Len(seq) -> LinkStates] :
        /\ known[0] = from /\ known[Len(seq)] = to
        /\ \A i \in 1 .. Len(seq) : Changes(known[i - 1], seq[i], known[i])

LinkState == IF up THEN "Connected" ELSE "Disconnected"

\* Across two tasks and two channels the changes of the broker connection
\* arrive complete and in order: the loop sees them alternate, and once it
\* has caught up it knows the state the worker knows.  The reconnect snapshot
\* depends on it.
LinkChangesAreComplete == ~cancelled => Leads(reported, Pipeline, LinkState)

Underway(id) ==
    {i \in DOMAIN (notices \o NoticesIn(runner.todo)) :
        (notices \o NoticesIn(runner.todo))[i] = Notice("Command", id)}

\* A command the gateway has accepted is executed once, however often the
\* broker delivers it, and is not lost between the cache and the loop.
ExactlyOnce ==
    /\ \A id \in EventIds : executed[id] <= 1 /\ (executed[id] = 1 => id \in remembered)
    /\ ~cancelled => \A id \in remembered :
           executed[id] = 1 <=> Underway(id) = {}

\* However it comes to an end - an error of the runner, an error of the loop,
\* the loss of the device - every task ends, none waiting for another.
EndStopsAll ==
    (cancelled \/ runner.at # "run" \/ At("closing"))
        ~> worker.at = "stopped" /\ runner.at = "stopped" /\ At("stopped")

\* "Ctrl-C stops both the MeshCore client and broker session." (docs/mqtt.md).
\* This does not hold: a signal during a handler reaches no ctrl_c() future.
CtrlCStopsBridge == interrupted ~> At("stopped")

\* "the first successful connection after each observed broker disconnect
\* publishes one fresh full snapshot" (docs/mqtt.md): a publishing handler,
\* the initial snapshot among them, comes to an end.  This does not hold when both
\* channels are full and bridge and runner wait for each other.
PublishingEnds == (bridge.at \in {"start", "work"}) ~> ~(bridge.at \in {"start", "work"})

\* The channels hold what they may and keep the bridge's view of the broker true.
LinkIsFollowed == TypeOK /\ LinkChangesAreComplete
=============================================================================
