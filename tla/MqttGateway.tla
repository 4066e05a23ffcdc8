---------------------------- MODULE MqttGateway -----------------------------
(***************************************************************************)
(* The MQTT gateway of meshquill-mqtt (runner.rs): the worker task that    *)
(* polls the broker session, the runner task that connects it to the       *)
(* application, and the four bounded channels between worker, runner,      *)
(* application and rumqttc, all of channel_capacity.                       *)
(*                                                                         *)
(* The event-ID cache (EventIdDedupe) is used well within its capacity and *)
(* its TTL here: an ID it has accepted is remembered.                      *)
(***************************************************************************)
EXTENDS Naturals, Sequences

CONSTANTS EventIds,          \* event IDs of outbound commands
          ChannelCapacity,   \* MqttConfig::channel_capacity
          AllowSend          \* MqttConfig::allow_send

ASSUME GatewayAssumption == ChannelCapacity \in Nat \ {0} /\ AllowSend \in BOOLEAN

VARIABLES
    up,             \* the worker's `connected`
    subscribing,    \* the broker owes a SUBACK (external)
    worker,         \* [at, held]: where poll_event_loop is, the notice it sends
    network,        \* worker -> runner
    runner,         \* [at, todo]: where run() is, the rest of the current handler
    publications,   \* application -> runner: how many are waiting
    notices,        \* runner -> application
    requests,       \* runner -> rumqttc
    remembered,     \* event IDs in the processor's cache
    cancelled       \* the CancellationToken shared by all tasks

brokerVars == <<up, subscribing>>
gatewayVars == <<brokerVars, worker, network, runner, publications, notices, requests,
                 remembered, cancelled>>

NoId == "no id"
Notice(type, id) == [type |-> type, id |-> id]
NoNotice == Notice("none", NoId)
State(type) == Notice(type, NoId)

\* The suspension points of the runner's handlers.
SendNotice(n) == [do |-> "notice", arg |-> n]
SendRequest(what) == [do |-> "request", arg |-> what]

Room(channel) == Len(channel) < ChannelCapacity

GatewayInit ==
    /\ up = FALSE /\ subscribing = FALSE
    /\ worker = [at |-> "poll", held |-> NoNotice]
    /\ network = <<>> /\ notices = <<>> /\ requests = <<>> /\ publications = 0
    /\ runner = [at |-> "run", todo |-> <<>>]
    /\ remembered = {} /\ cancelled = FALSE

-----------------------------------------------------------------------------
(* poll_event_loop.                                                        *)

Hold(n) == worker' = [at |-> "send", held |-> n]
Polling == worker.at = "poll" /\ ~cancelled
WorkerUnchanged == UNCHANGED <<network, runner, publications, notices, requests,
                               remembered, cancelled>>

WorkerConnAck == /\ Polling /\ ~up
                 /\ up' = TRUE /\ Hold(State("Connected"))
                 /\ UNCHANGED subscribing /\ WorkerUnchanged

WorkerReceives(id) == /\ Polling /\ up /\ AllowSend
                      /\ Hold(Notice("Publish", id))
                      /\ UNCHANGED brokerVars /\ WorkerUnchanged

WorkerSubAck == /\ Polling /\ up /\ subscribing
                /\ subscribing' = FALSE
                /\ \E type \in {"CommandReady", "SubscriptionRejected"} : Hold(State(type))
                /\ UNCHANGED up /\ WorkerUnchanged

\* rumqttc writes a queued request to the broker; the event is not forwarded.
WorkerFlushes == /\ Polling /\ up /\ requests # <<>>
                 /\ subscribing' = (subscribing \/ Head(requests) = "subscribe")
                 /\ requests' = Tail(requests)
                 /\ UNCHANGED <<up, worker, network, runner, publications, notices,
                                remembered, cancelled>>

\* poll() fails: reported once per connection, then the backoff.
WorkerError == /\ Polling
               /\ up' = FALSE /\ subscribing' = FALSE
               /\ IF up THEN Hold(State("Disconnected"))
                        ELSE worker' = [worker EXCEPT !.at = "backoff"]
               /\ WorkerUnchanged

WorkerBackoffEnds == /\ worker.at = "backoff" /\ ~cancelled
                     /\ worker' = [worker EXCEPT !.at = "poll"]
                     /\ UNCHANGED brokerVars /\ WorkerUnchanged

\* send_network_notice, waiting for room in the channel.
WorkerSends ==
    /\ worker.at = "send" /\ ~cancelled /\ Room(network)
    /\ network' = Append(network, worker.held)
    /\ worker' = [at |-> IF worker.held.type = "Disconnected" THEN "backoff" ELSE "poll",
                  held |-> NoNotice]
    /\ UNCHANGED <<brokerVars, runner, publications, notices, requests, remembered, cancelled>>

WorkerStops == /\ cancelled /\ worker.at # "stopped"
               /\ worker' = [at |-> "stopped", held |-> NoNotice]
               /\ UNCHANGED brokerVars /\ WorkerUnchanged

-----------------------------------------------------------------------------
(* process and handle_network_notice.                                      *)

Selecting == runner.at = "run" /\ runner.todo = <<>> /\ ~cancelled
RunnerUnchanged == UNCHANGED <<brokerVars, worker>>

\* Mutant: the worker is joined without being told to end.
LeaveUncancelled == /\ runner' = [at |-> "joining", todo |-> <<>>]
                    /\ UNCHANGED cancelled

\* run() after process() has ended in whatever way.
Leave == runner' = [at |-> "joining", todo |-> <<>>] /\ cancelled' = TRUE

RunnerTakesPublication ==
    /\ Selecting /\ publications > 0
    /\ publications' = publications - 1
    /\ runner' = [runner EXCEPT !.todo = <<SendRequest("publish")>>]
    /\ UNCHANGED <<network, notices, requests, remembered, cancelled>> /\ RunnerUnchanged

\* What a network notice makes the runner do.
Handler(n) ==
    CASE n.type = "Connected" ->
             <<SendNotice(n)>> \o (IF AllowSend THEN <<SendRequest("subscribe")>> ELSE <<>>)
                               \o <<SendRequest("publish")>>
      [] n.type = "Disconnected" -> <<SendNotice(n), SendRequest("publish")>>
      [] n.type = "CommandReady" -> <<SendNotice(n)>>
      [] n.type = "Publish"      -> <<SendNotice(Notice("Command", n.id))>>

Accepted(n) == n.type = "Publish" /\ n.id \in EventIds /\ n.id \notin remembered
Refused(n) == n.type = "Publish" /\ ~Accepted(n)

\* Mutant: the cache check does not retain the ID.
RunnerTakesWithoutRetaining ==
    /\ Selecting /\ publications = 0 /\ network # <<>>
    /\ ~Refused(Head(network)) /\ Head(network).type # "SubscriptionRejected"
    /\ runner' = [runner EXCEPT !.todo = Handler(Head(network))]
    /\ network' = Tail(network)
    /\ UNCHANGED <<publications, notices, requests, remembered, cancelled>>
    /\ RunnerUnchanged

\* A notice that starts a handler; publications come first (biased select).
RunnerTakesNotice ==
    /\ Selecting /\ publications = 0 /\ network # <<>>
    /\ LET n == Head(network)
       IN  /\ ~Refused(n) /\ n.type # "SubscriptionRejected"
           /\ remembered' = remembered \cup {id \in {n.id} : Accepted(n)}
           /\ runner' = [runner EXCEPT !.todo = Handler(n)]
    /\ network' = Tail(network)
    /\ UNCHANGED <<publications, notices, requests, cancelled>> /\ RunnerUnchanged

\* A retained, malformed or repeated command: try_send_rejection drops the
\* report when the channel is full.
RunnerRefuses ==
    /\ Selecting /\ publications = 0 /\ network # <<>> /\ Refused(Head(network))
    /\ notices' = IF Room(notices) THEN Append(notices, State("Rejected")) ELSE notices
    /\ network' = Tail(network)
    /\ UNCHANGED <<runner, publications, requests, remembered, cancelled>> /\ RunnerUnchanged

RunnerSubscriptionRejected ==
    /\ Selecting /\ publications = 0 /\ network # <<>>
    /\ Head(network).type = "SubscriptionRejected"
    /\ network' = Tail(network) /\ Leave
    /\ UNCHANGED <<publications, notices, requests, remembered>> /\ RunnerUnchanged

NextIs(do) == runner.at = "run" /\ runner.todo # <<>> /\ Head(runner.todo).do = do

\* Mutant: try_send for every notice.
RunnerOffersNotice ==
    /\ NextIs("notice") /\ ~cancelled
    /\ notices' = IF Room(notices) THEN Append(notices, Head(runner.todo).arg) ELSE notices
    /\ runner' = [runner EXCEPT !.todo = Tail(@)]
    /\ UNCHANGED <<network, publications, requests, remembered, cancelled>> /\ RunnerUnchanged

\* send_notice, waiting for room; nothing else is served meanwhile.
RunnerSendsNotice ==
    /\ NextIs("notice") /\ ~cancelled /\ Room(notices)
    /\ notices' = Append(notices, Head(runner.todo).arg)
    /\ runner' = [runner EXCEPT !.todo = Tail(@)]
    /\ UNCHANGED <<network, publications, requests, remembered, cancelled>> /\ RunnerUnchanged

\* await_broker_operation: queued in rumqttc ...
RunnerQueuesRequest ==
    /\ NextIs("request") /\ ~cancelled /\ Room(requests)
    /\ requests' = Append(requests, Head(runner.todo).arg)
    /\ runner' = [runner EXCEPT !.todo = Tail(@)]
    /\ UNCHANGED <<network, publications, notices, remembered, cancelled>> /\ RunnerUnchanged

\* ... or no room within broker_operation_timeout_ms, which ends the runner.
RunnerTimesOut ==
    /\ NextIs("request") /\ ~cancelled /\ ~Room(requests)
    /\ Leave
    /\ UNCHANGED <<network, publications, notices, requests, remembered>> /\ RunnerUnchanged

\* Cancellation, in the select or at a suspension point of a handler.
RunnerCancelled ==
    /\ runner.at = "run" /\ cancelled /\ Leave
    /\ UNCHANGED <<network, publications, notices, requests, remembered>> /\ RunnerUnchanged

\* run() joins the worker and drops its ends of the channels.
RunnerStops ==
    /\ runner.at = "joining" /\ worker.at = "stopped"
    /\ runner' = [runner EXCEPT !.at = "stopped"]
    /\ UNCHANGED <<network, publications, notices, requests, remembered, cancelled>>
    /\ RunnerUnchanged

-----------------------------------------------------------------------------
WorkerProgress == WorkerFlushes \/ WorkerBackoffEnds \/ WorkerSends \/ WorkerStops
RunnerProgress == \/ RunnerTakesPublication \/ RunnerTakesNotice \/ RunnerRefuses
                  \/ RunnerSubscriptionRejected \/ RunnerSendsNotice
                  \/ RunnerQueuesRequest \/ RunnerTimesOut \/ RunnerCancelled \/ RunnerStops
BrokerStep == \/ WorkerConnAck \/ WorkerSubAck \/ WorkerError
              \/ \E id \in EventIds \cup {NoId} : WorkerReceives(id)

GatewayNext == WorkerProgress \/ RunnerProgress \/ BrokerStep
=============================================================================
