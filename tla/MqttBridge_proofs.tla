------------------------- MODULE MqttBridge_proofs --------------------------
(***************************************************************************)
(* The MQTT bridge, its gateway and its event-ID cache (mqtt_cli.rs,       *)
(* runner.rs, command.rs): whatever the broker does and however full the   *)
(* channels are, the loop sees every change of the broker connection in    *)
(* order and runs every accepted command once, for any capacity, any event *)
(* IDs and any snapshot; and the cache refuses exactly the replays it      *)
(* promises to refuse, for any IDs, capacity and time to live.             *)
(***************************************************************************)
EXTENDS MqttBridge, EventIdDedupe, Queues_proofs, FiniteSetTheorems, TLAPS

-----------------------------------------------------------------------------
(* Notices that lead from one state of the connection to another.          *)

\* No notice, no change.
LEMMA LeadsNowhere ==
    ASSUME NEW a \in LinkStates, NEW s, s = <<>>
    PROVE  Leads(a, s, a)
<1> DEFINE known == [i \in {0} |-> a]
<1>1. Len(s) = 0 /\ 0 .. 0 = {0}
  OBVIOUS
<1>2. known \in [0 .. Len(s) -> LinkStates] /\ known[0] = a /\ known[Len(s)] = a
  BY <1>1
<1>3. \A i \in 1 .. Len(s) : Changes(known[i - 1], s[i], known[i])
  BY <1>1
<1> HIDE DEF known
<1> QED BY <1>2, <1>3, Zenon DEF Leads

\* One more notice behind the others.
LEMMA LeadsFurther ==
    ASSUME NEW S, NEW s \in Seq(S), NEW n \in S, NEW a, NEW b, NEW c \in LinkStates,
           Leads(a, s, b), Changes(b, n, c)
    PROVE  Leads(a, Append(s, n), c)
<1> DEFINE t == Append(s, n)
           l == Len(s)
<1>1. l \in Nat /\ Len(t) = l + 1 /\ t[l + 1] = n /\ \A i \in 1 .. l : t[i] = s[i]
  OBVIOUS
<1>2. PICK known \in [0 .. l -> LinkStates] :
          known[0] = a /\ known[l] = b /\ \A i \in 1 .. l : Changes(known[i - 1], s[i], known[i])
  BY DEF Leads
<1> DEFINE knows == [i \in 0 .. l + 1 |-> IF i = l + 1 THEN c ELSE known[i]]
<1> HIDE DEF t, l
<1>3. knows \in [0 .. l + 1 -> LinkStates]
  BY <1>1, <1>2
<1>4. knows[l + 1] = c /\ \A i \in 0 .. l : knows[i] = known[i]
  BY <1>1
<1> HIDE DEF knows
<1>5. knows[0] = a
  BY <1>1, <1>2, <1>4
<1>6. ASSUME NEW i \in 1 .. l + 1 PROVE Changes(knows[i - 1], t[i], knows[i])
  <2>1. CASE i = l + 1
    <3>1. i - 1 = l /\ l \in 0 .. l
      BY <1>1, <2>1
    <3>2. knows[i - 1] = b /\ t[i] = n /\ knows[i] = c
      BY <1>1, <1>2, <1>4, <2>1, <3>1
    <3> QED BY <3>2
  <2>2. CASE i # l + 1
    <3>1. i \in 1 .. l /\ i \in 0 .. l /\ i - 1 \in 0 .. l
      BY <1>1, <2>2
    <3>2. knows[i - 1] = known[i - 1] /\ knows[i] = known[i] /\ t[i] = s[i]
      BY <1>1, <1>4, <3>1
    <3>3. Changes(known[i - 1], s[i], known[i])
      BY <1>2, <3>1
    <3> QED BY <3>2, <3>3
  <2> QED BY <2>1, <2>2
<1>7. Leads(a, t, c)
  <2>1. Len(t) = l + 1
    BY <1>1
  <2> QED BY <1>3, <1>4, <1>5, <1>6, <2>1 DEF Leads
<1> QED BY <1>7 DEF t

\* The first notice is taken.
LEMMA LeadsOn ==
    ASSUME NEW S, NEW s \in Seq(S), s # <<>>, NEW a, NEW b, Leads(a, s, b)
    PROVE  \E c \in LinkStates : Changes(a, Head(s), c) /\ Leads(c, Tail(s), b)
<1> DEFINE t == Tail(s)
           l == Len(s)
<1>1. l \in Nat /\ l >= 1 /\ Len(t) = l - 1 /\ Head(s) = s[1] /\ \A i \in 1 .. l - 1 : t[i] = s[i + 1]
  OBVIOUS
<1>2. PICK known \in [0 .. l -> LinkStates] :
          known[0] = a /\ known[l] = b /\ \A i \in 1 .. l : Changes(known[i - 1], s[i], known[i])
  BY DEF Leads
<1> DEFINE knows == [i \in 0 .. l - 1 |-> known[i + 1]]
<1> HIDE DEF t, l
<1>3. knows \in [0 .. l - 1 -> LinkStates]
  BY <1>1, <1>2
<1>4. \A i \in 0 .. l - 1 : knows[i] = known[i + 1]
  OBVIOUS
<1> HIDE DEF knows
<1>5. knows[0] = known[1] /\ knows[l - 1] = b
  BY <1>1, <1>2, <1>4
<1>6. ASSUME NEW i \in 1 .. l - 1 PROVE Changes(knows[i - 1], t[i], knows[i])
  <2>1. i \in 0 .. l - 1 /\ i - 1 \in 0 .. l - 1 /\ (i - 1) + 1 = i /\ i + 1 \in 1 .. l /\ (i + 1) - 1 = i
    BY <1>1
  <2>2. knows[i - 1] = known[i] /\ knows[i] = known[i + 1] /\ t[i] = s[i + 1]
    BY <1>1, <1>4, <2>1
  <2>3. Changes(known[i], s[i + 1], known[i + 1])
    BY <1>2, <2>1
  <2> QED BY <2>2, <2>3
<1>7. Leads(known[1], t, b)
  <2>1. Len(t) = l - 1
    BY <1>1
  <2> QED BY <1>3, <1>5, <1>6, <2>1 DEF Leads
<1>8. known[1] \in LinkStates
  BY <1>1, <1>2
<1>9. Changes(a, Head(s), known[1])
  <2>1. 1 \in 1 .. l /\ 1 - 1 = 0
    BY <1>1
  <2>2. Changes(known[1 - 1], s[1], known[1])
    BY <1>2, <2>1
  <2> QED BY <1>1, <1>2, <2>1, <2>2
<1> QED BY <1>7, <1>8, <1>9 DEF t

\* Notices behind notices.
LEMMA LeadsThrough ==
    ASSUME NEW S, NEW s \in Seq(S), NEW t \in Seq(S), NEW a, NEW b, NEW c, Leads(a, s, b), Leads(b, t, c)
    PROVE  Leads(a, s \o t, c)
<1> DEFINE q == s \o t
           l == Len(s)
           m == Len(t)
<1>1. /\ l \in Nat /\ m \in Nat /\ Len(q) = l + m
      /\ (\A i \in 1 .. l : q[i] = s[i]) /\ \A i \in l + 1 .. l + m : q[i] = t[i - l]
  OBVIOUS
<1>2. PICK known \in [0 .. l -> LinkStates] :
          known[0] = a /\ known[l] = b /\ \A i \in 1 .. l : Changes(known[i - 1], s[i], known[i])
  BY DEF Leads
<1>3. PICK more \in [0 .. m -> LinkStates] :
          more[0] = b /\ more[m] = c /\ \A i \in 1 .. m : Changes(more[i - 1], t[i], more[i])
  BY DEF Leads
<1> DEFINE knows == [i \in 0 .. l + m |-> IF i <= l THEN known[i] ELSE more[i - l]]
<1> HIDE DEF q, l, m
<1>4. knows \in [0 .. l + m -> LinkStates]
  BY <1>1, <1>2, <1>3
<1>5. \A i \in 0 .. l : knows[i] = known[i]
  BY <1>1
<1>6. \A i \in l .. l + m : knows[i] = more[i - l]
  <2> TAKE i \in l .. l + m
  <2>1. CASE i = l
    <3>1. knows[i] = known[l] /\ i - l = 0
      BY <1>1, <2>1
    <3> QED BY <1>2, <1>3, <3>1
  <2>2. CASE i # l
    <3>1. i \in 0 .. l + m /\ ~(i <= l)
      BY <1>1, <2>2
    <3> QED BY <3>1
  <2> QED BY <2>1, <2>2
<1> HIDE DEF knows
<1>7. knows[0] = a /\ knows[l + m] = c
  <2>1. 0 \in 0 .. l /\ l + m \in l .. l + m /\ (l + m) - l = m
    BY <1>1
  <2> QED BY <1>2, <1>3, <1>5, <1>6, <2>1
<1>8. ASSUME NEW i \in 1 .. l + m PROVE Changes(knows[i - 1], q[i], knows[i])
  <2>1. CASE i <= l
    <3>1. i \in 1 .. l /\ i \in 0 .. l /\ i - 1 \in 0 .. l
      BY <1>1, <2>1
    <3>2. knows[i - 1] = known[i - 1] /\ knows[i] = known[i] /\ q[i] = s[i]
      BY <1>1, <1>5, <3>1
    <3>3. Changes(known[i - 1], s[i], known[i])
      BY <1>2, <3>1
    <3> QED BY <3>2, <3>3
  <2>2. CASE ~(i <= l)
    <3>1. /\ i \in l .. l + m /\ i - 1 \in l .. l + m /\ i \in l + 1 .. l + m
          /\ i - l \in 1 .. m /\ (i - 1) - l = (i - l) - 1
      BY <1>1, <2>2
    <3>2. knows[i - 1] = more[(i - l) - 1] /\ knows[i] = more[i - l] /\ q[i] = t[i - l]
      BY <1>1, <1>6, <3>1
    <3>3. Changes(more[(i - l) - 1], t[i - l], more[i - l])
      BY <1>3, <3>1
    <3> QED BY <3>2, <3>3
  <2> QED BY <2>1, <2>2
<1>9. Leads(a, q, c)
  <2>1. Len(q) = l + m
    BY <1>1
  <2> QED BY <1>4, <1>7, <1>8, <2>1 DEF Leads
<1> QED BY <1>9 DEF q

-----------------------------------------------------------------------------
(* The inductive invariant.                                                *)

Ids == EventIds \cup {NoId}
NetworkNotices ==
    [type : {"Connected", "Disconnected", "CommandReady", "SubscriptionRejected", "Publish"}, id : Ids]
LoopNotices == [type : {"Connected", "Disconnected", "CommandReady", "Command", "Rejected"}, id : Ids]
RequestKinds == {"publish", "subscribe"}
HandlerSteps == [do : {"notice"}, arg : LoopNotices] \cup [do : {"request"}, arg : RequestKinds]
LeftMax == IF SnapshotSize > 0 THEN SnapshotSize ELSE 1

\* The worker holds a notice exactly while it sends it.
WorkerOK ==
    /\ up \in BOOLEAN /\ subscribing \in BOOLEAN
    /\ worker \in [at : {"poll", "send", "backoff", "stopped"}, held : NetworkNotices \cup {NoNotice}]
    /\ worker.at = "send" => worker.held \in NetworkNotices
    /\ worker.at # "send" => worker.held = NoNotice

\* A handler sends its notice first, and a runner that is about to end has no handler.
RunnerOK ==
    /\ runner \in [at : {"run", "joining", "stopped"}, todo : Seq(HandlerSteps)]
    /\ Len(runner.todo) <= 3 /\ \A i \in 2 .. Len(runner.todo) : runner.todo[i].do = "request"
    /\ runner.at # "run" => runner.todo = <<>>

ChannelsOK ==
    /\ network \in Seq(NetworkNotices) /\ Len(network) <= ChannelCapacity
    /\ notices \in Seq(LoopNotices) /\ Len(notices) <= ChannelCapacity
    /\ requests \in Seq(RequestKinds) /\ Len(requests) <= ChannelCapacity
    /\ publications \in 0 .. ChannelCapacity
    /\ remembered \in SUBSET EventIds /\ cancelled \in BOOLEAN

BridgeOK ==
    /\ bridge \in [at : {"start", "select", "work", "closing", "joining", "stopped"}, left : 0 .. LeftMax]
    /\ reported \in LinkStates /\ executed \in [EventIds -> {0, 1}]

\* The notice the runner is about to send.
Due == IF runner.todo # <<>> /\ Head(runner.todo).do = "notice" THEN Head(runner.todo).arg ELSE NoNotice

\* The changes of the connection, channel by channel.
Flows(known, q, due, net, held, state) ==
    \E k1, k2, k3 \in LinkStates :
        Leads(known, q, k1) /\ Changes(k1, due, k2) /\ Leads(k2, net, k3) /\ Changes(k3, held, state)
LinkOK == ~cancelled => Flows(reported, notices, Due, network, worker.held, LinkState)

Command(id) == Notice("Command", id)
Waits(q, id) == \E i \in 1 .. Len(q) : q[i] = Command(id)

\* A command is at one place: about to be sent to the loop, on its way there, or executed.
Once(q, due, id, times, known, ended) ==
    /\ \A i, j \in 1 .. Len(q) : q[i] = Command(id) /\ q[j] = Command(id) => i = j
    /\ times = 1 => id \in known /\ ~Waits(q, id) /\ due # Command(id)
    /\ Waits(q, id) => id \in known /\ due # Command(id)
    /\ due = Command(id) => id \in known
    /\ id \in known /\ ~ended => times = 1 \/ Waits(q, id) \/ due = Command(id)
OnceOK == \A id \in EventIds : Once(notices, Due, id, executed[id], remembered, cancelled)

IInv == WorkerOK /\ RunnerOK /\ ChannelsOK /\ BridgeOK /\ LinkOK /\ OnceOK

-----------------------------------------------------------------------------
(* What the parts depend on.                                               *)

\* Notices are records.
LEMMA NoticeIs ==
    ASSUME NEW type, NEW id
    PROVE  Notice(type, id).type = type /\ Notice(type, id).id = id
BY DEF Notice

\* No notice is of no kind that counts.
LEMMA NoNoticeIs ==
    /\ NoNotice.type = "none" /\ NoNotice.type \notin LinkStates
    /\ \A id : NoNotice # Command(id) /\ Command(id).type = "Command" /\ Command(id).id = id
BY DEF NoNotice, Notice, Command, LinkStates

\* ... and changes nothing.
LEMMA NoChange ==
    ASSUME NEW n, n.type \notin LinkStates, NEW a, NEW b
    PROVE  Changes(a, n, b) <=> a = b
BY DEF Changes

\* A channel stays within its capacity.
LEMMA RoomIs ==
    ASSUME NEW S, NEW q \in Seq(S), NEW n \in S, Room(q)
    PROVE  Append(q, n) \in Seq(S) /\ Len(Append(q, n)) <= ChannelCapacity
<1>1. Len(q) \in Nat /\ Len(Append(q, n)) = Len(q) + 1 /\ Append(q, n) \in Seq(S)
  OBVIOUS
<1>2. Len(q) < ChannelCapacity /\ ChannelCapacity \in Nat
  BY GatewayAssumption DEF Room
<1> QED BY <1>1, <1>2

\* A channel becomes shorter.
LEMMA TakeIs ==
    ASSUME NEW S, NEW q \in Seq(S), q # <<>>, Len(q) <= ChannelCapacity
    PROVE  Tail(q) \in Seq(S) /\ Len(Tail(q)) <= ChannelCapacity /\ Head(q) \in S
<1>1. Len(q) \in Nat /\ Len(Tail(q)) = Len(q) - 1 /\ Tail(q) \in Seq(S) /\ Head(q) \in S
  OBVIOUS
<1>2. ChannelCapacity \in Nat
  BY GatewayAssumption
<1> QED BY <1>1, <1>2

\* Nothing that flows is touched.
LEMMA FlowStays ==
    ASSUME IInv, UNCHANGED <<up, notices, network, remembered, reported, executed>>, worker'.held = worker.held,
           Due' = Due, cancelled => cancelled', cancelled' \in BOOLEAN
    PROVE  LinkOK' /\ OnceOK'
<1>1. LinkState' = LinkState
  BY DEF LinkState
<1>2. LinkOK'
  BY <1>1 DEF IInv, LinkOK
<1>3. ASSUME NEW id \in EventIds PROVE Once(notices, Due, id, executed[id], remembered, cancelled')
  <2>1. Once(notices, Due, id, executed[id], remembered, cancelled)
    BY DEF IInv, OnceOK
  <2>2. cancelled \in BOOLEAN
    BY DEF IInv, ChannelsOK
  <2> QED BY <2>1, <2>2 DEF Once
<1>4. OnceOK'
  BY <1>3 DEF OnceOK
<1> QED BY <1>2, <1>4

\* The gateway ends: what the runner was about to send is lost, and nothing is executed twice.
LEMMA FlowEnds ==
    ASSUME IInv, UNCHANGED <<notices, remembered, executed>>, Due' = NoNotice, cancelled' = TRUE
    PROVE  LinkOK' /\ OnceOK'
<1>1. ASSUME NEW id \in EventIds PROVE Once(notices, Due', id, executed[id], remembered, cancelled')
  <2>1. Once(notices, Due, id, executed[id], remembered, cancelled)
    BY DEF IInv, OnceOK
  <2>2. Due' # Command(id)
    BY NoNoticeIs
  <2> QED BY <2>1, <2>2 DEF Once
<1>2. OnceOK'
  BY <1>1 DEF OnceOK
<1> QED BY <1>2 DEF LinkOK

\* What the gateway does leaves the loop alone.
LEMMA BridgeStays ==
    ASSUME IInv, UNCHANGED <<bridge, loopVars, historyVars>>
    PROVE  BridgeOK' /\ UNCHANGED <<reported, executed>>
BY DEF IInv, BridgeOK, historyVars

\* What the worker does leaves the runner alone.
LEMMA RunnerStays ==
    ASSUME IInv, UNCHANGED runner
    PROVE  RunnerOK' /\ Due' = Due
BY DEF IInv, RunnerOK, Due

-----------------------------------------------------------------------------
(* poll_event_loop.                                                        *)

\* The worker has a notice for the runner.
LEMMA WorkerHolds ==
    ASSUME IInv, Polling, NEW n \in NetworkNotices, Hold(n), WorkerUnchanged,
           up' \in BOOLEAN, subscribing' \in BOOLEAN, Changes(LinkState, n, LinkState'),
           UNCHANGED <<bridge, loopVars, historyVars>>
    PROVE  IInv'
<1>1. worker.held = NoNotice /\ worker.at = "poll"
  BY DEF IInv, WorkerOK, Polling
<1>2. WorkerOK' /\ worker'.held = n
  BY DEF WorkerOK, Hold
<1>3. UNCHANGED <<network, notices, requests, publications, remembered, cancelled, runner>>
  BY DEF WorkerUnchanged
<1>4. ChannelsOK'
  BY <1>3 DEF IInv, ChannelsOK
<1>5. RunnerOK' /\ Due' = Due
  BY <1>3, RunnerStays
<1>6. BridgeOK' /\ UNCHANGED <<reported, executed>>
  BY BridgeStays
<1>7. LinkOK'
  <2> SUFFICES ASSUME ~cancelled PROVE Flows(reported, notices, Due, network, n, LinkState')
    BY <1>2, <1>3, <1>5, <1>6 DEF LinkOK
  <2>1. PICK k1, k2, k3 \in LinkStates :
            /\ Leads(reported, notices, k1) /\ Changes(k1, Due, k2) /\ Leads(k2, network, k3)
            /\ Changes(k3, worker.held, LinkState)
    BY DEF IInv, LinkOK, Flows
  <2>2. k3 = LinkState
    BY <1>1, <2>1, NoChange, NoNoticeIs
  <2> QED BY <2>1, <2>2 DEF Flows
<1>8. OnceOK'
  BY <1>3, <1>5, <1>6 DEF IInv, OnceOK
<1> QED BY <1>2, <1>4, <1>5, <1>6, <1>7, <1>8 DEF IInv

\* What the worker may hear from the broker.
LEMMA NetworkNoticesAre ==
    /\ \A type \in {"Connected", "Disconnected", "CommandReady", "SubscriptionRejected"} :
          State(type) \in NetworkNotices /\ State(type).type = type
    /\ \A id \in Ids : Notice("Publish", id) \in NetworkNotices /\ Notice("Publish", id).type = "Publish"
BY DEF State, Notice, NetworkNotices, Ids

\* The broker steps.
LEMMA BrokerStepKeeps ==
    ASSUME IInv, BrokerStep, UNCHANGED <<bridge, loopVars, historyVars>>
    PROVE  IInv'
<1>1. up \in BOOLEAN /\ subscribing \in BOOLEAN
  BY DEF IInv, WorkerOK
<1>2. CASE WorkerConnAck
  <2>1. Polling /\ Hold(State("Connected")) /\ WorkerUnchanged /\ up' \in BOOLEAN /\ subscribing' \in BOOLEAN
    BY <1>1, <1>2 DEF WorkerConnAck
  <2>2. LinkState = "Disconnected" /\ LinkState' = "Connected"
    BY <1>2 DEF WorkerConnAck, LinkState
  <2>3. State("Connected") \in NetworkNotices /\ Changes(LinkState, State("Connected"), LinkState')
    BY <2>2, NetworkNoticesAre DEF Changes, LinkStates
  <2> QED BY <2>1, <2>3, WorkerHolds
<1>3. CASE WorkerSubAck
  <2>1. PICK type \in {"CommandReady", "SubscriptionRejected"} : Hold(State(type))
    BY <1>3 DEF WorkerSubAck
  <2>2. Polling /\ WorkerUnchanged /\ up' = up /\ subscribing' = FALSE
    BY <1>3 DEF WorkerSubAck
  <2>3. LinkState' = LinkState
    BY <2>2 DEF LinkState
  <2>4. State(type) \in NetworkNotices /\ State(type).type \notin LinkStates
    BY NetworkNoticesAre DEF LinkStates
  <2>5. Changes(LinkState, State(type), LinkState')
    BY <2>3, <2>4, NoChange
  <2> QED BY <1>1, <2>1, <2>2, <2>4, <2>5, WorkerHolds
<1>4. CASE WorkerError /\ up
  <2>1. Polling /\ Hold(State("Disconnected")) /\ WorkerUnchanged /\ up' = FALSE /\ subscribing' = FALSE
    BY <1>4 DEF WorkerError
  <2>2. LinkState = "Connected" /\ LinkState' = "Disconnected"
    BY <1>4, <2>1 DEF LinkState
  <2>3. State("Disconnected") \in NetworkNotices /\ Changes(LinkState, State("Disconnected"), LinkState')
    BY <2>2, NetworkNoticesAre DEF Changes, LinkStates
  <2> QED BY <2>1, <2>3, WorkerHolds
<1>5. CASE WorkerError /\ ~up
  <2>1. /\ Polling /\ worker' = [worker EXCEPT !.at = "backoff"] /\ WorkerUnchanged /\ up' = FALSE
        /\ subscribing' = FALSE
    BY <1>5 DEF WorkerError
  <2>2. UNCHANGED <<network, notices, requests, publications, remembered, cancelled, runner>> /\ up' = up
    BY <1>1, <1>5, <2>1 DEF WorkerUnchanged
  <2>3. WorkerOK' /\ worker'.held = worker.held
    BY <2>1 DEF IInv, WorkerOK, Polling
  <2>4. ChannelsOK' /\ cancelled' \in BOOLEAN
    BY <2>2 DEF IInv, ChannelsOK
  <2>5. RunnerOK' /\ Due' = Due /\ BridgeOK' /\ UNCHANGED <<reported, executed>>
    BY <2>2, RunnerStays, BridgeStays
  <2>6. LinkOK' /\ OnceOK'
    BY <2>2, <2>3, <2>4, <2>5, FlowStays
  <2> QED BY <2>3, <2>4, <2>5, <2>6 DEF IInv
<1>6. ASSUME NEW id \in EventIds \cup {NoId}, WorkerReceives(id) PROVE IInv'
  <2>1. Polling /\ Hold(Notice("Publish", id)) /\ WorkerUnchanged /\ up' = up /\ subscribing' = subscribing
    BY <1>6 DEF WorkerReceives, brokerVars
  <2>2. LinkState' = LinkState
    BY <2>1 DEF LinkState
  <2>3. Notice("Publish", id) \in NetworkNotices /\ Notice("Publish", id).type \notin LinkStates
    BY NetworkNoticesAre DEF Ids, LinkStates
  <2>4. Changes(LinkState, Notice("Publish", id), LinkState')
    BY <2>2, <2>3, NoChange
  <2> QED BY <1>1, <2>1, <2>3, <2>4, WorkerHolds
<1> QED BY <1>2, <1>3, <1>4, <1>5, <1>6 DEF BrokerStep

\* A request is written, a pause is over, or the worker is told to end.
LEMMA WorkerMovesKeep ==
    ASSUME IInv, WorkerFlushes \/ WorkerBackoffEnds \/ WorkerStops,
           UNCHANGED <<bridge, loopVars, historyVars>>
    PROVE  IInv'
<1>1. UNCHANGED <<up, network, notices, publications, remembered, cancelled, runner>>
  BY DEF WorkerFlushes, WorkerBackoffEnds, WorkerStops, WorkerUnchanged, brokerVars
<1>2. ChannelsOK' /\ cancelled' \in BOOLEAN
  <2>1. requests' \in Seq(RequestKinds) /\ Len(requests') <= ChannelCapacity
    <3>1. CASE requests' = requests
      BY <3>1 DEF IInv, ChannelsOK
    <3>2. CASE requests # <<>> /\ requests' = Tail(requests)
      BY <3>2, TakeIs DEF IInv, ChannelsOK
    <3> QED BY <3>1, <3>2 DEF WorkerFlushes, WorkerBackoffEnds, WorkerStops, WorkerUnchanged
  <2> QED BY <1>1, <2>1 DEF IInv, ChannelsOK
<1>3. RunnerOK' /\ Due' = Due /\ BridgeOK' /\ UNCHANGED <<reported, executed>>
  BY <1>1, RunnerStays, BridgeStays
<1>4. CASE WorkerFlushes
  <2>1. worker' = worker /\ subscribing' \in BOOLEAN /\ Polling
    BY <1>4 DEF WorkerFlushes
  <2>2. WorkerOK'
    BY <1>1, <2>1 DEF IInv, WorkerOK
  <2>3. LinkOK' /\ OnceOK'
    BY <1>1, <1>2, <1>3, <2>1, FlowStays
  <2> QED BY <1>2, <1>3, <2>2, <2>3 DEF IInv
<1>5. CASE WorkerBackoffEnds
  <2>1. worker' = [worker EXCEPT !.at = "poll"] /\ worker.at = "backoff" /\ subscribing' = subscribing
    BY <1>5 DEF WorkerBackoffEnds, brokerVars
  <2>2. WorkerOK' /\ worker'.held = worker.held
    BY <1>1, <2>1 DEF IInv, WorkerOK
  <2>3. LinkOK' /\ OnceOK'
    BY <1>1, <1>2, <1>3, <2>2, FlowStays
  <2> QED BY <1>2, <1>3, <2>2, <2>3 DEF IInv
<1>6. CASE WorkerStops
  <2>1. worker' = [at |-> "stopped", held |-> NoNotice] /\ cancelled /\ subscribing' = subscribing
    BY <1>6 DEF WorkerStops, brokerVars
  <2>2. WorkerOK'
    BY <1>1, <2>1 DEF IInv, WorkerOK
  <2>3. LinkOK'
    BY <1>1, <2>1 DEF LinkOK
  <2>4. OnceOK'
    BY <1>1, <1>3 DEF IInv, OnceOK
  <2> QED BY <1>2, <1>3, <2>2, <2>3, <2>4 DEF IInv
<1> QED BY <1>4, <1>5, <1>6

\* send_network_notice
LEMMA WorkerSendsKeeps ==
    ASSUME IInv, WorkerSends, UNCHANGED <<bridge, loopVars, historyVars>>
    PROVE  IInv'
<1>1. /\ UNCHANGED <<up, subscribing, notices, requests, publications, remembered, cancelled, runner>>
      /\ worker.at = "send" /\ Room(network) /\ network' = Append(network, worker.held)
  BY DEF WorkerSends, brokerVars
<1>2. PICK at \in {"poll", "backoff"} : worker' = [at |-> at, held |-> NoNotice]
  BY DEF WorkerSends
<1>3. WorkerOK' /\ worker'.held = NoNotice
  BY <1>1, <1>2 DEF IInv, WorkerOK
<1>4. RunnerOK' /\ Due' = Due /\ BridgeOK' /\ UNCHANGED <<reported, executed>>
  BY <1>1, RunnerStays, BridgeStays
<1>5. OnceOK'
  BY <1>1, <1>4 DEF IInv, OnceOK
<1>6. worker.held \in NetworkNotices
  BY <1>1 DEF IInv, WorkerOK
<1>7. ChannelsOK'
  BY <1>1, <1>6, RoomIs DEF IInv, ChannelsOK
<1>8. LinkOK'
  <2> SUFFICES ASSUME ~cancelled
               PROVE  Flows(reported, notices, Due, Append(network, worker.held), NoNotice, LinkState')
    BY <1>1, <1>3, <1>4 DEF LinkOK
  <2>1. PICK k1, k2, k3 \in LinkStates :
            /\ Leads(reported, notices, k1) /\ Changes(k1, Due, k2) /\ Leads(k2, network, k3)
            /\ Changes(k3, worker.held, LinkState)
    BY DEF IInv, LinkOK, Flows
  <2>2. LinkState \in LinkStates /\ LinkState' = LinkState
    BY <1>1 DEF LinkState, LinkStates
  <2>3. Leads(k2, Append(network, worker.held), LinkState)
    BY <1>6, <2>1, <2>2, LeadsFurther DEF IInv, ChannelsOK
  <2>4. Changes(LinkState, NoNotice, LinkState)
    BY NoChange, NoNoticeIs
  <2> QED BY <2>1, <2>2, <2>3, <2>4 DEF Flows
<1> QED BY <1>3, <1>4, <1>5, <1>7, <1>8 DEF IInv

-----------------------------------------------------------------------------
(* process and handle_network_notice.                                      *)

\* What the runner does leaves the worker alone.
LEMMA WorkerStays ==
    ASSUME IInv, RunnerUnchanged
    PROVE  WorkerOK' /\ UNCHANGED <<up, subscribing, worker>>
BY DEF IInv, WorkerOK, RunnerUnchanged, brokerVars

\* A handler begins.
LEMMA HandlerBegins ==
    ASSUME IInv, runner.at = "run", NEW todo \in Seq(HandlerSteps), Len(todo) <= 3,
           \A i \in 2 .. Len(todo) : todo[i].do = "request", runner' = [runner EXCEPT !.todo = todo]
    PROVE  RunnerOK' /\ runner'.todo = todo
<1>1. runner' \in [at : {"run", "joining", "stopped"}, todo : Seq(HandlerSteps)]
  BY DEF IInv, RunnerOK
<1>2. runner'.todo = todo /\ runner'.at = "run"
  BY DEF IInv, RunnerOK
<1> QED BY <1>1, <1>2 DEF RunnerOK

\* The first step of a handler is done; the others are requests.
LEMMA HandlerGoesOn ==
    ASSUME IInv, runner.at = "run", runner.todo # <<>>, runner' = [runner EXCEPT !.todo = Tail(@)]
    PROVE  RunnerOK' /\ Due' = NoNotice
<1> DEFINE todo == runner.todo
           rest == Tail(todo)
<1>1. todo \in Seq(HandlerSteps) /\ Len(todo) <= 3 /\ \A i \in 2 .. Len(todo) : todo[i].do = "request"
  BY DEF IInv, RunnerOK
<1>2. /\ rest \in Seq(HandlerSteps) /\ Len(rest) = Len(todo) - 1 /\ Len(todo) \in Nat
      /\ \A i \in 1 .. Len(rest) : rest[i] = todo[i + 1] /\ i + 1 \in 2 .. Len(todo)
  BY <1>1
<1>3. runner' = [runner EXCEPT !.todo = rest]
  BY DEF IInv, RunnerOK
<1> HIDE DEF todo, rest
<1>4. \A i \in 1 .. Len(rest) : rest[i].do = "request"
  BY <1>1, <1>2
<1>5. RunnerOK' /\ runner'.todo = rest
  <2>1. Len(rest) <= 3 /\ \A i \in 2 .. Len(rest) : rest[i].do = "request"
    BY <1>1, <1>2, <1>4
  <2> QED BY <1>2, <1>3, <2>1, HandlerBegins
<1>6. Due' = NoNotice
  <2>1. CASE rest = <<>>
    BY <1>5, <2>1 DEF Due
  <2>2. CASE rest # <<>>
    <3>1. Head(rest) = rest[1] /\ 1 \in 1 .. Len(rest)
      BY <1>2, <2>2
    <3>2. Head(rest).do = "request"
      BY <1>4, <3>1
    <3> QED BY <1>5, <3>2 DEF Due
  <2> QED BY <2>1, <2>2
<1> QED BY <1>5, <1>6

\* The runner leaves.
LEMMA RunnerLeaves ==
    ASSUME IInv, Leave
    PROVE  RunnerOK' /\ Due' = NoNotice /\ cancelled' = TRUE
<1>1. runner' = [at |-> "joining", todo |-> <<>>] /\ cancelled' = TRUE
  BY DEF Leave
<1>2. <<>> \in Seq(HandlerSteps) /\ Len(<<>>) = 0
  OBVIOUS
<1>3. /\ runner'.at = "joining" /\ runner'.todo = <<>>
      /\ runner' \in [at : {"run", "joining", "stopped"}, todo : Seq(HandlerSteps)]
  BY <1>1, <1>2
<1> QED BY <1>1, <1>2, <1>3 DEF RunnerOK, Due

\* The runner ends before its time, with the worker or without.
LEMMA RunnerEndsKeep ==
    ASSUME IInv, RunnerSubscriptionRejected \/ RunnerTimesOut \/ RunnerCancelled,
           UNCHANGED <<bridge, loopVars, historyVars>>
    PROVE  IInv'
<1>1. Leave /\ RunnerUnchanged /\ UNCHANGED <<publications, notices, requests, remembered>>
  BY DEF RunnerSubscriptionRejected, RunnerTimesOut, RunnerCancelled
<1>2. RunnerOK' /\ Due' = NoNotice /\ cancelled' = TRUE
  BY <1>1, RunnerLeaves
<1>3. WorkerOK' /\ BridgeOK' /\ UNCHANGED <<reported, executed>>
  BY <1>1, WorkerStays, BridgeStays
<1>4. network' \in Seq(NetworkNotices) /\ Len(network') <= ChannelCapacity
  <2>1. CASE network' = network
    BY <2>1 DEF IInv, ChannelsOK
  <2>2. CASE network # <<>> /\ network' = Tail(network)
    BY <2>2, TakeIs DEF IInv, ChannelsOK
  <2> QED BY <2>1, <2>2 DEF RunnerSubscriptionRejected, RunnerTimesOut, RunnerCancelled
<1>5. ChannelsOK'
  BY <1>1, <1>2, <1>4 DEF IInv, ChannelsOK
<1>6. LinkOK' /\ OnceOK'
  BY <1>1, <1>2, <1>3, FlowEnds
<1> QED BY <1>2, <1>3, <1>5, <1>6 DEF IInv

\* run() returns.
LEMMA RunnerStopsKeeps ==
    ASSUME IInv, RunnerStops, UNCHANGED <<bridge, loopVars, historyVars>>
    PROVE  IInv'
<1>1. /\ runner.at = "joining" /\ runner' = [runner EXCEPT !.at = "stopped"] /\ RunnerUnchanged
      /\ UNCHANGED <<network, publications, notices, requests, remembered, cancelled>>
  BY DEF RunnerStops
<1>2. /\ runner.todo = <<>> /\ runner'.todo = runner.todo
      /\ runner' \in [at : {"run", "joining", "stopped"}, todo : Seq(HandlerSteps)]
  BY <1>1 DEF IInv, RunnerOK
<1>3. RunnerOK' /\ Due' = Due
  BY <1>2 DEF IInv, RunnerOK, Due
<1>4. WorkerOK' /\ BridgeOK' /\ UNCHANGED <<reported, executed, up, worker>>
  BY <1>1, WorkerStays, BridgeStays
<1>5. ChannelsOK' /\ cancelled' \in BOOLEAN
  BY <1>1 DEF IInv, ChannelsOK
<1>6. LinkOK' /\ OnceOK'
  BY <1>1, <1>3, <1>4, <1>5, FlowStays
<1> QED BY <1>3, <1>4, <1>5, <1>6 DEF IInv

\* Requests are no notices.
LEMMA RequestIs ==
    ASSUME NEW what \in RequestKinds
    PROVE  SendRequest(what) \in HandlerSteps /\ SendRequest(what).do = "request" /\ SendRequest(what).arg = what
BY DEF SendRequest, HandlerSteps

\* Notices are.
LEMMA SendNoticeIs ==
    ASSUME NEW n \in LoopNotices
    PROVE  SendNotice(n) \in HandlerSteps /\ SendNotice(n).do = "notice" /\ SendNotice(n).arg = n
BY DEF SendNotice, HandlerSteps

\* The loop's publication is passed on.
LEMMA RunnerTakesPublicationKeeps ==
    ASSUME IInv, RunnerTakesPublication, UNCHANGED <<bridge, loopVars, historyVars>>
    PROVE  IInv'
<1> DEFINE todo == <<SendRequest("publish")>>
<1>1. /\ runner.at = "run" /\ runner.todo = <<>> /\ runner' = [runner EXCEPT !.todo = todo]
      /\ publications > 0 /\ publications' = publications - 1 /\ RunnerUnchanged
      /\ UNCHANGED <<network, notices, requests, remembered, cancelled>>
  BY DEF RunnerTakesPublication, Selecting
<1>2. SendRequest("publish") \in HandlerSteps /\ SendRequest("publish").do = "request"
  BY RequestIs DEF RequestKinds
<1>3. todo \in Seq(HandlerSteps) /\ Len(todo) = 1 /\ Head(todo) = SendRequest("publish") /\ todo # <<>>
  BY <1>2
<1> HIDE DEF todo
<1>4. RunnerOK' /\ runner'.todo = todo
  <2>1. Len(todo) <= 3 /\ \A i \in 2 .. Len(todo) : todo[i].do = "request"
    BY <1>3
  <2> QED BY <1>1, <1>3, <2>1, HandlerBegins
<1>5. Due' = Due
  BY <1>1, <1>2, <1>3, <1>4 DEF Due
<1>6. WorkerOK' /\ BridgeOK' /\ UNCHANGED <<reported, executed, up, worker>>
  BY <1>1, WorkerStays, BridgeStays
<1>7. ChannelsOK' /\ cancelled' \in BOOLEAN
  <2>1. publications' \in 0 .. ChannelCapacity
    BY <1>1, GatewayAssumption DEF IInv, ChannelsOK
  <2> QED BY <1>1, <2>1 DEF IInv, ChannelsOK
<1>8. LinkOK' /\ OnceOK'
  BY <1>1, <1>5, <1>6, <1>7, FlowStays
<1> QED BY <1>4, <1>6, <1>7, <1>8 DEF IInv

\* await_broker_operation
LEMMA RunnerQueuesRequestKeeps ==
    ASSUME IInv, RunnerQueuesRequest, UNCHANGED <<bridge, loopVars, historyVars>>
    PROVE  IInv'
<1>1. /\ runner.at = "run" /\ runner.todo # <<>> /\ Head(runner.todo).do = "request"
      /\ runner' = [runner EXCEPT !.todo = Tail(@)] /\ RunnerUnchanged /\ Room(requests)
      /\ requests' = Append(requests, Head(runner.todo).arg)
      /\ UNCHANGED <<network, publications, notices, remembered, cancelled>>
  BY DEF RunnerQueuesRequest, NextIs
<1>2. Head(runner.todo) \in HandlerSteps
  BY <1>1 DEF IInv, RunnerOK
<1>3. Head(runner.todo).arg \in RequestKinds
  BY <1>1, <1>2 DEF HandlerSteps
<1>4. RunnerOK' /\ Due' = NoNotice
  BY <1>1, HandlerGoesOn
<1>5. Due' = Due
  BY <1>1, <1>4 DEF Due
<1>6. WorkerOK' /\ BridgeOK' /\ UNCHANGED <<reported, executed, up, worker>>
  BY <1>1, WorkerStays, BridgeStays
<1>7. ChannelsOK' /\ cancelled' \in BOOLEAN
  BY <1>1, <1>3, RoomIs DEF IInv, ChannelsOK
<1>8. LinkOK' /\ OnceOK'
  BY <1>1, <1>5, <1>6, <1>7, FlowStays
<1> QED BY <1>4, <1>6, <1>7, <1>8 DEF IInv

\* A notice that is no copy of the command goes to the loop.
LEMMA OncePassed ==
    ASSUME NEW q \in Seq(LoopNotices), NEW n \in LoopNotices, NEW due, NEW id, NEW t, NEW k,
           NEW l, n # Command(id), Once(q, due, id, t, k, l)
    PROVE  Once(Append(q, n), due, id, t, k, l)
<1> DEFINE p == Append(q, n)
<1>1. Len(q) \in Nat /\ Len(p) = Len(q) + 1 /\ p[Len(q) + 1] = n /\ \A i \in 1 .. Len(q) : p[i] = q[i]
  OBVIOUS
<1> HIDE DEF p
<1>2. \A i \in 1 .. Len(p) : p[i] = Command(id) => i \in 1 .. Len(q) /\ q[i] = Command(id)
  BY <1>1
<1>3. \A i \in 1 .. Len(q) : q[i] = Command(id) => i \in 1 .. Len(p) /\ p[i] = Command(id)
  BY <1>1
<1>4. Waits(p, id) <=> Waits(q, id)
  BY <1>2, <1>3 DEF Waits
<1>5. \A i, j \in 1 .. Len(p) : p[i] = Command(id) /\ p[j] = Command(id) => i = j
  BY <1>2 DEF Once
<1>6. Once(p, due, id, t, k, l)
  BY <1>4, <1>5 DEF Once
<1> QED BY <1>6 DEF p

\* The notice that was due goes to the loop.
LEMMA OnceSent ==
    ASSUME NEW q \in Seq(LoopNotices), NEW n \in LoopNotices, NEW id, NEW t, NEW k,
           NEW l, Once(q, n, id, t, k, l)
    PROVE  Once(Append(q, n), NoNotice, id, t, k, l)
<1> DEFINE p == Append(q, n)
<1>1. Len(q) \in Nat /\ Len(p) = Len(q) + 1 /\ p[Len(q) + 1] = n /\ \A i \in 1 .. Len(q) : p[i] = q[i]
  OBVIOUS
<1>2. NoNotice # Command(id)
  BY NoNoticeIs
<1>3. CASE n = Command(id)
  <2> HIDE DEF p
  <2>1. id \in k /\ t # 1 /\ ~Waits(q, id)
    BY <1>3 DEF Once
  <2>2. \A i \in 1 .. Len(p) : p[i] = Command(id) => i = Len(q) + 1
    BY <1>1, <2>1 DEF Waits
  <2>3. Waits(p, id)
    <3>1. Len(q) + 1 \in 1 .. Len(p) /\ p[Len(q) + 1] = Command(id)
      BY <1>1, <1>3
    <3> QED BY <3>1 DEF Waits
  <2>4. \A i, j \in 1 .. Len(p) : p[i] = Command(id) /\ p[j] = Command(id) => i = j
    BY <2>2
  <2>5. Once(p, NoNotice, id, t, k, l)
    BY <1>2, <2>1, <2>3, <2>4 DEF Once
  <2> QED BY <2>5 DEF p
<1>4. CASE n # Command(id)
  <2>1. Once(q, NoNotice, id, t, k, l)
    BY <1>2, <1>4 DEF Once
  <2> QED BY <1>4, <2>1, OncePassed
<1> QED BY <1>3, <1>4

\* The loop takes a notice, and executes the command if it is one.
LEMMA OnceTaken ==
    ASSUME NEW q \in Seq(LoopNotices), q # <<>>, NEW due, NEW id, NEW t \in {0, 1}, NEW k,
           NEW l, Once(q, due, id, t, k, l)
    PROVE  /\ Head(q) = Command(id) => t = 0 /\ Once(Tail(q), due, id, 1, k, l)
           /\ Head(q) # Command(id) => Once(Tail(q), due, id, t, k, l)
<1> DEFINE p == Tail(q)
<1>1. /\ Len(q) \in Nat /\ Len(p) = Len(q) - 1 /\ Head(q) = q[1] /\ 1 \in 1 .. Len(q)
      /\ \A i \in 1 .. Len(p) : p[i] = q[i + 1] /\ i + 1 \in 1 .. Len(q) /\ i + 1 # 1
  OBVIOUS
<1> HIDE DEF p
<1>2. \A i, j \in 1 .. Len(q) : q[i] = Command(id) /\ q[j] = Command(id) => i = j
  BY DEF Once
<1>3. \A i, j \in 1 .. Len(p) : p[i] = Command(id) /\ p[j] = Command(id) => i = j
  <2> TAKE i, j \in 1 .. Len(p)
  <2> HAVE p[i] = Command(id) /\ p[j] = Command(id)
  <2>1. i + 1 = j + 1
    BY <1>1, <1>2
  <2> QED BY <2>1
<1>4. CASE Head(q) = Command(id)
  <2>1. Waits(q, id)
    BY <1>1, <1>4 DEF Waits
  <2>2. id \in k /\ t = 0 /\ due # Command(id)
    BY <2>1 DEF Once
  <2>3. ~Waits(p, id)
    BY <1>1, <1>2, <1>4 DEF Waits
  <2>4. Once(p, due, id, 1, k, l)
    BY <1>3, <2>2, <2>3 DEF Once
  <2> QED BY <1>4, <2>2, <2>4 DEF p
<1>5. CASE Head(q) # Command(id)
  <2>1. Waits(p, id) => Waits(q, id)
    BY <1>1 DEF Waits
  <2>2. Waits(q, id) => Waits(p, id)
    <3> SUFFICES ASSUME NEW i \in 1 .. Len(q), q[i] = Command(id) PROVE Waits(p, id)
      BY DEF Waits
    <3>1. i # 1
      BY <1>1, <1>5
    <3>2. i - 1 \in 1 .. Len(p) /\ (i - 1) + 1 = i
      BY <1>1, <3>1
    <3>3. p[i - 1] = Command(id)
      BY <1>1, <3>2
    <3> QED BY <3>2, <3>3 DEF Waits
  <2>3. Once(p, due, id, t, k, l)
    BY <1>3, <2>1, <2>2 DEF Once
  <2> QED BY <1>5, <2>3 DEF p
<1> QED BY <1>4, <1>5

\* A command that was not known comes to be due.
LEMMA OnceAccepted ==
    ASSUME NEW q, NEW m, NEW id, NEW t, NEW k, NEW known, NEW l,
           Once(q, NoNotice, id, t, k, l),
           m = Command(id) => id \notin k /\ id \in known, m # Command(id) => (id \in known <=> id \in k)
    PROVE  Once(q, m, id, t, known, l)
<1>1. NoNotice # Command(id)
  BY NoNoticeIs
<1>2. CASE m = Command(id)
  BY <1>1, <1>2 DEF Once
<1>3. CASE m # Command(id)
  BY <1>1, <1>3 DEF Once
<1> QED BY <1>2, <1>3

\* send_notice
LEMMA RunnerSendsNoticeKeeps ==
    ASSUME IInv, RunnerSendsNotice, UNCHANGED <<bridge, loopVars, historyVars>>
    PROVE  IInv'
<1>1. /\ runner.at = "run" /\ runner.todo # <<>> /\ Head(runner.todo).do = "notice"
      /\ runner' = [runner EXCEPT !.todo = Tail(@)] /\ RunnerUnchanged /\ Room(notices)
      /\ notices' = Append(notices, Head(runner.todo).arg)
      /\ UNCHANGED <<network, publications, requests, remembered, cancelled>>
  BY DEF RunnerSendsNotice, NextIs
<1>2. Head(runner.todo) \in HandlerSteps
  BY <1>1 DEF IInv, RunnerOK
<1>3. Due = Head(runner.todo).arg /\ Due \in LoopNotices
  BY <1>1, <1>2 DEF HandlerSteps, Due
<1>4. notices \in Seq(LoopNotices) /\ notices' = Append(notices, Due) /\ cancelled \in BOOLEAN
  BY <1>1, <1>3 DEF IInv, ChannelsOK
<1>5. RunnerOK' /\ Due' = NoNotice
  BY <1>1, HandlerGoesOn
<1>6. WorkerOK' /\ BridgeOK' /\ UNCHANGED <<reported, executed, up, worker>>
  BY <1>1, WorkerStays, BridgeStays
<1>7. ChannelsOK'
  BY <1>1, <1>3, <1>4, RoomIs DEF IInv, ChannelsOK
<1>8. OnceOK'
  <2>1. ASSUME NEW id \in EventIds
        PROVE  Once(Append(notices, Due), NoNotice, id, executed[id], remembered, cancelled)
    BY <1>3, <1>4, OnceSent DEF IInv, OnceOK
  <2> QED BY <1>1, <1>4, <1>5, <1>6, <2>1 DEF OnceOK
<1>9. LinkOK'
  <2> SUFFICES ASSUME ~cancelled
               PROVE  Flows(reported, Append(notices, Due), NoNotice, network, worker.held, LinkState)
    BY <1>1, <1>4, <1>5, <1>6 DEF LinkOK, LinkState
  <2>1. PICK k1, k2, k3 \in LinkStates :
            /\ Leads(reported, notices, k1) /\ Changes(k1, Due, k2) /\ Leads(k2, network, k3)
            /\ Changes(k3, worker.held, LinkState)
    BY DEF IInv, LinkOK, Flows
  <2>2. Leads(reported, Append(notices, Due), k2)
    BY <1>3, <1>4, <2>1, LeadsFurther
  <2>3. Changes(k2, NoNotice, k2)
    BY NoChange, NoNoticeIs
  <2> QED BY <2>1, <2>2, <2>3 DEF Flows
<1> QED BY <1>5, <1>6, <1>7, <1>8, <1>9 DEF IInv

\* A command that is refused: the report of it changes nothing.
LEMMA RunnerRefusesKeeps ==
    ASSUME IInv, RunnerRefuses, UNCHANGED <<bridge, loopVars, historyVars>>
    PROVE  IInv'
<1> DEFINE n == State("Rejected")
<1>1. /\ runner.at = "run" /\ runner.todo = <<>> /\ network # <<>> /\ Head(network).type = "Publish"
      /\ network' = Tail(network) /\ RunnerUnchanged
      /\ notices' = (IF Room(notices) THEN Append(notices, n) ELSE notices)
      /\ UNCHANGED <<runner, publications, requests, remembered, cancelled>>
  BY DEF RunnerRefuses, Selecting, Refused
<1>2. n \in LoopNotices /\ n.type = "Rejected"
  BY DEF State, Notice, LoopNotices, Ids
<1>3. RunnerOK' /\ Due' = Due
  BY <1>1, RunnerStays
<1>4. WorkerOK' /\ BridgeOK' /\ UNCHANGED <<reported, executed, up, worker>>
  BY <1>1, WorkerStays, BridgeStays
<1>5. /\ notices \in Seq(LoopNotices) /\ Len(notices) <= ChannelCapacity /\ cancelled \in BOOLEAN
      /\ network \in Seq(NetworkNotices) /\ Len(network) <= ChannelCapacity
  BY DEF IInv, ChannelsOK
<1> HIDE DEF n
<1>6. notices' \in Seq(LoopNotices) /\ Len(notices') <= ChannelCapacity
  BY <1>1, <1>2, <1>5, RoomIs
<1>7. ChannelsOK'
  <2>1. network' \in Seq(NetworkNotices) /\ Len(network') <= ChannelCapacity
    BY <1>1, <1>5, TakeIs
  <2> QED BY <1>1, <1>6, <2>1 DEF IInv, ChannelsOK
<1>8. OnceOK'
  <2>1. ASSUME NEW id \in EventIds
        PROVE  Once(notices', Due, id, executed[id], remembered, cancelled)
    <3>1. n # Command(id)
      BY <1>2, NoNoticeIs
    <3>2. Once(notices, Due, id, executed[id], remembered, cancelled)
      BY DEF IInv, OnceOK
    <3>3. Once(Append(notices, n), Due, id, executed[id], remembered, cancelled)
      BY <1>2, <1>5, <3>1, <3>2, OncePassed
    <3> QED BY <1>1, <3>2, <3>3
  <2> QED BY <1>1, <1>3, <1>4, <2>1 DEF OnceOK
<1>9. LinkOK'
  <2> SUFFICES ASSUME ~cancelled PROVE Flows(reported, notices', Due, Tail(network), worker.held, LinkState)
    BY <1>1, <1>3, <1>4 DEF LinkOK, LinkState
  <2>1. PICK k1, k2, k3 \in LinkStates :
            /\ Leads(reported, notices, k1) /\ Changes(k1, Due, k2) /\ Leads(k2, network, k3)
            /\ Changes(k3, worker.held, LinkState)
    BY DEF IInv, LinkOK, Flows
  <2>2. Leads(reported, notices', k1)
    <3>1. Changes(k1, n, k1)
      BY <1>2, NoChange DEF LinkStates
    <3>2. Leads(reported, Append(notices, n), k1)
      BY <1>2, <1>5, <2>1, <3>1, LeadsFurther
    <3> QED BY <1>1, <2>1, <3>2
  <2>3. Leads(k2, Tail(network), k3)
    <3>1. PICK c \in LinkStates : Changes(k2, Head(network), c) /\ Leads(c, Tail(network), k3)
      BY <1>1, <1>5, <2>1, LeadsOn
    <3>2. c = k2
      BY <1>1, <3>1, NoChange DEF LinkStates
    <3> QED BY <3>1, <3>2
  <2> QED BY <2>1, <2>2, <2>3 DEF Flows
<1> QED BY <1>3, <1>4, <1>7, <1>8, <1>9 DEF IInv

\* Short sequences.
LEMMA Joined ==
    ASSUME NEW a, NEW b, NEW c
    PROVE  /\ <<a>> \o <<b>> \o <<c>> = <<a, b, c>>
           /\ <<a>> \o <<>> \o <<c>> = <<a, c>>
<1> DEFINE S == {a, b, c}
<1>1. <<a>> \in Seq(S) /\ <<b>> \in Seq(S) /\ <<c>> \in Seq(S) /\ <<a, b>> \in Seq(S)
  OBVIOUS
<1>2. <<>> \in Seq(S)
  OBVIOUS
<1> HIDE DEF S
<1>3. \A s \in Seq(S) : s \o <<>> = s
  OBVIOUS
<1>4. \A s \in Seq(S), x \in S : s \o <<x>> = Append(s, x)
  OBVIOUS
<1>5. a \in S /\ b \in S /\ c \in S
  BY DEF S
<1>6. \A s, t \in Seq(S) : Len(s) = Len(t) /\ (\A i \in 1 .. Len(s) : s[i] = t[i]) => s = t
  OBVIOUS
<1>7. <<a>> \o <<>> = <<a>>
  BY <1>1, <1>3
<1>8. ASSUME NEW x \in S PROVE <<a>> \o <<x>> = <<a, x>>
  <2>1. <<a>> \o <<x>> = Append(<<a>>, x)
    BY <1>1, <1>4
  <2>2. Append(<<a>>, x) \in Seq(S) /\ <<a, x>> \in Seq(S)
    BY <1>1, <1>5
  <2>3. Len(Append(<<a>>, x)) = 2 /\ Append(<<a>>, x)[1] = a /\ Append(<<a>>, x)[2] = x
    BY <1>1
  <2>4. Len(<<a, x>>) = 2 /\ <<a, x>>[1] = a /\ <<a, x>>[2] = x
    OBVIOUS
  <2>5. \A i \in 1 .. 2 : Append(<<a>>, x)[i] = <<a, x>>[i]
    BY <2>3, <2>4
  <2>6. Append(<<a>>, x) = <<a, x>>
    BY <1>6, <2>2, <2>3, <2>4, <2>5
  <2> QED BY <2>1, <2>6
<1>9. <<a, b>> \o <<c>> = <<a, b, c>>
  <2>1. <<a, b>> \o <<c>> = Append(<<a, b>>, c)
    BY <1>1, <1>4, <1>5
  <2>2. Append(<<a, b>>, c) \in Seq(S) /\ <<a, b, c>> \in Seq(S)
    BY <1>1, <1>5
  <2>3. /\ Len(Append(<<a, b>>, c)) = 3 /\ Append(<<a, b>>, c)[1] = a /\ Append(<<a, b>>, c)[2] = b
        /\ Append(<<a, b>>, c)[3] = c
    BY <1>1
  <2>4. Len(<<a, b, c>>) = 3 /\ <<a, b, c>>[1] = a /\ <<a, b, c>>[2] = b /\ <<a, b, c>>[3] = c
    OBVIOUS
  <2>5. \A i \in 1 .. 3 : Append(<<a, b>>, c)[i] = <<a, b, c>>[i]
    BY <2>3, <2>4
  <2>6. Append(<<a, b>>, c) = <<a, b, c>>
    BY <1>6, <2>2, <2>3, <2>4, <2>5
  <2> QED BY <2>1, <2>6
<1> QED BY <1>5, <1>7, <1>8, <1>9

\* A handler sends its notice to the loop first, then it writes to the broker.
LEMMA HandlerIs ==
    ASSUME NEW n \in NetworkNotices, n.type # "SubscriptionRejected", NEW m,
           m = IF n.type = "Publish" THEN Command(n.id) ELSE n
    PROVE  /\ m \in LoopNotices
           /\ Handler(n) \in Seq(HandlerSteps) /\ Len(Handler(n)) <= 3 /\ Handler(n) # <<>>
           /\ Head(Handler(n)) = SendNotice(m)
           /\ \A i \in 2 .. Len(Handler(n)) : Handler(n)[i].do = "request"
<1> DEFINE s == SendRequest("subscribe")
           p == SendRequest("publish")
<1>1. s \in HandlerSteps /\ s.do = "request" /\ p \in HandlerSteps /\ p.do = "request"
  BY RequestIs DEF RequestKinds
<1>2. m \in LoopNotices
  BY DEF NetworkNotices, LoopNotices, Command, Notice
<1>3. SendNotice(m) \in HandlerSteps
  BY <1>2, SendNoticeIs
<1> DEFINE h == SendNotice(m)
<1> HIDE DEF s, p, h
<1>4. \/ Handler(n) = <<h, s, p>> \/ Handler(n) = <<h, p>> \/ Handler(n) = <<h>>
  <2>1. CASE n.type = "Connected"
    <3>1. m = n /\ Handler(n) = <<SendNotice(n)>> \o (IF AllowSend THEN <<s>> ELSE <<>>) \o <<p>>
      BY <2>1 DEF Handler, s, p
    <3>2. CASE AllowSend
      <4>1. Handler(n) = <<h>> \o <<s>> \o <<p>>
        BY <3>1, <3>2 DEF h
      <4> QED BY <4>1, Joined
    <3>3. CASE ~AllowSend
      <4>1. Handler(n) = <<h>> \o <<>> \o <<p>>
        BY <3>1, <3>3 DEF h
      <4> QED BY <4>1, Joined
    <3> QED BY <3>2, <3>3
  <2>2. CASE n.type = "Disconnected"
    BY <2>2 DEF Handler, h, p
  <2>3. CASE n.type = "CommandReady"
    BY <2>3 DEF Handler, h
  <2>4. CASE n.type = "Publish"
    BY <2>4 DEF Handler, h, Command
  <2> QED BY <2>1, <2>2, <2>3, <2>4 DEF NetworkNotices
<1>5. CASE Handler(n) = <<h, s, p>>
  BY <1>1, <1>2, <1>3, <1>5 DEF h
<1>6. CASE Handler(n) = <<h, p>>
  BY <1>1, <1>2, <1>3, <1>6 DEF h
<1>7. CASE Handler(n) = <<h>>
  BY <1>1, <1>2, <1>3, <1>7 DEF h
<1> QED BY <1>4, <1>5, <1>6, <1>7

\* A notice that starts a handler.
LEMMA RunnerTakesNoticeKeeps ==
    ASSUME IInv, RunnerTakesNotice, UNCHANGED <<bridge, loopVars, historyVars>>
    PROVE  IInv'
<1> DEFINE n == Head(network)
           m == IF n.type = "Publish" THEN Command(n.id) ELSE n
<1>1. /\ runner.at = "run" /\ runner.todo = <<>> /\ network # <<>>
      /\ ~Refused(n) /\ n.type # "SubscriptionRejected" /\ network' = Tail(network) /\ RunnerUnchanged
      /\ remembered' = remembered \cup {id \in {n.id} : Accepted(n)}
      /\ runner' = [runner EXCEPT !.todo = Handler(n)]
      /\ UNCHANGED <<publications, notices, requests, cancelled>>
  BY DEF RunnerTakesNotice, Selecting
<1>2. /\ network \in Seq(NetworkNotices) /\ Len(network) <= ChannelCapacity
      /\ notices \in Seq(LoopNotices) /\ remembered \in SUBSET EventIds
  BY DEF IInv, ChannelsOK
<1>3. n \in NetworkNotices /\ Tail(network) \in Seq(NetworkNotices) /\ Len(Tail(network)) <= ChannelCapacity
  BY <1>1, <1>2, TakeIs
<1>4. n.type = "Publish" => n.id \in EventIds /\ n.id \notin remembered /\ remembered' = remembered \cup {n.id}
  BY <1>1 DEF Refused, Accepted
<1>5. n.type # "Publish" => remembered' = remembered
  BY <1>1 DEF Accepted
<1> HIDE DEF n
<1>6. /\ m \in LoopNotices
      /\ Handler(n) \in Seq(HandlerSteps) /\ Len(Handler(n)) <= 3 /\ Handler(n) # <<>>
      /\ Head(Handler(n)) = SendNotice(m)
      /\ \A i \in 2 .. Len(Handler(n)) : Handler(n)[i].do = "request"
  BY <1>1, <1>3, HandlerIs
<1>7. RunnerOK' /\ runner'.todo = Handler(n)
  BY <1>1, <1>6, HandlerBegins
<1>8. Due' = m /\ Due = NoNotice
  <2>1. SendNotice(m).do = "notice" /\ SendNotice(m).arg = m
    BY <1>6, SendNoticeIs
  <2> QED BY <1>1, <1>6, <1>7, <2>1 DEF Due
<1>9. WorkerOK' /\ BridgeOK' /\ UNCHANGED <<reported, executed, up, worker>>
  BY <1>1, WorkerStays, BridgeStays
<1>10. ChannelsOK'
  <2>1. remembered' \in SUBSET EventIds
    BY <1>2, <1>4, <1>5
  <2> QED BY <1>1, <1>3, <2>1 DEF IInv, ChannelsOK
<1>11. OnceOK'
  <2>1. ASSUME NEW id \in EventIds
        PROVE  Once(notices, m, id, executed[id], remembered', cancelled)
    <3>1. Once(notices, NoNotice, id, executed[id], remembered, cancelled)
      BY <1>8 DEF IInv, OnceOK
    <3>2. CASE n.type = "Publish"
      <4>1. m = Command(n.id)
        BY <3>2
      <4>2. (m = Command(id)) <=> (id = n.id)
        BY <4>1, NoNoticeIs
      <4>3. m = Command(id) => id \notin remembered /\ id \in remembered'
        BY <1>4, <3>2, <4>2
      <4>4. m # Command(id) => (id \in remembered' <=> id \in remembered)
        BY <1>4, <3>2, <4>2
      <4> HIDE DEF m
      <4> QED BY <3>1, <4>3, <4>4, OnceAccepted
    <3>3. CASE n.type # "Publish"
      <4>1. m = n /\ remembered' = remembered
        BY <1>5, <3>3
      <4>2. n.type # "Command"
        BY <1>3 DEF NetworkNotices
      <4>3. m # Command(id)
        BY <4>1, <4>2, NoNoticeIs
      <4> HIDE DEF m
      <4> QED BY <3>1, <4>1, <4>3, OnceAccepted
    <3> QED BY <3>2, <3>3
  <2> QED BY <1>1, <1>8, <1>9, <2>1 DEF OnceOK
<1>12. LinkOK'
  <2> SUFFICES ASSUME ~cancelled PROVE Flows(reported, notices, m, Tail(network), worker.held, LinkState)
    BY <1>1, <1>8, <1>9 DEF LinkOK, LinkState
  <2>1. PICK k1, k2, k3 \in LinkStates :
            /\ Leads(reported, notices, k1) /\ Changes(k1, Due, k2) /\ Leads(k2, network, k3)
            /\ Changes(k3, worker.held, LinkState)
    BY DEF IInv, LinkOK, Flows
  <2>2. k1 = k2
    BY <1>8, <2>1, NoChange, NoNoticeIs
  <2>3. PICK c \in LinkStates : Changes(k2, n, c) /\ Leads(c, Tail(network), k3)
    BY <1>1, <1>2, <2>1, LeadsOn DEF n
  <2>4. Changes(k1, m, c)
    <3>1. CASE n.type = "Publish"
      <4>1. c = k2
        BY <2>3, <3>1, NoChange DEF LinkStates
      <4>2. m = Command(n.id)
        BY <3>1
      <4>3. m.type \notin LinkStates
        BY <4>2, NoNoticeIs DEF LinkStates
      <4> HIDE DEF m
      <4> QED BY <2>2, <4>1, <4>3, NoChange
    <3>2. CASE n.type # "Publish"
      BY <2>2, <2>3, <3>2
    <3> QED BY <3>1, <3>2
  <2> HIDE DEF m
  <2> QED BY <2>1, <2>3, <2>4 DEF Flows
<1> QED BY <1>7, <1>9, <1>10, <1>11, <1>12 DEF IInv

-----------------------------------------------------------------------------
(* mqtt_bridge and bridge_loop.                                            *)

\* The gateway is cancelled before it is joined.
Closed == bridge.at \in {"joining", "stopped"} => cancelled

\* Nobody takes the cancellation back.
LEMMA GatewayStepsCancel ==
    ASSUME GatewayNext
    PROVE  cancelled' = cancelled \/ cancelled' = TRUE
<1>1. CASE WorkerProgress
  BY <1>1 DEF WorkerProgress, WorkerFlushes, WorkerBackoffEnds, WorkerSends, WorkerStops, WorkerUnchanged
<1>2. CASE RunnerProgress
  BY <1>2 DEF RunnerProgress, RunnerTakesPublication, RunnerTakesNotice, RunnerRefuses,
     RunnerSubscriptionRejected, RunnerSendsNotice, RunnerQueuesRequest, RunnerTimesOut, RunnerCancelled,
     RunnerStops, Leave
<1>3. CASE BrokerStep
  BY <1>3 DEF BrokerStep, WorkerConnAck, WorkerSubAck, WorkerError, WorkerReceives, WorkerUnchanged
<1> QED BY <1>1, <1>2, <1>3 DEF GatewayNext

\* ... and the loop joins only what it has cancelled.
LEMMA AlwaysClosed == Spec => []Closed
<1>1. Init => Closed
  BY DEF Init, Closed
<1>2. Closed /\ [Next]_vars => Closed'
  <2> SUFFICES ASSUME Closed, [Next]_vars PROVE Closed'
    OBVIOUS
  <2>1. CASE GatewaySteps
    <3>1. bridge' = bridge /\ (cancelled' = cancelled \/ cancelled' = TRUE)
      BY <2>1, GatewayStepsCancel DEF GatewaySteps
    <3> QED BY <3>1 DEF Closed
  <2>2. CASE BridgePublishes \/ PublishCancelled \/ HandlerEnds \/ HandlerFails
    <3>1. bridge'.at \in {"start", "work", "select", "closing"}
      BY <2>2 DEF BridgePublishes, PublishCancelled, HandlerEnds, HandlerFails, Goto
    <3> QED BY <3>1 DEF Closed
  <2>3. CASE DeviceEvent \/ ContactResyncDue \/ BridgeTakesNotice \/ GatewayGone
    <3>1. CASE DeviceEvent \/ ContactResyncDue \/ GatewayGone
      <4>1. \E at \in {"work", "closing"} : \E left : bridge' = [at |-> at, left |-> left]
        BY <3>1, Zenon DEF DeviceEvent, ContactResyncDue, GatewayGone, Goto
      <4>2. bridge'.at \in {"work", "closing"}
        BY <4>1
      <4> QED BY <4>2 DEF Closed
    <3>2. CASE BridgeTakesNotice
      <4>1. \E left : bridge' = [at |-> "work", left |-> left]
        BY <3>2, Zenon DEF BridgeTakesNotice, Goto
      <4>2. bridge'.at = "work"
        BY <4>1
      <4> QED BY <4>2 DEF Closed
    <3> QED BY <2>3, <3>1, <3>2
  <2>4. CASE CtrlC
    <3>1. CASE At("select")
      <4>1. bridge'.at = "closing"
        BY <2>4, <3>1 DEF CtrlC, Goto
      <4> QED BY <4>1 DEF Closed
    <3>2. CASE ~At("select")
      <4>1. bridge' = bridge /\ cancelled' = cancelled
        BY <2>4, <3>2 DEF CtrlC, GatewayUnchanged, gatewayVars
      <4> QED BY <4>1 DEF Closed
    <3> QED BY <3>1, <3>2
  <2>5. CASE BridgeCloses
    BY <2>5 DEF BridgeCloses, Closed
  <2>6. CASE BridgeStops \/ JoinTimesOut
    <3>1. bridge.at = "joining" /\ cancelled' = cancelled
      BY <2>6 DEF BridgeStops, JoinTimesOut, At, GatewayUnchanged, gatewayVars
    <3> QED BY <3>1 DEF Closed
  <2>7. CASE UNCHANGED vars
    <3>1. bridge' = bridge /\ cancelled' = cancelled
      BY <2>7 DEF vars, gatewayVars
    <3> QED BY <3>1 DEF Closed
  <2> QED BY <2>1, <2>2, <2>3, <2>4, <2>5, <2>6, <2>7 DEF Next, BridgeProgress
<1> QED BY <1>1, <1>2, PTL DEF Spec

\* The loop moves and leaves the channels and what it has done alone.
LEMMA LoopMoves ==
    ASSUME IInv, UNCHANGED <<brokerVars, worker, network, runner, notices, requests, remembered>>,
           UNCHANGED <<reported, executed>>,
           publications' \in 0 .. ChannelCapacity, cancelled => cancelled', cancelled' \in BOOLEAN,
           bridge' \in [at : {"start", "select", "work", "closing", "joining", "stopped"}, left : 0 .. LeftMax]
    PROVE  IInv'
<1>1. WorkerOK' /\ UNCHANGED <<up, worker>>
  BY DEF IInv, WorkerOK, brokerVars
<1>2. RunnerOK' /\ Due' = Due
  BY RunnerStays
<1>3. ChannelsOK'
  BY DEF IInv, ChannelsOK
<1>4. BridgeOK'
  BY DEF IInv, BridgeOK
<1>5. LinkOK' /\ OnceOK'
  BY <1>1, <1>2, FlowStays
<1> QED BY <1>1, <1>2, <1>3, <1>4, <1>5 DEF IInv

\* 0 and 1 publications are always within the bound.
LEMMA LeftIs ==
    /\ LeftMax \in Nat /\ 0 \in 0 .. LeftMax /\ 1 \in 0 .. LeftMax
    /\ \A left \in 0 .. SnapshotSize : left \in 0 .. LeftMax
BY BridgeAssumption DEF LeftMax

\* gateway.publish()
LEMMA BridgePublishesKeeps ==
    ASSUME IInv, BridgePublishes
    PROVE  IInv'
<1>1. /\ UNCHANGED <<brokerVars, worker, network, runner, notices, requests, remembered>>
      /\ UNCHANGED <<reported, executed>> /\ cancelled' = cancelled
  BY DEF BridgePublishes, historyVars
<1>2. cancelled \in BOOLEAN /\ publications \in 0 .. ChannelCapacity
  BY DEF IInv, ChannelsOK
<1>3. publications' \in 0 .. ChannelCapacity
  BY <1>2, GatewayAssumption DEF BridgePublishes
<1>4. bridge' \in [at : {"start", "select", "work", "closing", "joining", "stopped"}, left : 0 .. LeftMax]
  <2>1. bridge.at \in {"start", "work"} /\ bridge.left > 0 /\ bridge' = [at |-> bridge.at, left |-> bridge.left - 1]
    BY DEF BridgePublishes, Goto
  <2>2. bridge.left \in 0 .. LeftMax
    BY DEF IInv, BridgeOK
  <2>3. bridge.left - 1 \in 0 .. LeftMax
    BY <2>1, <2>2, LeftIs
  <2> QED BY <2>1, <2>3
<1> QED BY <1>1, <1>2, <1>3, <1>4, LoopMoves

\* Every step of the loop that does not touch the gateway.
LEMMA LoopStepsKeep ==
    ASSUME IInv, \/ PublishCancelled \/ HandlerEnds \/ HandlerFails \/ DeviceEvent \/ ContactResyncDue
                 \/ GatewayGone \/ CtrlC \/ BridgeStops
    PROVE  IInv'
<1>1. GatewayUnchanged /\ UNCHANGED <<reported, executed>>
  BY DEF PublishCancelled, HandlerEnds, HandlerFails, DeviceEvent, ContactResyncDue, GatewayGone, CtrlC,
     BridgeStops, historyVars
<1>2. /\ UNCHANGED <<brokerVars, worker, network, runner, notices, requests, remembered>>
      /\ cancelled' = cancelled /\ publications' = publications
  BY <1>1 DEF GatewayUnchanged, gatewayVars
<1>3. publications' \in 0 .. ChannelCapacity /\ cancelled \in BOOLEAN
  BY <1>2 DEF IInv, ChannelsOK
<1>4. bridge' \in [at : {"start", "select", "work", "closing", "joining", "stopped"}, left : 0 .. LeftMax]
  <2>1. CASE bridge' = bridge
    BY <2>1 DEF IInv, BridgeOK
  <2>2. CASE \E at \in {"select", "work", "closing", "stopped"}, n \in 0 .. 1 : bridge' = [at |-> at, left |-> n]
    <3>1. PICK at \in {"select", "work", "closing", "stopped"}, n \in 0 .. 1 : bridge' = [at |-> at, left |-> n]
      BY <2>2
    <3>2. n \in 0 .. LeftMax
      BY LeftIs
    <3> QED BY <3>1, <3>2
  <2>3. 0 \in 0 .. 1
    OBVIOUS
  <2>4. CASE PublishCancelled \/ HandlerFails \/ GatewayGone
    BY <2>2, <2>3, <2>4 DEF PublishCancelled, HandlerFails, GatewayGone, Goto
  <2>5. CASE HandlerEnds
    <3>1. CASE deviceLost
      BY <2>2, <2>3, <2>5, <3>1 DEF HandlerEnds, Goto
    <3>2. CASE ~deviceLost
      BY <2>2, <2>3, <2>5, <3>2 DEF HandlerEnds, Goto
    <3> QED BY <3>1, <3>2
  <2>6. CASE DeviceEvent \/ ContactResyncDue
    BY <2>2, <2>6 DEF DeviceEvent, ContactResyncDue, Goto
  <2>7. CASE CtrlC
    <3>1. CASE At("select")
      BY <2>2, <2>3, <2>7, <3>1 DEF CtrlC, Goto
    <3>2. CASE ~At("select")
      BY <2>1, <2>7, <3>2 DEF CtrlC
    <3> QED BY <3>1, <3>2
  <2>8. CASE BridgeStops
    BY <2>2, <2>3, <2>8 DEF BridgeStops, Goto
  <2> QED BY <2>4, <2>5, <2>6, <2>7, <2>8
<1> QED BY <1>1, <1>2, <1>3, <1>4, LoopMoves

\* gateway.cancel()
LEMMA BridgeClosesKeeps ==
    ASSUME IInv, BridgeCloses
    PROVE  IInv'
<1>1. /\ UNCHANGED <<brokerVars, worker, network, runner, notices, requests, remembered>>
      /\ UNCHANGED <<reported, executed>> /\ cancelled' = TRUE /\ publications' = publications
  BY DEF BridgeCloses, historyVars
<1>2. publications' \in 0 .. ChannelCapacity
  BY <1>1 DEF IInv, ChannelsOK
<1>3. bridge' \in [at : {"start", "select", "work", "closing", "joining", "stopped"}, left : 0 .. LeftMax]
  BY LeftIs DEF BridgeCloses, Goto
<1> QED BY <1>1, <1>2, <1>3, LoopMoves

\* join_gateway aborts the runner.
LEMMA JoinTimesOutKeeps ==
    ASSUME IInv, Closed, JoinTimesOut
    PROVE  IInv'
<1>1. /\ UNCHANGED <<brokerVars, worker, network, notices, requests, publications, remembered, cancelled>>
      /\ UNCHANGED <<reported, executed>> /\ bridge.at = "joining"
      /\ runner' = [at |-> "stopped", todo |-> <<>>] /\ bridge' = [at |-> "stopped", left |-> 0]
  BY DEF JoinTimesOut, historyVars, At, Goto
<1>2. cancelled' = TRUE
  BY <1>1 DEF Closed, IInv, ChannelsOK
<1>3. WorkerOK'
  BY <1>1 DEF IInv, WorkerOK, brokerVars
<1>4. RunnerOK' /\ Due' = NoNotice
  <2>1. <<>> \in Seq(HandlerSteps) /\ Len(<<>>) = 0
    OBVIOUS
  <2>2. /\ runner'.at = "stopped" /\ runner'.todo = <<>>
        /\ runner' \in [at : {"run", "joining", "stopped"}, todo : Seq(HandlerSteps)]
    BY <1>1, <2>1
  <2> QED BY <2>1, <2>2 DEF RunnerOK, Due
<1>5. ChannelsOK'
  BY <1>1 DEF IInv, ChannelsOK
<1>6. BridgeOK'
  BY <1>1, LeftIs DEF IInv, BridgeOK
<1>7. LinkOK' /\ OnceOK'
  BY <1>1, <1>2, <1>4, FlowEnds
<1> QED BY <1>3, <1>4, <1>5, <1>6, <1>7 DEF IInv

\* recv_notice: the notice is taken, and what it reports is known.
LEMMA BridgeTakesNoticeKeeps ==
    ASSUME IInv, BridgeTakesNotice
    PROVE  IInv'
<1> DEFINE n == Head(notices)
<1>1. /\ notices # <<>> /\ notices' = Tail(notices)
      /\ UNCHANGED <<brokerVars, worker, network, runner, publications, requests, remembered, cancelled>>
  BY DEF BridgeTakesNotice
<1>2. reported' = IF n.type \in LinkStates THEN n.type ELSE reported
  BY DEF BridgeTakesNotice, LinkStates
<1>3. executed' = IF n.type = "Command" THEN [executed EXCEPT ![n.id] = @ + 1] ELSE executed
  BY DEF BridgeTakesNotice
<1>4. notices \in Seq(LoopNotices) /\ Len(notices) <= ChannelCapacity /\ cancelled \in BOOLEAN
  BY DEF IInv, ChannelsOK
<1>5. n \in LoopNotices /\ Tail(notices) \in Seq(LoopNotices) /\ Len(Tail(notices)) <= ChannelCapacity
  BY <1>1, <1>4, TakeIs
<1>6. executed \in [EventIds -> {0, 1}] /\ reported \in LinkStates
  BY DEF IInv, BridgeOK
<1>7. WorkerOK' /\ UNCHANGED <<up, worker>>
  BY <1>1 DEF IInv, WorkerOK, brokerVars
<1>8. RunnerOK' /\ Due' = Due
  BY <1>1, RunnerStays
<1>9. ChannelsOK'
  BY <1>1, <1>5 DEF IInv, ChannelsOK
<1>10. bridge' \in [at : {"start", "select", "work", "closing", "joining", "stopped"}, left : 0 .. LeftMax]
  <2>1. PICK left : bridge' = [at |-> "work", left |-> left] /\ (left \in 0 .. SnapshotSize \/ left = 0)
    <3>1. \E left \in IF n.type = "Connected" /\ reconnectPending THEN 0 .. SnapshotSize ELSE {0} :
              bridge' = [at |-> "work", left |-> left]
      BY DEF BridgeTakesNotice, Goto
    <3> QED BY <3>1
  <2>2. left \in 0 .. LeftMax
    BY <2>1, LeftIs
  <2> QED BY <2>1, <2>2
<1> HIDE DEF n
<1>11. ASSUME NEW id \in EventIds
       PROVE  executed'[id] \in {0, 1} /\ Once(Tail(notices), Due, id, executed'[id], remembered, cancelled)
  <2>1. Once(notices, Due, id, executed[id], remembered, cancelled) /\ executed[id] \in {0, 1}
    BY <1>6 DEF IInv, OnceOK
  <2>2. /\ n = Command(id) => executed[id] = 0 /\ Once(Tail(notices), Due, id, 1, remembered, cancelled)
        /\ n # Command(id) => Once(Tail(notices), Due, id, executed[id], remembered, cancelled)
    BY <1>1, <1>4, <2>1, OnceTaken DEF n
  <2>3. CASE n = Command(id)
    <3>1. n.type = "Command" /\ n.id = id
      BY <2>3, NoNoticeIs
    <3>2. executed'[id] = executed[id] + 1 /\ executed[id] = 0
      BY <1>3, <1>6, <2>2, <2>3, <3>1
    <3>3. executed'[id] = 1
      BY <3>2
    <3> QED BY <2>2, <2>3, <3>3
  <2>4. CASE n # Command(id)
    <3>1. ~(n.type = "Command" /\ n.id = id)
      BY <1>5, <2>4 DEF LoopNotices, Command, Notice
    <3>2. executed'[id] = executed[id]
      BY <1>3, <1>6, <3>1
    <3> QED BY <2>1, <2>2, <2>4, <3>2
  <2> QED BY <2>3, <2>4
<1>12. OnceOK'
  BY <1>1, <1>8, <1>11 DEF OnceOK
<1>13. reported' \in LinkStates
  BY <1>2, <1>6
<1>14. executed' \in [EventIds -> {0, 1}]
  <2>1. DOMAIN executed' = EventIds /\ executed' = [id \in EventIds |-> executed'[id]]
    BY <1>3, <1>6
  <2> QED BY <1>11, <2>1
<1>15. BridgeOK'
  BY <1>10, <1>13, <1>14 DEF BridgeOK
<1>16. LinkOK'
  <2> SUFFICES ASSUME ~cancelled PROVE Flows(reported', Tail(notices), Due, network, worker.held, LinkState)
    BY <1>1, <1>7, <1>8 DEF LinkOK, LinkState
  <2>1. PICK k1, k2, k3 \in LinkStates :
            /\ Leads(reported, notices, k1) /\ Changes(k1, Due, k2) /\ Leads(k2, network, k3)
            /\ Changes(k3, worker.held, LinkState)
    BY DEF IInv, LinkOK, Flows
  <2>2. PICK c \in LinkStates : Changes(reported, n, c) /\ Leads(c, Tail(notices), k1)
    BY <1>1, <1>4, <2>1, LeadsOn DEF n
  <2>3. reported' = c
    BY <1>2, <2>2 DEF Changes
  <2> QED BY <2>1, <2>2, <2>3 DEF Flows
<1> QED BY <1>7, <1>8, <1>9, <1>12, <1>15, <1>16 DEF IInv

-----------------------------------------------------------------------------
(* The invariant.                                                          *)

\* The bridge starts with nothing on its way.
LEMMA InitIInv == Init => IInv
<1> SUFFICES ASSUME Init PROVE IInv
  OBVIOUS
<1>1. /\ up = FALSE /\ subscribing = FALSE /\ worker = [at |-> "poll", held |-> NoNotice]
      /\ network = <<>> /\ notices = <<>> /\ requests = <<>> /\ publications = 0
      /\ runner = [at |-> "run", todo |-> <<>>] /\ remembered = {} /\ cancelled = FALSE
      /\ bridge \in [at : {"start"}, left : 0 .. SnapshotSize]
      /\ reported = "Disconnected" /\ executed = [id \in EventIds |-> 0]
  BY DEF Init, GatewayInit
<1>2. WorkerOK
  BY <1>1 DEF WorkerOK
<1>3. RunnerOK /\ Due = NoNotice
  <2>1. <<>> \in Seq(HandlerSteps) /\ Len(<<>>) = 0
    OBVIOUS
  <2>2. /\ runner.at = "run" /\ runner.todo = <<>>
        /\ runner \in [at : {"run", "joining", "stopped"}, todo : Seq(HandlerSteps)]
    BY <1>1, <2>1
  <2> QED BY <2>1, <2>2 DEF RunnerOK, Due
<1>4. ChannelsOK
  <2>1. network \in Seq(NetworkNotices) /\ notices \in Seq(LoopNotices) /\ requests \in Seq(RequestKinds)
    BY <1>1
  <2>2. Len(network) = 0 /\ Len(notices) = 0 /\ Len(requests) = 0
    BY <1>1
  <2>3. ChannelCapacity \in Nat /\ publications \in 0 .. ChannelCapacity
    BY <1>1, GatewayAssumption
  <2>4. 0 <= ChannelCapacity
    BY <2>3
  <2>5. remembered \in SUBSET EventIds /\ cancelled \in BOOLEAN
    BY <1>1
  <2> QED BY <2>1, <2>2, <2>3, <2>4, <2>5 DEF ChannelsOK
<1>5. BridgeOK
  <2>1. bridge.at = "start" /\ bridge.left \in 0 .. LeftMax
    BY <1>1, LeftIs
  <2>2. bridge \in [at : {"start", "select", "work", "closing", "joining", "stopped"}, left : 0 .. LeftMax]
    BY <1>1, <2>1
  <2>3. executed \in [EventIds -> {0, 1}]
    BY <1>1
  <2> QED BY <1>1, <2>2, <2>3 DEF BridgeOK, LinkStates
<1>6. LinkOK
  <2> DEFINE d == "Disconnected"
  <2>1. d \in LinkStates /\ LinkState = d /\ reported = d /\ worker.held = NoNotice
    BY <1>1 DEF LinkStates, LinkState
  <2>2. Leads(d, notices, d) /\ Leads(d, network, d)
    BY <1>1, <2>1, LeadsNowhere
  <2>3. Changes(d, NoNotice, d)
    BY NoChange, NoNoticeIs
  <2> HIDE DEF d
  <2>4. Flows(reported, notices, Due, network, worker.held, LinkState)
    BY <1>3, <2>1, <2>2, <2>3 DEF Flows
  <2> QED BY <2>4 DEF LinkOK
<1>7. OnceOK
  <2> SUFFICES ASSUME NEW id \in EventIds PROVE Once(notices, Due, id, executed[id], remembered, cancelled)
    BY DEF OnceOK
  <2>1. Len(notices) = 0 /\ executed[id] = 0 /\ Due # Command(id)
    BY <1>1, <1>3, NoNoticeIs
  <2>2. ~Waits(notices, id)
    BY <2>1 DEF Waits
  <2>3. \A i, j \in 1 .. Len(notices) : notices[i] = Command(id) /\ notices[j] = Command(id) => i = j
    BY <2>1
  <2> QED BY <1>1, <2>1, <2>2, <2>3 DEF Once
<1> QED BY <1>2, <1>3, <1>4, <1>5, <1>6, <1>7 DEF IInv

\* Every step keeps the changes complete and the commands single.
LEMMA NextIInv == IInv /\ Closed /\ [Next]_vars => IInv'
<1> SUFFICES ASSUME IInv, Closed, [Next]_vars PROVE IInv'
  OBVIOUS
<1>1. CASE GatewaySteps
  <2>1. GatewayNext /\ UNCHANGED <<bridge, loopVars, historyVars>>
    BY <1>1 DEF GatewaySteps
  <2>2. CASE WorkerProgress
    BY <2>1, <2>2, WorkerMovesKeep, WorkerSendsKeeps DEF WorkerProgress
  <2>3. CASE RunnerProgress
    BY <2>1, <2>3, RunnerTakesPublicationKeeps, RunnerTakesNoticeKeeps, RunnerRefusesKeeps, RunnerEndsKeep,
       RunnerSendsNoticeKeeps, RunnerQueuesRequestKeeps, RunnerStopsKeeps DEF RunnerProgress
  <2>4. CASE BrokerStep
    BY <2>1, <2>4, BrokerStepKeeps
  <2> QED BY <2>1, <2>2, <2>3, <2>4 DEF GatewayNext
<1>2. CASE BridgeProgress
  BY <1>2, BridgePublishesKeeps, LoopStepsKeep, BridgeClosesKeeps, JoinTimesOutKeeps DEF BridgeProgress
<1>3. CASE HandlerFails \/ DeviceEvent \/ ContactResyncDue \/ CtrlC \/ GatewayGone
  BY <1>3, LoopStepsKeep
<1>4. CASE BridgeTakesNotice
  BY <1>4, BridgeTakesNoticeKeeps
<1>5. CASE UNCHANGED vars
  <2>1. /\ UNCHANGED <<brokerVars, worker, network, runner, notices, requests, remembered>>
        /\ UNCHANGED <<reported, executed>> /\ UNCHANGED <<publications, cancelled, bridge>>
    BY <1>5 DEF vars, gatewayVars, historyVars
  <2>2. publications' \in 0 .. ChannelCapacity /\ cancelled \in BOOLEAN
    BY <2>1 DEF IInv, ChannelsOK
  <2>3. bridge' \in [at : {"start", "select", "work", "closing", "joining", "stopped"}, left : 0 .. LeftMax]
    BY <2>1 DEF IInv, BridgeOK
  <2> QED BY <2>1, <2>2, <2>3, LoopMoves
<1> QED BY <1>1, <1>2, <1>3, <1>4, <1>5 DEF Next

\* The invariant always holds.
LEMMA AlwaysIInv == Spec => []IInv
<1>1. Spec => []Closed
  BY AlwaysClosed
<1> QED BY <1>1, InitIInv, NextIInv, PTL DEF Spec

-----------------------------------------------------------------------------
(* What the invariant says about the bridge.                               *)

AnyNotices == LoopNotices \cup NetworkNotices \cup {NoNotice}

\* The steps of the handler as the loop will see them: at most the first is a notice, the one that is due.
LEMMA NoticesInAre ==
    ASSUME IInv
    PROVE  /\ NoticesIn(runner.todo) \in Seq(AnyNotices)
           /\ Len(NoticesIn(runner.todo)) \in Nat
           /\ \A i \in 1 .. Len(NoticesIn(runner.todo)) :
                  NoticesIn(runner.todo)[i] = IF i = 1 THEN Due ELSE NoNotice
           /\ NoticesIn(runner.todo) = <<>> => Due = NoNotice
           /\ NoticesIn(runner.todo) # <<>> => 1 \in 1 .. Len(NoticesIn(runner.todo))
<1> DEFINE todo == runner.todo
           s == NoticesIn(todo)
           l == Len(todo)
<1>1. todo \in Seq(HandlerSteps) /\ l \in Nat /\ DOMAIN todo = 1 .. l
  BY DEF IInv, RunnerOK
<1>2. \A i \in 1 .. l : todo[i] \in HandlerSteps
  BY <1>1
<1>3. \A i \in 2 .. l : todo[i].do = "request"
  BY DEF IInv, RunnerOK
<1>4. todo # <<>> => Head(todo) = todo[1] /\ 1 \in 1 .. l
  BY <1>1
<1>5. todo = <<>> => l = 0
  OBVIOUS
<1>6. Due = IF todo # <<>> /\ Head(todo).do = "notice" THEN Head(todo).arg ELSE NoNotice
  BY DEF Due
<1> HIDE DEF todo, l
<1>7. s = [i \in 1 .. l |-> IF todo[i].do = "notice" THEN todo[i].arg ELSE NoNotice]
  BY <1>1 DEF NoticesIn
<1>8. \A i \in 1 .. l : (IF todo[i].do = "notice" THEN todo[i].arg ELSE NoNotice) \in AnyNotices
  BY <1>2 DEF HandlerSteps, AnyNotices
<1>9. s \in Seq(AnyNotices) /\ Len(s) = l
  BY <1>1, <1>7, <1>8
<1>10. \A i \in 1 .. l : s[i] = IF i = 1 THEN Due ELSE NoNotice
  <2> TAKE i \in 1 .. l
  <2>1. s[i] = IF todo[i].do = "notice" THEN todo[i].arg ELSE NoNotice
    BY <1>7
  <2>2. CASE i = 1
    <3>1. todo # <<>>
      BY <1>1, <1>5, <2>2
    <3> QED BY <1>4, <1>6, <2>1, <2>2, <3>1
  <2>3. CASE i # 1
    <3>1. i \in 2 .. l
      BY <1>1, <2>3
    <3>2. todo[i].do # "notice"
      BY <1>3, <3>1
    <3> QED BY <2>1, <2>3, <3>2
  <2> QED BY <2>2, <2>3
<1> HIDE DEF s
<1>11. s = <<>> => Due = NoNotice
  <2> HAVE s = <<>>
  <2>1. l = 0
    BY <1>9
  <2>2. todo = <<>>
    BY <1>4, <2>1
  <2> QED BY <1>6, <2>2
<1>12. s # <<>> => 1 \in 1 .. l
  BY <1>1, <1>9
<1> QED BY <1>1, <1>9, <1>10, <1>11, <1>12 DEF s, todo

\* The handler's notice leads where the one that is due leads.
LEMMA HandlerLeads ==
    ASSUME IInv, NEW a \in LinkStates, NEW b \in LinkStates, Changes(a, Due, b)
    PROVE  Leads(a, NoticesIn(runner.todo), b)
<1> DEFINE s == NoticesIn(runner.todo)
           l == Len(s)
<1>1. /\ s \in Seq(AnyNotices) /\ l \in Nat /\ (s = <<>> => Due = NoNotice) /\ (s # <<>> => 1 \in 1 .. l)
      /\ \A i \in 1 .. l : s[i] = IF i = 1 THEN Due ELSE NoNotice
  BY NoticesInAre
<1> HIDE DEF s
<1>2. CASE s = <<>>
  <2>1. a = b
    BY <1>1, <1>2, NoChange, NoNoticeIs
  <2>2. Leads(a, s, a)
    BY <1>2, LeadsNowhere
  <2> QED BY <2>1, <2>2 DEF s
<1>3. CASE s # <<>>
  <2> DEFINE knows == [i \in 0 .. l |-> IF i = 0 THEN a ELSE b]
  <2> HIDE DEF l
  <2>1. knows \in [0 .. l -> LinkStates] /\ knows[0] = a /\ \A i \in 1 .. l : knows[i] = b
    BY <1>1
  <2>2. l \in 1 .. l
    BY <1>1, <1>3
  <2>3. \A i \in 1 .. l : knows[i - 1] = IF i = 1 THEN a ELSE b
    BY <1>1
  <2> HIDE DEF knows
  <2>4. ASSUME NEW i \in 1 .. l PROVE Changes(knows[i - 1], s[i], knows[i])
    <3>1. CASE i = 1
      <4>1. knows[i - 1] = a /\ s[i] = Due /\ knows[i] = b
        BY <1>1, <2>1, <2>3, <3>1
      <4> QED BY <4>1
    <3>2. CASE i # 1
      <4>1. knows[i - 1] = b /\ s[i] = NoNotice /\ knows[i] = b
        BY <1>1, <2>1, <2>3, <3>2
      <4> QED BY <4>1, NoChange, NoNoticeIs
    <3> QED BY <3>1, <3>2
  <2>5. knows[l] = b /\ l = Len(s)
    BY <2>1, <2>2 DEF l
  <2>6. Leads(a, s, b)
    BY <2>1, <2>4, <2>5 DEF Leads
  <2> QED BY <2>6 DEF s
<1> QED BY <1>2, <1>3

\* A single notice.
LEMMA OneLeads ==
    ASSUME NEW n \in AnyNotices, NEW a \in LinkStates, NEW b \in LinkStates, Changes(a, n, b)
    PROVE  Leads(a, <<n>>, b)
<1> DEFINE none == <<>>
<1>1. none \in Seq(AnyNotices)
  OBVIOUS
<1>2. Append(none, n) = <<n>>
  OBVIOUS
<1>3. Leads(a, none, a)
  BY LeadsNowhere
<1> HIDE DEF none
<1>4. Leads(a, Append(none, n), b)
  BY <1>1, <1>3, LeadsFurther
<1> QED BY <1>2, <1>4

\* The channels and the handler, joined.
LEMMA PipelineLeads ==
    ASSUME IInv, ~cancelled
    PROVE  Leads(reported, Pipeline, LinkState)
<1>1. PICK k1, k2, k3 \in LinkStates :
          /\ Leads(reported, notices, k1) /\ Changes(k1, Due, k2) /\ Leads(k2, network, k3)
          /\ Changes(k3, worker.held, LinkState)
  BY DEF IInv, LinkOK, Flows
<1>2. LinkState \in LinkStates
  BY DEF LinkState, LinkStates
<1>3. notices \in Seq(AnyNotices) /\ network \in Seq(AnyNotices)
  <2>1. notices \in Seq(LoopNotices) /\ network \in Seq(NetworkNotices)
    BY DEF IInv, ChannelsOK
  <2>2. LoopNotices \subseteq AnyNotices /\ NetworkNotices \subseteq AnyNotices
    BY DEF AnyNotices
  <2> QED BY <2>1, <2>2
<1>4. worker.held \in AnyNotices
  BY DEF IInv, WorkerOK, AnyNotices
<1> DEFINE s == NoticesIn(runner.todo)
           t == <<worker.held>>
<1>5. s \in Seq(AnyNotices) /\ t \in Seq(AnyNotices)
  BY <1>4, NoticesInAre
<1>6. Leads(k1, s, k2)
  BY <1>1, HandlerLeads
<1>7. Leads(k3, t, LinkState)
  BY <1>1, <1>2, <1>4, OneLeads
<1>8. Pipeline = ((notices \o s) \o network) \o t
  BY DEF Pipeline
<1> HIDE DEF s, t
<1> DEFINE p == notices \o s
           q == p \o network
<1>9. Leads(reported, p, k2) /\ p \in Seq(AnyNotices)
  BY <1>1, <1>3, <1>5, <1>6, LeadsThrough
<1> HIDE DEF p
<1>10. Leads(reported, q, k3) /\ q \in Seq(AnyNotices)
  BY <1>1, <1>3, <1>9, LeadsThrough
<1> HIDE DEF q
<1>11. Leads(reported, q \o t, LinkState)
  BY <1>5, <1>7, <1>10, LeadsThrough
<1> QED BY <1>8, <1>11 DEF p, q

\* The channels hold what they may and lead from what the loop knows to what the worker knows.
LEMMA IInvFollows == IInv => LinkIsFollowed
<1> SUFFICES ASSUME IInv PROVE LinkIsFollowed
  OBVIOUS
<1>1. LinkChangesAreComplete
  BY PipelineLeads DEF LinkChangesAreComplete
<1>2. /\ up \in BOOLEAN /\ subscribing \in BOOLEAN /\ worker.at \in {"poll", "send", "backoff", "stopped"}
  BY DEF IInv, WorkerOK
<1>3. runner.at \in {"run", "joining", "stopped"} /\ Len(runner.todo) <= 3
  BY DEF IInv, RunnerOK
<1>4. /\ bridge.at \in {"start", "select", "work", "closing", "joining", "stopped"}
      /\ bridge.left \in 0 .. (IF SnapshotSize > 0 THEN SnapshotSize ELSE 1)
  BY DEF IInv, BridgeOK, LeftMax
<1>5. TypeOK
  BY <1>2, <1>3, <1>4 DEF IInv, ChannelsOK, TypeOK
<1> QED BY <1>1, <1>5 DEF LinkIsFollowed

\* What is underway to the loop waits in the channel or is due.
LEMMA UnderwayIs ==
    ASSUME IInv, NEW id \in EventIds
    PROVE  Underway(id) # {} <=> Waits(notices, id) \/ Due = Command(id)
<1> DEFINE s == NoticesIn(runner.todo)
           q == notices \o s
           l == Len(notices)
           m == Len(s)
<1>1. /\ s \in Seq(AnyNotices) /\ m \in Nat /\ (s = <<>> => Due = NoNotice) /\ (s # <<>> => 1 \in 1 .. m)
      /\ \A i \in 1 .. m : s[i] = IF i = 1 THEN Due ELSE NoNotice
  BY NoticesInAre
<1>2. notices \in Seq(AnyNotices) /\ l \in Nat
  <2>1. notices \in Seq(LoopNotices)
    BY DEF IInv, ChannelsOK
  <2>2. LoopNotices \subseteq AnyNotices
    BY DEF AnyNotices
  <2> QED BY <2>1, <2>2
<1>3. Underway(id) = {i \in DOMAIN q : q[i] = Command(id)}
  BY DEF Underway, Command
<1>4. NoNotice # Command(id)
  BY NoNoticeIs
<1>5. Waits(notices, id) <=> \E i \in 1 .. l : notices[i] = Command(id)
  BY DEF Waits
<1> HIDE DEF s
<1>6. DOMAIN q = 1 .. l + m /\ (\A i \in 1 .. l : q[i] = notices[i]) /\ \A i \in l + 1 .. l + m : q[i] = s[i - l]
  BY <1>1, <1>2
<1> HIDE DEF q, l, m
<1>7. ASSUME NEW i \in 1 .. l + m, q[i] = Command(id) PROVE Waits(notices, id) \/ Due = Command(id)
  <2>1. CASE i <= l
    <3>1. i \in 1 .. l
      BY <1>1, <1>2, <2>1
    <3> QED BY <1>5, <1>6, <1>7, <3>1
  <2>2. CASE ~(i <= l)
    <3>1. i \in l + 1 .. l + m /\ i - l \in 1 .. m
      BY <1>1, <1>2, <2>2
    <3>2. s[i - l] = Command(id)
      BY <1>6, <1>7, <3>1
    <3> QED BY <1>1, <1>4, <3>1, <3>2
  <2> QED BY <2>1, <2>2
<1>8. ASSUME NEW i \in 1 .. l, notices[i] = Command(id) PROVE Underway(id) # {}
  <2>1. i \in DOMAIN q /\ q[i] = Command(id)
    BY <1>1, <1>2, <1>6, <1>8
  <2> QED BY <1>3, <2>1
<1>9. ASSUME Due = Command(id) PROVE Underway(id) # {}
  <2>1. s # <<>>
    BY <1>1, <1>4, <1>9
  <2>2. 1 \in 1 .. m /\ s[1] = Command(id)
    BY <1>1, <1>9, <2>1
  <2>3. l + 1 \in l + 1 .. l + m /\ l + 1 \in 1 .. l + m /\ (l + 1) - l = 1
    BY <1>1, <1>2, <2>2
  <2>4. l + 1 \in DOMAIN q /\ q[l + 1] = Command(id)
    BY <1>6, <2>2, <2>3
  <2> QED BY <1>3, <2>4
<1> QED BY <1>3, <1>5, <1>6, <1>7, <1>8, <1>9

\* A command is executed, or waits, or is due.
LEMMA IInvOnce == IInv => ExactlyOnce
<1> SUFFICES ASSUME IInv PROVE ExactlyOnce
  OBVIOUS
<1>1. executed \in [EventIds -> {0, 1}] /\ remembered \in SUBSET EventIds
  BY DEF IInv, BridgeOK, ChannelsOK
<1>2. ASSUME NEW id \in EventIds
      PROVE  /\ executed[id] <= 1 /\ (executed[id] = 1 => id \in remembered)
             /\ ~cancelled /\ id \in remembered => (executed[id] = 1 <=> Underway(id) = {})
  <2>1. Once(notices, Due, id, executed[id], remembered, cancelled)
    BY DEF IInv, OnceOK
  <2>2. executed[id] \in {0, 1}
    BY <1>1
  <2>3. executed[id] <= 1
    BY <2>2
  <2>4. executed[id] = 1 => id \in remembered
    BY <2>1 DEF Once
  <2>5. ASSUME ~cancelled, id \in remembered PROVE executed[id] = 1 <=> Underway(id) = {}
    BY <2>1, <2>5, UnderwayIs DEF Once
  <2> QED BY <2>3, <2>4, <2>5
<1> QED BY <1>1, <1>2 DEF ExactlyOnce

\* However the broker connection comes and goes, however full the channels are and wherever loop, runner and
\* worker are suspended, what is on its way to the loop leads from the connection state the loop knows to the
\* one the worker knows, no change lost, repeated or out of order, until the gateway is cancelled; and every
\* channel stays within its capacity.
THEOREM LinkFollowed == Spec => []LinkIsFollowed
BY AlwaysIInv, IInvFollows, PTL

\* However often the broker delivers a command, it is executed at most once, and as long as the gateway is not
\* cancelled an accepted one is either executed or still on its way to the loop.
THEOREM CommandsOnce == Spec => []ExactlyOnce
BY AlwaysIInv, IInvOnce, PTL

-----------------------------------------------------------------------------
(* EventIdDedupe.                                                          *)

Pairs == [id : CheckedIds, at : Nat]

\* A queue of the cache at instant t, together with the history of what was
\* accepted (acc) and of what was accepted later than each ID (later): one
\* pair per ID, oldest first, and everything behind a pair is newer than it.
QueueOK(q, t, acc, later) ==
    /\ q \in Seq(Pairs)
    /\ \A i \in 1 .. Len(q) : q[i].at <= t /\ acc[q[i].id] = q[i].at
    /\ \A i, j \in 1 .. Len(q) : i < j => q[i].at <= q[j].at
    /\ \A i, j \in 1 .. Len(q) : q[i].id = q[j].id => i = j
    /\ \A i, j \in 1 .. Len(q) : i < j => q[j].id \in later[q[i].id]

\* An ID that is still protected is in the cache.
ProtectedIsKept ==
    \A id \in CheckedIds : Protected(id) => Entry(id, accepted[id]) \in entries

HistoryOK ==
    /\ accepted \in [CheckedIds -> -1 .. MaxNow] /\ newer \in [CheckedIds -> SUBSET CheckedIds]
    /\ \A id \in CheckedIds : IsFiniteSet(newer[id]) /\ accepted[id] <= now

\* The inductive invariant: the promise about protected IDs survives an eviction only because the
\* queue is ordered by acceptance, so that whatever stays is newer than what goes.
CacheInv ==
    /\ now \in 0 .. MaxNow /\ verdict.fresh \in BOOLEAN
    /\ HistoryOK
    /\ QueueOK(order, now, accepted, newer)
    /\ Len(order) <= Capacity
    /\ Holds(order) = entries
    /\ ProtectedIsKept

\* The queue without its first k pairs, and what evict_expired leaves of the cache.
Rest(q, k) == SubSeq(q, k + 1, Len(q))
Left == Rest(order, ExpiredPrefix)
Kept == entries \ Front(order, ExpiredPrefix)

\* The map, the queue and the histories once a fresh ID is entered.
NewMap(id) == {e \in Kept : e.id # id} \cup {Entry(id, now)}
Entered(q, id, t) == Append(q, Entry(id, t))
EnteredAt(acc, id, t) == [acc EXCEPT ![id] = t]
EnteredAfter(later, id) == [d \in CheckedIds |-> IF d = id THEN {} ELSE later[d] \cup {id}]
NewQueue(id) == Entered(Left, id, now)
NewAccepted(id) == EnteredAt(accepted, id, now)
NewNewer(id) == EnteredAfter(newer, id)

\* The two branches of check_and_insert.
Duplicate(id) ==
    /\ \E e \in Kept : e.id = id /\ ~Expired(e)
    /\ entries' = Kept /\ order' = Left
    /\ verdict' = [id |-> id, fresh |-> FALSE]
    /\ UNCHANGED <<accepted, newer, now>>

Fresh(id) ==
    /\ ~ \E e \in Kept : e.id = id /\ ~Expired(e)
    /\ entries' = NewMap(id) \ Front(NewQueue(id), Surplus(NewMap(id), NewQueue(id)))
    /\ order' = Rest(NewQueue(id), Surplus(NewMap(id), NewQueue(id)))
    /\ verdict' = [id |-> id, fresh |-> TRUE]
    /\ accepted' = NewAccepted(id) /\ newer' = NewNewer(id) /\ now' = now

-----------------------------------------------------------------------------
(* The queue.                                                              *)

\* What SubSeq leaves when the first k elements are popped.
LEMMA DropFront ==
    ASSUME NEW q, NEW t, NEW acc, NEW later, QueueOK(q, t, acc, later),
           NEW k, k \in 0 .. Len(q)
    PROVE  /\ QueueOK(Rest(q, k), t, acc, later)
           /\ Len(Rest(q, k)) = Len(q) - k
           /\ \A i \in 1 .. Len(Rest(q, k)) : Rest(q, k)[i] = q[i + k]
           /\ Holds(Rest(q, k)) = Holds(q) \ Front(q, k)
<1> DEFINE left == Rest(q, k)
<1>1. q \in Seq(Pairs) /\ Len(q) \in Nat /\ DOMAIN q = 1 .. Len(q)
  BY DEF QueueOK
<1>2. /\ left \in Seq(Pairs) /\ Len(left) = Len(q) - k
      /\ DOMAIN left = 1 .. Len(left) /\ Len(left) \in Nat
      /\ \A i \in 1 .. Len(left) : left[i] = q[i + k] /\ i + k \in 1 .. Len(q)
  BY <1>1 DEF Rest
<1> HIDE DEF left
<1>3. QueueOK(left, t, acc, later)
  <2>1. ASSUME NEW i \in 1 .. Len(left)
        PROVE  left[i].at <= t /\ acc[left[i].id] = left[i].at
    <3>1. left[i] = q[i + k] /\ i + k \in 1 .. Len(q)
      BY <1>2
    <3>2. q[i + k].at <= t /\ acc[q[i + k].id] = q[i + k].at
      BY <3>1 DEF QueueOK
    <3> QED BY <3>1, <3>2
  <2>2. ASSUME NEW i \in 1 .. Len(left), NEW j \in 1 .. Len(left)
        PROVE  /\ i < j => left[i].at <= left[j].at /\ left[j].id \in later[left[i].id]
               /\ left[i].id = left[j].id => i = j
    <3>1. /\ left[i] = q[i + k] /\ i + k \in 1 .. Len(q)
          /\ left[j] = q[j + k] /\ j + k \in 1 .. Len(q)
      BY <1>2
    <3>2. (i < j => i + k < j + k) /\ (i + k = j + k => i = j)
      OBVIOUS
    <3>3. i + k < j + k => q[i + k].at <= q[j + k].at /\ q[j + k].id \in later[q[i + k].id]
      BY <3>1 DEF QueueOK
    <3>4. q[i + k].id = q[j + k].id => i + k = j + k
      BY <3>1 DEF QueueOK
    <3> QED BY <3>1, <3>2, <3>3, <3>4
  <2> QED BY <1>2, <2>1, <2>2 DEF QueueOK
<1>4. Holds(left) \subseteq Holds(q) \ Front(q, k)
  <2> SUFFICES ASSUME NEW i \in 1 .. Len(left) PROVE left[i] \in Holds(q) \ Front(q, k)
    BY <1>2 DEF Holds
  <2>1. left[i] = q[i + k] /\ i + k \in 1 .. Len(q)
    BY <1>2
  <2>2. ASSUME NEW j \in 1 .. k, q[j] = q[i + k] PROVE FALSE
    <3>1. j \in 1 .. Len(q) /\ j < i + k
      BY <1>1
    <3>2. q[j].id = q[i + k].id
      BY <2>2
    <3>3. j = i + k
      BY <2>1, <3>1, <3>2 DEF QueueOK
    <3> QED BY <3>1, <3>3
  <2> QED BY <1>1, <2>1, <2>2 DEF Holds, Front
<1>5. Holds(q) \ Front(q, k) \subseteq Holds(left)
  <2> SUFFICES ASSUME NEW i \in 1 .. Len(q), q[i] \notin Front(q, k) PROVE q[i] \in Holds(left)
    BY <1>1 DEF Holds
  <2>1. i \notin 1 .. k
    BY DEF Front
  <2>2. i - k \in 1 .. Len(left) /\ (i - k) + k = i
    <3>1. Len(left) = Len(q) - k /\ Len(q) \in Nat
      BY <1>1, <1>2
    <3>2. i \in Nat /\ k \in Nat /\ k < i /\ i <= Len(q)
      BY <2>1, <3>1
    <3> QED BY <3>1, <3>2
  <2>3. left[i - k] = q[i]
    BY <2>2, <1>2
  <2> QED BY <2>2, <2>3, <1>2 DEF Holds
<1> QED BY <1>2, <1>3, <1>4, <1>5 DEF left

\* An ID that is not in the queue is entered at its end.
LEMMA EnterNewest ==
    ASSUME NEW q, NEW t \in Nat, NEW acc, NEW later, QueueOK(q, t, acc, later),
           acc \in [CheckedIds -> Int], later \in [CheckedIds -> SUBSET CheckedIds],
           NEW id \in CheckedIds, \A i \in 1 .. Len(q) : q[i].id # id
    PROVE  /\ QueueOK(Entered(q, id, t), t, EnteredAt(acc, id, t), EnteredAfter(later, id))
           /\ Len(Entered(q, id, t)) = Len(q) + 1
           /\ Holds(Entered(q, id, t)) = Holds(q) \cup {Entry(id, t)}
<1> DEFINE r == Entered(q, id, t)
<1>1. q \in Seq(Pairs) /\ Len(q) \in Nat /\ DOMAIN q = 1 .. Len(q)
  BY DEF QueueOK
<1>2. Entry(id, t) \in Pairs /\ Entry(id, t).id = id /\ Entry(id, t).at = t
  BY DEF Entry, Pairs
<1>3. /\ r \in Seq(Pairs) /\ Len(r) = Len(q) + 1 /\ DOMAIN r = 1 .. Len(q) + 1
      /\ \A i \in 1 .. Len(q) : r[i] = q[i]
      /\ r[Len(q) + 1] = Entry(id, t)
  <2> DEFINE e == Entry(id, t)
  <2>1. e \in Pairs /\ r = Append(q, e)
    BY <1>2 DEF Entered
  <2> HIDE DEF e, r
  <2>2. /\ r \in Seq(Pairs) /\ Len(r) = Len(q) + 1 /\ DOMAIN r = 1 .. Len(q) + 1
        /\ \A i \in 1 .. Len(q) : r[i] = q[i]
        /\ r[Len(q) + 1] = e
    BY <1>1, <2>1
  <2> QED BY <2>2 DEF e
<1> HIDE DEF r
<1>4. \A i \in 1 .. Len(q) : q[i].id \in CheckedIds /\ q[i].at \in Nat /\ q[i].at <= t
  <2>1. \A i \in 1 .. Len(q) : q[i] \in Pairs
    BY <1>1
  <2> QED BY <2>1 DEF Pairs, QueueOK
<1>5. \A i \in 1 .. Len(r) : i \in 1 .. Len(q) \/ i = Len(q) + 1
  BY <1>1, <1>3
<1>6. \A i, j \in 1 .. Len(r) : i < j => i \in 1 .. Len(q)
  BY <1>1, <1>3
<1>7. Holds(r) = Holds(q) \cup {Entry(id, t)}
  <2>1. \A x : x \in Holds(r) <=> \E i \in 1 .. Len(q) + 1 : x = r[i]
    BY <1>3 DEF Holds
  <2>2. \A x : x \in Holds(q) <=> \E i \in 1 .. Len(q) : x = q[i]
    BY <1>1 DEF Holds
  <2>3. Len(q) + 1 \in 1 .. Len(q) + 1 /\ \A i \in 1 .. Len(q) : i \in 1 .. Len(q) + 1
    BY <1>1
  <2>4. \A i \in 1 .. Len(q) + 1 : i \in 1 .. Len(q) \/ i = Len(q) + 1
    BY <1>1
  <2>5. ASSUME NEW x, x \in Holds(r) PROVE x \in Holds(q) \/ x = Entry(id, t)
    <3>1. PICK i \in 1 .. Len(q) + 1 : x = r[i]
      BY <2>1, <2>5
    <3>2. CASE i \in 1 .. Len(q)
      <4>1. x = q[i]
        BY <1>3, <3>1, <3>2
      <4> QED BY <2>2, <3>2, <4>1
    <3>3. CASE i = Len(q) + 1
      BY <1>3, <3>1, <3>3
    <3> QED BY <2>4, <3>2, <3>3
  <2>6. ASSUME NEW x, x \in Holds(q) PROVE x \in Holds(r)
    <3>1. PICK i \in 1 .. Len(q) : x = q[i]
      BY <2>2, <2>6
    <3>2. i \in 1 .. Len(q) + 1 /\ x = r[i]
      BY <1>3, <2>3, <3>1
    <3> QED BY <2>1, <3>2
  <2>7. Entry(id, t) \in Holds(r)
    BY <1>3, <2>1, <2>3
  <2> QED BY <2>5, <2>6, <2>7
<1> DEFINE acc2 == [acc EXCEPT ![id] = t]
           later2 == [d \in CheckedIds |-> IF d = id THEN {} ELSE later[d] \cup {id}]
<1>8. \A i \in 1 .. Len(r) : r[i].at <= t /\ acc2[r[i].id] = r[i].at
  <2>1. \A i \in 1 .. Len(q) : acc2[q[i].id] = q[i].at
    BY <1>4 DEF QueueOK
  <2> QED BY <2>1, <1>2, <1>3, <1>4, <1>5
<1>9. \A i, j \in 1 .. Len(r) : i < j => r[i].at <= r[j].at
  BY <1>2, <1>3, <1>4, <1>5, <1>6 DEF QueueOK
<1>10. \A i, j \in 1 .. Len(r) : r[i].id = r[j].id => i = j
  BY <1>2, <1>3, <1>5 DEF QueueOK
<1>11. \A i, j \in 1 .. Len(r) : i < j => r[j].id \in later2[r[i].id]
  <2> SUFFICES ASSUME NEW i \in 1 .. Len(r), NEW j \in 1 .. Len(r), i < j
               PROVE  r[j].id \in later2[r[i].id]
    OBVIOUS
  <2>1. i \in 1 .. Len(q) /\ r[i] = q[i] /\ q[i].id \in CheckedIds /\ q[i].id # id
    BY <1>3, <1>4, <1>6
  <2>2. later2[r[i].id] = later[q[i].id] \cup {id}
    BY <2>1
  <2> QED BY <2>1, <2>2, <1>2, <1>3, <1>5 DEF QueueOK
<1> HIDE DEF acc2, later2
<1>12. QueueOK(r, t, acc2, later2)
  BY <1>3, <1>8, <1>9, <1>10, <1>11 DEF QueueOK
<1> QED BY <1>3, <1>7, <1>12 DEF r, acc2, later2, EnteredAt, EnteredAfter

\* Queue and map have the same size.
LEMMA CountPairs ==
    ASSUME NEW q, NEW t, NEW acc, NEW later, QueueOK(q, t, acc, later)
    PROVE  IsFiniteSet(Holds(q)) /\ Cardinality(Holds(q)) = Len(q)
<1>1. q \in Seq(Pairs) /\ Len(q) \in Nat /\ q \in [1 .. Len(q) -> Holds(q)]
  BY DEF QueueOK, Holds
<1>2. q \in Bijection(1 .. Len(q), Holds(q))
  BY <1>1 DEF QueueOK, Holds, Bijection, Injection, Surjection, IsInjective
<1>3. ExistsBijection(1 .. Len(q), Holds(q))
  BY <1>2 DEF ExistsBijection
<1>4. IsFiniteSet(Holds(q))
  BY <1>1, <1>3, FS_NatBijection
<1> QED BY <1>1, <1>3, <1>4, FS_CountingElements

-----------------------------------------------------------------------------
(* The two evictions.                                                      *)

\* evict_expired removes exactly the expired pairs: the queue is ordered by time, so the first pair
\* that has not expired ends them.
LEMMA ExpiredPrefixStops ==
    ASSUME CacheInv
    PROVE  /\ ExpiredPrefix \in 0 .. Len(order)
           /\ \A i \in 1 .. ExpiredPrefix : Expired(order[i])
           /\ \A i \in ExpiredPrefix + 1 .. Len(order) : ~Expired(order[i])
<1> DEFINE Stops(k) == /\ \A i \in 1 .. k : Expired(order[i])
                       /\ k < Len(order) => ~Expired(order[k + 1])
           alive == {i \in 1 .. Len(order) : ~Expired(order[i])}
<1>1. order \in Seq(Pairs) /\ Len(order) \in Nat /\ now \in Nat /\ Ttl \in Nat
  BY DedupeAssumption DEF CacheInv, QueueOK
<1>2. \E k \in 0 .. Len(order) : Stops(k)
  <2>1. CASE alive = {}
    <3>1. Stops(Len(order)) /\ Len(order) \in 0 .. Len(order)
      BY <1>1, <2>1
    <3> QED BY <3>1
  <2>2. CASE alive # {}
    <3>1. PICK m \in alive : \A y \in alive : m <= y
      BY <2>2, LeastIndex, alive \subseteq Nat
    <3>2. m - 1 \in 0 .. Len(order) /\ (m - 1) + 1 = m
      BY <1>1
    <3>3. ASSUME NEW i \in 1 .. m - 1 PROVE Expired(order[i])
      <4>1. i \in 1 .. Len(order) /\ ~(m <= i)
        BY <1>1
      <4> QED BY <3>1, <4>1
    <3>4. Stops(m - 1)
      BY <3>2, <3>3
    <3> QED BY <3>2, <3>4
  <2> QED BY <2>1, <2>2
<1>3. ExpiredPrefix \in 0 .. Len(order) /\ Stops(ExpiredPrefix)
  BY <1>2 DEF ExpiredPrefix
<1>4. ASSUME NEW i \in ExpiredPrefix + 1 .. Len(order) PROVE ~Expired(order[i])
  <2> DEFINE first == ExpiredPrefix + 1
  <2>1. first \in 1 .. Len(order) /\ i \in 1 .. Len(order) /\ first <= i /\ ExpiredPrefix < Len(order)
    BY <1>1, <1>3
  <2>2. ~Expired(order[first])
    BY <1>3, <2>1
  <2>3. order[first] \in Pairs /\ order[i] \in Pairs
    BY <1>1, <2>1
  <2>4. order[first].at \in Nat /\ order[i].at \in Nat
    BY <2>3 DEF Pairs
  <2>5. first < i => order[first].at <= order[i].at
    BY <2>1 DEF CacheInv, QueueOK
  <2>6. first = i => order[first].at = order[i].at
    OBVIOUS
  <2>7. first < i \/ first = i
    BY <2>1, <1>1
  <2> HIDE DEF first
  <2> QED BY <1>1, <2>2, <2>4, <2>5, <2>6, <2>7 DEF Expired
<1> QED BY <1>3, <1>4

\* enforce_capacity pops nothing, or the oldest pair of a queue that is one too long.
LEMMA SurplusIsOldest ==
    ASSUME NEW q, NEW t, NEW acc, NEW later, QueueOK(q, t, acc, later),
           Len(q) <= Capacity + 1
    PROVE  \/ Len(q) <= Capacity /\ Surplus(Holds(q), q) = 0
           \/ Len(q) = Capacity + 1 /\ Surplus(Holds(q), q) = 1
<1> DEFINE KeptAt(k) == Cardinality(Holds(q) \ Front(q, k))
           Fits(k) == KeptAt(k) <= Capacity /\ \A j \in 0 .. k - 1 : KeptAt(j) > Capacity
<1>1. Len(q) \in Nat /\ Capacity \in Nat /\ q \in Seq(Pairs)
  BY DedupeAssumption DEF QueueOK
<1>2. IsFiniteSet(Holds(q)) /\ Cardinality(Holds(q)) = Len(q)
  BY CountPairs
<1>3. KeptAt(0) = Len(q)
  <2>1. Holds(q) \ Front(q, 0) = Holds(q)
    BY DEF Front
  <2> QED BY <1>2, <2>1
<1>4. Len(q) >= 1 => KeptAt(1) = Len(q) - 1
  <2> HAVE Len(q) >= 1
  <2>1. Front(q, 1) = {q[1]} /\ q[1] \in Holds(q)
    BY <1>1 DEF Front, Holds
  <2>2. Cardinality(Holds(q) \ {q[1]}) = Cardinality(Holds(q)) - 1
    BY <1>2, <2>1, FS_RemoveElement
  <2> QED BY <1>2, <2>1, <2>2
<1>5. Surplus(Holds(q), q) = CHOOSE k \in 0 .. Len(q) : Fits(k)
  BY DEF Surplus
<1> HIDE DEF KeptAt
<1>6. CASE Len(q) <= Capacity
  <2>1. Fits(0) /\ 0 \in 0 .. Len(q)
    BY <1>1, <1>3, <1>6
  <2>2. ASSUME NEW k \in 0 .. Len(q), Fits(k) PROVE k = 0
    BY <1>1, <1>3, <1>6, <2>2
  <2> HIDE DEF Fits
  <2> QED BY <1>5, <1>6, <2>1, <2>2
<1>7. CASE Len(q) = Capacity + 1
  <2>1. KeptAt(1) = Capacity /\ KeptAt(0) = Capacity + 1
    BY <1>1, <1>3, <1>4, <1>7
  <2>2. Fits(1) /\ 1 \in 0 .. Len(q)
    BY <1>1, <1>7, <2>1
  <2>3. ASSUME NEW k \in 0 .. Len(q), Fits(k) PROVE k = 1
    BY <1>1, <1>7, <2>1, <2>3
  <2> HIDE DEF Fits
  <2> QED BY <1>5, <1>7, <2>2, <2>3
<1>8. Len(q) <= Capacity \/ Len(q) = Capacity + 1
  BY <1>1
<1> QED BY <1>6, <1>7, <1>8

\* Whatever is popped from a queue that is too long has Capacity IDs behind it.
LEMMA PoppedIsUnprotected ==
    ASSUME NEW q, NEW t, NEW acc, NEW later, QueueOK(q, t, acc, later),
           Len(q) = Capacity + 1, IsFiniteSet(later[q[1].id])
    PROVE  Cardinality(later[q[1].id]) >= Capacity
<1> DEFINE behind == [i \in 1 .. Capacity |-> q[i + 1].id]
           ids == later[q[1].id]
<1>1. Capacity \in Nat /\ q \in Seq(Pairs) /\ Len(q) \in Nat
  BY DedupeAssumption DEF QueueOK
<1>2. ASSUME NEW i \in 1 .. Capacity PROVE i + 1 \in 1 .. Len(q) /\ 1 \in 1 .. Len(q) /\ 1 < i + 1
  BY <1>1
<1>3. behind \in [1 .. Capacity -> ids]
  BY <1>2 DEF QueueOK
<1>4. ASSUME NEW i \in 1 .. Capacity, NEW j \in 1 .. Capacity, behind[i] = behind[j]
      PROVE  i = j
  <2>1. q[i + 1].id = q[j + 1].id
    BY <1>4
  <2>2. i + 1 = j + 1
    BY <1>2, <2>1 DEF QueueOK
  <2> QED BY <2>2
<1>5. behind \in Injection(1 .. Capacity, ids)
  BY <1>3, <1>4 DEF Injection, IsInjective
<1>6. Cardinality(1 .. Capacity) = Capacity
  BY <1>1, FS_Interval
<1> QED BY <1>5, <1>6, FS_Injection

\* What is left after evict_expired: a queue of what is alive, with everything protected in it.
LEMMA AfterExpiry ==
    ASSUME CacheInv
    PROVE  /\ QueueOK(Left, now, accepted, newer) /\ Len(Left) <= Capacity
           /\ Holds(Left) = Kept
           /\ \A e \in Kept : e \in Pairs /\ ~Expired(e) /\ accepted[e.id] = e.at
           /\ \A id \in CheckedIds : Protected(id) => Entry(id, accepted[id]) \in Kept
<1>1. /\ ExpiredPrefix \in 0 .. Len(order)
      /\ \A i \in 1 .. ExpiredPrefix : Expired(order[i])
      /\ \A i \in ExpiredPrefix + 1 .. Len(order) : ~Expired(order[i])
  BY ExpiredPrefixStops
<1>2. /\ QueueOK(order, now, accepted, newer) /\ Len(order) <= Capacity
      /\ Holds(order) = entries /\ ProtectedIsKept /\ now \in Nat
      /\ accepted \in [CheckedIds -> Int]
  <2>1. accepted \in [CheckedIds -> -1 .. MaxNow] /\ MaxNow \in Nat
    BY DedupeAssumption DEF CacheInv, HistoryOK
  <2> QED BY <2>1 DEF CacheInv
<1>3. Len(order) \in Nat /\ Capacity \in Nat /\ Ttl \in Nat
  BY <1>2, DedupeAssumption DEF QueueOK
<1>4. /\ QueueOK(Left, now, accepted, newer) /\ Len(Left) = Len(order) - ExpiredPrefix
      /\ \A i \in 1 .. Len(Left) : Left[i] = order[i + ExpiredPrefix]
      /\ Holds(Left) = Holds(order) \ Front(order, ExpiredPrefix)
  BY <1>1, <1>2, DropFront DEF Left
<1>5. Holds(Left) = Kept /\ Len(Left) <= Capacity
  BY <1>1, <1>2, <1>3, <1>4 DEF Kept
<1>6. ASSUME NEW e \in Kept PROVE e \in Pairs /\ ~Expired(e) /\ accepted[e.id] = e.at
  <2>1. Left \in Seq(Pairs) /\ Len(Left) \in Nat /\ DOMAIN Left = 1 .. Len(Left)
    BY <1>4 DEF QueueOK
  <2>2. PICK i \in 1 .. Len(Left) : e = Left[i]
    BY <1>5, <2>1 DEF Holds
  <2>3. e = order[i + ExpiredPrefix] /\ i + ExpiredPrefix \in ExpiredPrefix + 1 .. Len(order)
    BY <1>1, <1>3, <1>4, <2>1, <2>2
  <2>4. e \in Pairs
    BY <2>1, <2>2
  <2>5. accepted[e.id] = e.at
    BY <1>4, <2>2 DEF QueueOK
  <2> QED BY <1>1, <2>3, <2>4, <2>5
<1>7. ASSUME NEW id \in CheckedIds, Protected(id) PROVE Entry(id, accepted[id]) \in Kept
  <2> DEFINE e == Entry(id, accepted[id])
  <2>1. e \in entries
    BY <1>2, <1>7 DEF ProtectedIsKept
  <2>2. e.at = accepted[id] /\ accepted[id] \in Int /\ now - accepted[id] < Ttl
    BY <1>2, <1>7 DEF Entry, Protected
  <2> HIDE DEF e
  <2>3. ~Expired(e)
    BY <1>2, <1>3, <2>2 DEF Expired
  <2>4. e \notin Front(order, ExpiredPrefix)
    BY <1>1, <2>3 DEF Front
  <2> QED BY <2>1, <2>4 DEF e, Kept
<1> QED BY <1>4, <1>5, <1>6, <1>7

-----------------------------------------------------------------------------
(* The invariant.                                                          *)

LEMMA InitCacheInv == CacheInit => CacheInv
<1> SUFFICES ASSUME CacheInit PROVE CacheInv
  OBVIOUS
<1> USE DedupeAssumption DEF CacheInit
<1>1. now \in 0 .. MaxNow /\ verdict.fresh \in BOOLEAN /\ Len(order) <= Capacity
  OBVIOUS
<1>2. HistoryOK
  BY FS_EmptySet DEF HistoryOK
<1>3. QueueOK(order, now, accepted, newer) /\ Holds(order) = entries
  BY DEF QueueOK, Holds
<1>4. ProtectedIsKept
  BY DEF ProtectedIsKept, Protected
<1> QED BY <1>1, <1>2, <1>3, <1>4 DEF CacheInv

LEMMA TickCacheInv == CacheInv /\ Tick => CacheInv'
<1> SUFFICES ASSUME CacheInv, Tick PROVE CacheInv'
  OBVIOUS
<1>1. /\ now' = now + 1 /\ now < MaxNow /\ now \in 0 .. MaxNow /\ MaxNow \in Nat
      /\ UNCHANGED <<entries, order, accepted, newer, verdict>>
  BY DedupeAssumption DEF CacheInv, Tick
<1>2. now' \in 0 .. MaxNow /\ verdict'.fresh \in BOOLEAN /\ Len(order') <= Capacity
      /\ Holds(order') = entries'
  BY <1>1 DEF CacheInv
<1>3. accepted \in [CheckedIds -> -1 .. MaxNow] /\ \A id \in CheckedIds : accepted[id] <= now
  BY DEF CacheInv, HistoryOK
<1>4. \A id \in CheckedIds : accepted[id] \in Int /\ accepted[id] <= now + 1
  BY <1>1, <1>3
<1>5. HistoryOK'
  BY <1>1, <1>4 DEF CacheInv, HistoryOK
<1>6. QueueOK(order, now, accepted, newer)
  BY DEF CacheInv
<1>7. \A i \in 1 .. Len(order) : order[i].at \in Nat
  <2>1. \A i \in 1 .. Len(order) : order[i] \in Pairs
    BY <1>6 DEF QueueOK
  <2> QED BY <2>1 DEF Pairs
<1>8. \A i \in 1 .. Len(order) : order[i].at <= now + 1
  BY <1>1, <1>6, <1>7 DEF QueueOK
<1>9. QueueOK(order', now', accepted', newer')
  BY <1>1, <1>6, <1>8 DEF QueueOK
<1>10. ASSUME NEW id \in CheckedIds, Protected(id)' PROVE Entry(id, accepted[id]) \in entries
  <2>1. accepted[id] # -1 /\ (now + 1) - accepted[id] < Ttl /\ Cardinality(newer[id]) < Capacity
    <3>1. accepted'[id] # -1 /\ now' - accepted'[id] < Ttl /\ Cardinality(newer'[id]) < Capacity
      BY <1>10 DEF Protected
    <3> QED BY <1>1, <3>1
  <2>2. now - accepted[id] < Ttl
    BY <1>1, <1>4, <2>1, DedupeAssumption
  <2> QED BY <2>1, <2>2 DEF CacheInv, ProtectedIsKept, Protected
<1>11. ProtectedIsKept'
  BY <1>1, <1>10 DEF ProtectedIsKept, Entry
<1> QED BY <1>2, <1>5, <1>9, <1>11 DEF CacheInv

LEMMA Branches ==
    ASSUME NEW id \in CheckedIds, CheckAndInsert(id)
    PROVE  /\ Duplicate(id) \/ Fresh(id)
           /\ Duplicate(id) => ~verdict'.fresh
           /\ Fresh(id) => verdict'.fresh
<1>1. Duplicate(id) \/ Fresh(id)
  BY DEF CheckAndInsert, Duplicate, Fresh, Kept, Left, Rest, NewMap, NewQueue, NewAccepted, NewNewer,
         Entered, EnteredAt, EnteredAfter
<1>2. (Duplicate(id) => ~verdict'.fresh) /\ (Fresh(id) => verdict'.fresh)
  BY DEF Duplicate, Fresh
<1> QED BY <1>1, <1>2

\* The duplicate branch only evicts what has expired.
LEMMA DuplicateCacheInv ==
    ASSUME CacheInv, NEW id \in CheckedIds, Duplicate(id) PROVE CacheInv'
<1>1. /\ entries' = Kept /\ order' = Left /\ verdict'.fresh \in BOOLEAN
      /\ UNCHANGED <<accepted, newer, now>>
  BY DEF Duplicate
<1>2. /\ QueueOK(Left, now, accepted, newer) /\ Len(Left) <= Capacity
      /\ Holds(Left) = Kept
      /\ \A d \in CheckedIds : Protected(d) => Entry(d, accepted[d]) \in Kept
  BY AfterExpiry
<1>3. ProtectedIsKept'
  BY <1>1, <1>2 DEF ProtectedIsKept, Protected, Entry
<1>4. HistoryOK' /\ now' \in 0 .. MaxNow
  BY <1>1 DEF CacheInv, HistoryOK
<1> QED BY <1>1, <1>2, <1>3, <1>4 DEF CacheInv

\* The fresh branch enters the ID at the end and, when the queue is too long, pops its oldest pair.
LEMMA FreshCacheInv ==
    ASSUME CacheInv, NEW id \in CheckedIds, Fresh(id) PROVE CacheInv'
<1> DEFINE map == NewMap(id)
           q == NewQueue(id)
           k == Surplus(map, q)
           acc == NewAccepted(id)
           later == NewNewer(id)
<1>1. /\ ~ \E e \in Kept : e.id = id /\ ~Expired(e)
      /\ entries' = map \ Front(q, k) /\ order' = Rest(q, k)
      /\ verdict'.fresh \in BOOLEAN /\ accepted' = acc /\ newer' = later /\ now' = now
  BY DEF Fresh
<1>2. /\ QueueOK(Left, now, accepted, newer) /\ Len(Left) <= Capacity
      /\ Holds(Left) = Kept
      /\ \A e \in Kept : e \in Pairs /\ ~Expired(e)
      /\ \A d \in CheckedIds : Protected(d) => Entry(d, accepted[d]) \in Kept
  BY AfterExpiry
<1>3. /\ now \in Nat /\ now \in 0 .. MaxNow /\ MaxNow \in Nat /\ Capacity \in Nat
      /\ accepted \in [CheckedIds -> -1 .. MaxNow] /\ newer \in [CheckedIds -> SUBSET CheckedIds]
      /\ \A d \in CheckedIds : IsFiniteSet(newer[d]) /\ accepted[d] <= now
  BY DedupeAssumption DEF CacheInv, HistoryOK
<1>4. map = Kept \cup {Entry(id, now)}
  BY <1>1, <1>2 DEF NewMap
<1>5. \A i \in 1 .. Len(Left) : Left[i].id # id
  <2>1. \A i \in 1 .. Len(Left) : Left[i] \in Kept
    BY <1>2 DEF Holds, QueueOK
  <2> QED BY <1>1, <1>2, <2>1
<1>6. /\ QueueOK(q, now, acc, later) /\ Len(q) = Len(Left) + 1 /\ Holds(q) = map
  <2>1. accepted \in [CheckedIds -> Int]
    BY <1>3
  <2>2. /\ QueueOK(q, now, acc, later) /\ Len(q) = Len(Left) + 1
        /\ Holds(q) = Holds(Left) \cup {Entry(id, now)}
    BY <1>2, <1>3, <1>5, <2>1, EnterNewest DEF NewAccepted, NewNewer, NewQueue
  <2> QED BY <1>2, <1>4, <2>2
<1> HIDE DEF q, map, acc, later
<1>7. Len(q) \in Nat /\ Len(Left) \in Nat /\ Len(q) <= Capacity + 1
  <2>1. Len(q) \in Nat /\ Len(Left) \in Nat
    BY <1>2, <1>6 DEF QueueOK
  <2> QED BY <2>1, <1>2, <1>3, <1>6
<1>8. \/ Len(q) <= Capacity /\ k = 0
      \/ Len(q) = Capacity + 1 /\ k = 1
  BY <1>6, <1>7, SurplusIsOldest
<1> HIDE DEF k
<1>9. k \in 0 .. Len(q) /\ Len(q) - k <= Capacity
  BY <1>3, <1>7, <1>8
<1>10. /\ QueueOK(order', now, acc, later) /\ Len(order') <= Capacity
       /\ Holds(order') = entries'
  <2>1. /\ QueueOK(Rest(q, k), now, acc, later) /\ Len(Rest(q, k)) = Len(q) - k
        /\ Holds(Rest(q, k)) = Holds(q) \ Front(q, k)
    BY <1>6, <1>9, DropFront
  <2> QED BY <1>1, <1>6, <1>9, <2>1
<1>11. /\ acc \in [CheckedIds -> -1 .. MaxNow] /\ later \in [CheckedIds -> SUBSET CheckedIds]
       /\ \A d \in CheckedIds : acc[d] <= now
  BY <1>3 DEF acc, later, NewAccepted, NewNewer, EnteredAt, EnteredAfter
<1>12. ASSUME NEW d \in CheckedIds PROVE IsFiniteSet(later[d])
  <2>1. IsFiniteSet(newer[d] \cup {id}) /\ IsFiniteSet({})
    BY <1>3, FS_AddElement, FS_EmptySet
  <2> QED BY <2>1 DEF later, NewNewer, EnteredAfter
<1>13. HistoryOK'
  BY <1>1, <1>11, <1>12 DEF HistoryOK
<1>14. ASSUME NEW d \in CheckedIds, Protected(d)' PROVE Entry(d, acc[d]) \in entries'
  <2>1. acc[d] # -1 /\ now - acc[d] < Ttl /\ Cardinality(later[d]) < Capacity
    <3>1. accepted'[d] # -1 /\ now' - accepted'[d] < Ttl /\ Cardinality(newer'[d]) < Capacity
      BY <1>14 DEF Protected
    <3> QED BY <1>1, <3>1
  <2>2. Entry(d, acc[d]) \in map
    <3>1. CASE d = id
      BY <1>3, <1>4, <3>1 DEF acc, NewAccepted, EnteredAt
    <3>2. CASE d # id
      <4>1. acc[d] = accepted[d] /\ newer[d] \subseteq later[d]
        BY <1>3, <3>2 DEF acc, later, NewAccepted, NewNewer, EnteredAt, EnteredAfter
      <4>2. Cardinality(newer[d]) <= Cardinality(later[d]) /\ Cardinality(newer[d]) \in Nat
            /\ Cardinality(later[d]) \in Nat
        BY <1>3, <1>12, <4>1, FS_Subset, FS_CardinalityType
      <4>3. Cardinality(newer[d]) < Capacity
        BY <1>3, <2>1, <4>2
      <4>4. Protected(d)
        BY <2>1, <4>1, <4>3 DEF Protected
      <4> QED BY <1>2, <1>4, <4>1, <4>4
    <3> QED BY <3>1, <3>2
  <2>3. Entry(d, acc[d]) \notin Front(q, k)
    <3>1. CASE k = 0
      BY <3>1 DEF Front
    <3>2. CASE k = 1
      <4>1. Front(q, 1) = {q[1]} /\ Len(q) = Capacity + 1
        BY <1>8, <3>2 DEF Front
      <4>2. ASSUME Entry(d, acc[d]) = q[1] PROVE FALSE
        <5>1. q[1].id = d
          BY <4>2 DEF Entry
        <5>2. Cardinality(later[d]) >= Capacity
          BY <1>6, <1>12, <4>1, <5>1, PoppedIsUnprotected
        <5>3. Cardinality(later[d]) \in Nat
          BY <1>12, FS_CardinalityType
        <5> QED BY <1>3, <2>1, <5>2, <5>3
      <4> QED BY <3>2, <4>1, <4>2
    <3> QED BY <1>8, <3>1, <3>2
  <2> QED BY <1>1, <2>2, <2>3
<1>15. ProtectedIsKept'
  BY <1>1, <1>14 DEF ProtectedIsKept, Entry
<1> QED BY <1>1, <1>3, <1>10, <1>13, <1>15 DEF CacheInv

LEMMA NextCacheInv == CacheInv /\ [CacheNext]_cacheVars => CacheInv'
<1> SUFFICES ASSUME CacheInv, [CacheNext]_cacheVars PROVE CacheInv'
  OBVIOUS
<1>1. CASE Tick
  BY <1>1, TickCacheInv
<1>2. ASSUME NEW id \in CheckedIds, CheckAndInsert(id) PROVE CacheInv'
  BY <1>2, Branches, DuplicateCacheInv, FreshCacheInv
<1>3. CASE UNCHANGED cacheVars
  BY <1>3 DEF cacheVars, CacheInv, HistoryOK, ProtectedIsKept, Protected, Entry
<1> QED BY <1>1, <1>2, <1>3 DEF CacheNext

LEMMA CacheInvIsConsistent == CacheInv => CacheIsConsistent
<1> SUFFICES ASSUME CacheInv PROVE CacheIsConsistent
  OBVIOUS
<1>1. /\ QueueOK(order, now, accepted, newer) /\ Holds(order) = entries /\ Len(order) <= Capacity
      /\ now \in 0 .. MaxNow /\ verdict.fresh \in BOOLEAN /\ HistoryOK
  BY DEF CacheInv
<1>2. order \in Seq(Pairs) /\ DOMAIN order = 1 .. Len(order) /\ Len(order) \in Nat
  BY <1>1 DEF QueueOK
<1>3. Cardinality(entries) <= Capacity
  BY <1>1, CountPairs
<1>4. ASSUME NEW e \in entries PROVE e.id \in CheckedIds /\ e.at \in 0 .. now
  <2>1. PICK i \in 1 .. Len(order) : e = order[i]
    BY <1>1, <1>2 DEF Holds
  <2>2. e \in Pairs /\ e.at <= now
    BY <1>1, <1>2, <2>1 DEF QueueOK
  <2>3. e.id \in CheckedIds /\ e.at \in Nat
    BY <2>2 DEF Pairs
  <2> QED BY <1>1, <2>2, <2>3, DedupeAssumption
<1>5. CacheTypeOK
  BY <1>1, <1>3, <1>4 DEF CacheTypeOK, HistoryOK
<1>6. NoDuplicates(order)
  BY <1>1, <1>2 DEF NoDuplicates, QueueOK
<1>7. \A i, j \in DOMAIN order : i < j => order[i].at <= order[j].at
  BY <1>1, <1>2 DEF QueueOK
<1>8. \A e, f \in entries : e.id = f.id => e = f
  BY <1>1, <1>2 DEF QueueOK, Holds
<1> QED BY <1>1, <1>5, <1>6, <1>7, <1>8 DEF CacheIsConsistent, QueueListsEntries

-----------------------------------------------------------------------------
(* The results.                                                            *)

LEMMA AlwaysCacheInv == CacheSpec => []CacheInv
BY InitCacheInv, NextCacheInv, PTL DEF CacheSpec

\* The map and the queue of the event-ID cache (EventIdDedupe in command.rs) always hold the same
\* pairs, one per ID and oldest first, and never more than the configured capacity.
THEOREM CacheStaysConsistent == CacheSpec => []CacheIsConsistent
BY AlwaysCacheInv, CacheInvIsConsistent, PTL

\* check_and_insert calls an ID fresh only when the cache does not protect it any more.
LEMMA FreshIsUnprotected ==
    ASSUME CacheInv, NEW id \in CheckedIds, Fresh(id) PROVE ~Protected(id)
<1>1. ~ \E e \in Kept : e.id = id /\ ~Expired(e)
  BY DEF Fresh
<1>2. /\ \A e \in Kept : ~Expired(e)
      /\ \A d \in CheckedIds : Protected(d) => Entry(d, accepted[d]) \in Kept
  BY AfterExpiry
<1>3. Entry(id, accepted[id]).id = id
  BY DEF Entry
<1> QED BY <1>1, <1>2, <1>3

\* check_and_insert calls an ID a duplicate only of one accepted within the lifetime.
LEMMA DuplicateIsRecent ==
    ASSUME CacheInv, NEW id \in CheckedIds, Duplicate(id)
    PROVE  accepted[id] # -1 /\ now - accepted[id] < Ttl
<1>1. PICK e \in Kept : e.id = id /\ ~Expired(e)
  BY DEF Duplicate
<1>2. \A f \in Kept : f \in Pairs /\ accepted[f.id] = f.at
  BY AfterExpiry
<1>3. e \in Pairs /\ accepted[id] = e.at
  BY <1>1, <1>2
<1>4. e.at \in Nat
  BY <1>3 DEF Pairs
<1>5. now \in Nat /\ Ttl \in Nat
  BY DedupeAssumption DEF CacheInv
<1> QED BY <1>1, <1>3, <1>4, <1>5 DEF Expired

\* The event-ID cache refuses every replay it protects against, and nothing but replays, whatever
\* the capacity, the time to live and the IDs are.
THEOREM RefusesReplays == CacheSpec => RefusesExactlyReplays
<1>1. CacheInv /\ [CacheNext]_cacheVars
      => [\A id \in CheckedIds : CheckAndInsert(id) /\ verdict'.fresh => ~Protected(id)]_cacheVars
  BY Branches, FreshIsUnprotected
<1>2. CacheInv /\ [CacheNext]_cacheVars
      => [\A id \in CheckedIds : CheckAndInsert(id) /\ ~verdict'.fresh
                               => accepted[id] # -1 /\ now - accepted[id] < Ttl]_cacheVars
  BY Branches, DuplicateIsRecent
<1> QED BY <1>1, <1>2, AlwaysCacheInv, PTL
        DEF CacheSpec, RefusesExactlyReplays, NoReplay, DuplicateOnlyWithinTtl

=============================================================================
