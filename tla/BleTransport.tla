---------------------------- MODULE BleTransport ----------------------------
(***************************************************************************)
(* The Bluetooth transport (meshquill-transport/ble.rs): finding a         *)
(* peripheral by a scan, the steps of a connection, its clean-up, reading  *)
(* from two streams, and discovery.  A provider call may succeed, fail or  *)
(* time out with its effect taken or not; one operation runs at a time and *)
(* its future may be dropped at every await.                               *)
(***************************************************************************)
EXTENDS Naturals, Sequences, FiniteSets, Functions

CONSTANTS Adapters,  \* Bluetooth adapters of the host
          Packets,   \* packets the companion may notify
          MaxNotes   \* bound: packets on one connection

\* What a notification may hold that is no packet.
Foreign == "another characteristic"
TooLarge == "too large"
End == "end"

ASSUME PacketsAssumption == Packets \cap {Foreign, TooLarge, End} = {}

VARIABLES
    future,      \* the operation that runs, the await it is at, and the adapters it scans with
    owned,       \* BleTransport::connection.is_some()
    link,        \* the provider is connected to the peripheral
    subscribed,  \* the peripheral notifies the host
    ours,        \* ... because the latest connect subscribed
    notes,       \* the notification stream of the connection; <<>> without one
    events,      \* its adapter event stream
    streams,     \* which of the two exist
    scanning,    \* adapters that scan
    guard,       \* ActiveScans::adapters, not yet stopped
    scheduled,   \* adapters with a detached stop_scan task
    stuck,       \* adapters whose last stop_scan failed
    left,        \* a link is up that no operation could take down
    said,        \* packets the companion notified since the connection began
    got          \* packets read from it

vars == <<future, owned, link, subscribed, ours, notes, events, streams, scanning, guard, scheduled,
          stuck, left, said, got>>
scans == <<scanning, guard, scheduled, stuck>>
local == <<ours, notes, events, streams, said, got>>
remote == <<link, subscribed, left>>

Lost == "lost"
Other == "another event"

Idle == [op |-> "none", at |-> "none", targets |-> {}, found |-> FALSE]
At(phase) == future.at = phase
GoesTo(phase) == future' = [future EXCEPT !.at = phase]
Returns == future' = Idle
Begins(op, phase, targets) ==
    /\ future = Idle
    /\ future' = [op |-> op, at |-> phase, targets |-> targets, found |-> FALSE]

-----------------------------------------------------------------------------
(* The streams of a connection and the link below them.                    *)

\* The connection value is dropped: its streams are gone, the provider's link is not.
DropsStreams ==
    /\ notes' = <<>> /\ events' = <<>> /\ streams' = {}
    /\ ours' = FALSE /\ said' = <<>> /\ got' = <<>>

LinkDown == link' = FALSE /\ subscribed' = FALSE /\ left' = FALSE
LinkStays == left' = link /\ UNCHANGED <<link, subscribed>>

-----------------------------------------------------------------------------
(* Scans (ActiveScans).                                                    *)

\* register, then start_scan, whose failure may come after the adapter began.
StartScan ==
    /\ At("start")
    /\ \E a \in future.targets \ guard :
          /\ guard' = guard \cup {a}
          /\ scanning' = scanning \cup {a} /\ stuck' = stuck \ {a}
          /\ GoesTo(IF guard' = future.targets THEN "look" ELSE "start")
    /\ UNCHANGED <<owned, local, remote, scheduled>>

StartFails ==
    /\ At("start") /\ GoesTo("stop")
    /\ \E a \in future.targets \ guard :
          guard' = guard \cup {a} /\ (scanning' = scanning \cup {a} \/ UNCHANGED scanning)
    /\ UNCHANGED <<owned, local, remote, scheduled, stuck>>

\* The loop around find_cached, or the observation window of a discovery: until the target is
\* found, and otherwise until the deadline, a provider error or the cancellation.
Found ==
    /\ At("look") /\ future.op # "discover"
    /\ future' = [future EXCEPT !.at = "stop", !.found = TRUE]
    /\ UNCHANGED <<owned, local, remote, scans>>

LookEnds == At("look") /\ GoesTo("stop") /\ UNCHANGED <<owned, local, remote, scans>>

Stopped(done) == scanning' = scanning \ done /\ stuck' = stuck \ done

\* stop(): all adapters at once; what was to follow the scan follows only when all have stopped.
StopScans ==
    /\ At("stop")
    /\ Stopped(guard) /\ guard' = {}
    /\ IF future.found THEN GoesTo("link state") ELSE Returns
    /\ UNCHANGED <<owned, local, remote, scheduled>>

\* An error or the timeout: every adapter gets a detached stop of its own.
StopFails ==
    /\ At("stop")
    /\ \E done \in SUBSET guard : Stopped(done)
    /\ scheduled' = scheduled \cup guard /\ guard' = {} /\ Returns
    /\ UNCHANGED <<owned, local, remote>>

\* schedule_best_effort_scan_stop_with_handle: the task runs at any later time, during a later scan
\* as well; its error is dropped.
ScheduledStop(a) ==
    /\ a \in scheduled /\ scheduled' = scheduled \ {a}
    /\ \/ Stopped({a})
       \/ stuck' = stuck \cup ({a} \cap scanning) /\ UNCHANGED scanning
    /\ UNCHANGED <<future, owned, local, remote, guard>>

\* Drop of ActiveScans, which stop() empties only after its await.  The future is dropped inside a
\* tokio runtime, as everywhere in the program: without one nothing is scheduled and the scans end
\* with the process.
DropsGuard ==
    /\ scheduled' = scheduled \cup guard /\ guard' = {}
    /\ IF At("stop") THEN \E done \in SUBSET guard : Stopped(done) ELSE UNCHANGED <<scanning, stuck>>

\* discover_ble_with_cancellation, with the adapters that are switched on; the program discovers
\* before it connects.  What is collected after the scan changes no state.
DiscoverCall ==
    /\ ~owned
    /\ \E usable \in (SUBSET Adapters) \ {{}} : Begins("discover", "start", usable)
    /\ UNCHANGED <<owned, local, remote, scans>>

-----------------------------------------------------------------------------
(* Connecting.                                                             *)

\* connect(): a connection it has is taken out while its state is asked for.
ConnectCall ==
    /\ Begins("connect", IF owned THEN "existing" ELSE "find", Adapters)
    /\ owned' = FALSE
    /\ UNCHANGED <<local, remote, scans>>

StillConnected ==
    /\ At("existing") /\ link /\ owned' = TRUE /\ Returns
    /\ UNCHANGED <<local, remote, scans>>

NotConnectedAnyMore ==
    /\ At("existing") /\ ~link /\ GoesTo("find") /\ DropsStreams
    /\ UNCHANGED <<owned, remote, scans>>

ExistingFails == At("existing") /\ GoesTo("close state") /\ UNCHANGED <<owned, local, remote, scans>>

\* find_peripheral: the adapters' caches first, then a scan.
FindCached ==
    /\ At("find") /\ (GoesTo("link state") \/ GoesTo("start"))
    /\ UNCHANGED <<owned, local, remote, scans>>

FindFails == At("find") /\ Returns /\ UNCHANGED <<owned, local, remote, scans>>

\* establish_connection, await by await.
LinkState ==
    /\ At("link state") /\ GoesTo(IF link THEN "services" ELSE "link")
    /\ UNCHANGED <<owned, local, remote, scans>>

\* The state is asked for again behind connect.
ProviderConnect ==
    /\ At("link") /\ GoesTo("services") /\ link' = TRUE /\ left' = FALSE
    /\ UNCHANGED <<owned, local, subscribed, scans>>

Opens(stream) == streams' = streams \cup {stream} /\ UNCHANGED <<ours, notes, events, said, got>>

\* Mutation: the peripheral is subscribed to before its notifications have a stream.
SubscribesFirst(phase) ==
    CASE phase = "services" -> "subscribe" [] phase = "notes" -> "events"
      [] phase = "events" -> "done" [] phase = "subscribe" -> "notes"

\* Mutation: the adapter's events are asked for last.
EventsLast(phase) ==
    CASE phase = "services" -> "notes" [] phase = "notes" -> "subscribe"
      [] phase = "events" -> "done" [] phase = "subscribe" -> "events"

\* The order of the last three awaits.
After(phase) ==
    CASE phase = "services" -> "notes" [] phase = "notes" -> "events"
      [] phase = "events" -> "subscribe" [] phase = "subscribe" -> "done"

\* The await ends well: the next one, or the connection is complete.
Proceeds(phase) ==
    IF After(phase) = "done" THEN Returns /\ owned' = TRUE
    ELSE GoesTo(After(phase)) /\ UNCHANGED owned

\* discover_services and resolve_uart_characteristics
Services ==
    /\ At("services") /\ link /\ Proceeds("services")
    /\ UNCHANGED <<local, remote, scans>>

OpenStream ==
    /\ \E stream \in {"notes", "events"} : At(stream) /\ Opens(stream) /\ Proceeds(stream)
    /\ UNCHANGED <<remote, scans>>

\* The peripheral starts to notify before the call returns.
SubscribeTakesEffect ==
    /\ At("subscribe") /\ link /\ ~ours
    /\ subscribed' = TRUE /\ ours' = TRUE
    /\ UNCHANGED <<future, owned, notes, events, streams, said, got, link, left, scans>>

Subscribed ==
    /\ At("subscribe") /\ ours /\ Proceeds("subscribe")
    /\ left' = FALSE
    /\ UNCHANGED <<local, link, subscribed, scans>>

Establishing == future.at \in {"link state", "link", "services", "notes", "events", "subscribe"}

\* Mutation: a connection that could not be completed is left to itself.
EstablishJustFails ==
    /\ Establishing /\ Returns /\ DropsStreams
    /\ UNCHANGED <<owned, remote, scans>>

\* Any of them fails: best_effort_disconnect, whatever was reached.  A connect that timed out may
\* have connected.
EstablishFails ==
    /\ Establishing /\ GoesTo("undo") /\ DropsStreams
    /\ \/ UNCHANGED <<link, left>>
       \/ At("link") /\ link' = TRUE /\ left' = FALSE
    /\ UNCHANGED <<owned, subscribed, scans>>

Undo ==
    /\ At("undo") /\ Returns /\ LinkDown
    /\ UNCHANGED <<owned, local, scans>>

UndoFails ==
    /\ At("undo") /\ Returns /\ LinkStays
    /\ UNCHANGED <<owned, local, scans>>

-----------------------------------------------------------------------------
(* Disconnecting: close_connection, under one timeout.                     *)

DisconnectCall ==
    /\ owned /\ Begins("disconnect", "close state", {}) /\ owned' = FALSE
    /\ UNCHANGED <<local, remote, scans>>

\* reconnect(): a failed clean-up does not keep it from connecting.
ReconnectCall ==
    /\ Begins("reconnect", IF owned THEN "close state" ELSE "find", Adapters) /\ owned' = FALSE
    /\ UNCHANGED <<local, remote, scans>>

Closed == DropsStreams /\ IF future.op = "reconnect" THEN GoesTo("find") ELSE Returns

\* An error of the query counts as connected.
CloseState ==
    /\ At("close state")
    /\ \/ ~link /\ Closed
       \/ GoesTo("unsubscribe") /\ UNCHANGED local
    /\ UNCHANGED <<owned, remote, scans>>

Unsubscribe ==
    /\ At("unsubscribe") /\ GoesTo("provider disconnect")
    /\ (subscribed' = FALSE \/ UNCHANGED subscribed)
    /\ UNCHANGED <<owned, local, link, left, scans>>

ProviderDisconnect ==
    /\ At("provider disconnect") /\ Closed /\ LinkDown
    /\ UNCHANGED <<owned, scans>>

\* The disconnect fails, or the timeout ends the clean-up at any of its awaits.
CloseFails ==
    /\ future.at \in {"close state", "unsubscribe", "provider disconnect"}
    /\ Closed /\ LinkStays
    /\ UNCHANGED <<owned, scans>>

-----------------------------------------------------------------------------
(* Writing and reading.                                                    *)

\* A payload beyond the limits is refused before anything else.
WriteCall == owned /\ Begins("write", "write state", {}) /\ UNCHANGED <<owned, local, remote, scans>>

WriteState ==
    /\ At("write state")
    /\ IF link THEN GoesTo("write") /\ UNCHANGED <<owned, local>>
       ELSE Returns /\ owned' = FALSE /\ DropsStreams
    /\ UNCHANGED <<remote, scans>>

\* provider_write_once: one call of the provider for one packet.
Write == At("write") /\ link /\ Returns /\ UNCHANGED <<owned, local, remote, scans>>

WriteFails ==
    /\ future.at \in {"write state", "write"}
    /\ owned' = FALSE /\ DropsStreams /\ GoesTo("undo")
    /\ UNCHANGED <<remote, scans>>

ReadCall == owned /\ Begins("read", "read", {}) /\ UNCHANGED <<owned, local, remote, scans>>

\* A notification of another characteristic is passed over; one that is too large is an error that
\* keeps the connection; the end of the stream ends it, without a disconnect.
ReadNotification ==
    /\ At("read") /\ notes # <<>>
    /\ \/ /\ Head(notes) \in Packets \cup {Foreign, TooLarge}
          /\ notes' = Tail(notes)
          /\ got' = IF Head(notes) \in Packets THEN Append(got, Head(notes)) ELSE got
          /\ IF Head(notes) = Foreign THEN UNCHANGED future ELSE Returns
          /\ UNCHANGED <<owned, remote, ours, events, streams, said>>
       \/ /\ Head(notes) = End
          /\ owned' = FALSE /\ DropsStreams /\ Returns /\ LinkStays
    /\ UNCHANGED scans

ReadEvent ==
    /\ At("read") /\ "events" \in streams /\ events # <<>>
    /\ \/ /\ Head(events) = Lost
          /\ owned' = FALSE /\ DropsStreams /\ Returns
       \/ /\ Head(events) # Lost
          /\ events' = Tail(events)
          /\ streams' = IF Head(events) = End THEN streams \ {"events"} ELSE streams
          /\ UNCHANGED <<future, owned, ours, notes, said, got>>
    /\ UNCHANGED <<remote, scans>>

-----------------------------------------------------------------------------
\* A future is dropped: a read or a write leaves the connection where it is, every other operation
\* drops the connection it holds and its scans.
Cancel ==
    /\ future.op # "none" /\ Returns
    /\ DropsGuard
    /\ IF owned THEN UNCHANGED <<local, remote>>
       ELSE /\ DropsStreams
            /\ \/ LinkStays
               \/ /\ At("link") /\ link' = TRUE /\ left' = TRUE
                  /\ UNCHANGED subscribed
               \/ future.at \in {"undo", "provider disconnect"} /\ LinkDown
    /\ UNCHANGED owned

-----------------------------------------------------------------------------
(* The companion and the provider.                                         *)

DeviceNotifies ==
    /\ subscribed /\ Len(said) < MaxNotes /\ End \notin Range(notes) /\ (ours \/ "notes" \in streams)
    /\ \E packet \in Packets :
          /\ said' = Append(said, packet)
          /\ notes' = IF "notes" \in streams THEN Append(notes, packet) ELSE notes
    /\ UNCHANGED <<future, owned, remote, ours, events, streams, got, scans>>

\* A notification that is no packet; bound: one at a time.
DeviceNoise ==
    /\ subscribed /\ "notes" \in streams /\ Range(notes) \cap {Foreign, TooLarge, End} = {}
    /\ \E note \in {Foreign, TooLarge} : notes' = Append(notes, note)
    /\ UNCHANGED <<future, owned, remote, ours, events, streams, said, got, scans>>

\* The adapter says so to those who listen; the notification stream may end or not.
DeviceLost ==
    /\ link /\ LinkDown
    /\ events' = IF "events" \in streams /\ End \notin Range(events) THEN Append(events, Lost) ELSE events
    /\ \/ UNCHANGED notes
       \/ "notes" \in streams /\ notes' = Append(notes, End)
    /\ UNCHANGED <<future, owned, ours, streams, said, got, scans>>

StreamEnds ==
    /\ "notes" \in streams /\ End \notin Range(notes) /\ notes' = Append(notes, End)
    /\ UNCHANGED <<future, owned, remote, ours, events, streams, said, got, scans>>

AdapterEvent ==
    /\ "events" \in streams /\ events = <<>>
    /\ events' \in {<<Other>>, <<End>>}
    /\ UNCHANGED <<future, owned, remote, ours, notes, streams, said, got, scans>>

-----------------------------------------------------------------------------
Init ==
    /\ future = Idle /\ owned = FALSE /\ link = FALSE /\ subscribed = FALSE /\ ours = FALSE
    /\ notes = <<>> /\ events = <<>> /\ streams = {} /\ said = <<>> /\ got = <<>>
    /\ scanning = {} /\ guard = {} /\ scheduled = {} /\ stuck = {} /\ left = FALSE

\* An await that ends with an error or at its deadline.
Fails ==
    \/ StartFails \/ LookEnds \/ StopFails \/ ExistingFails \/ FindFails \/ EstablishFails
    \/ UndoFails \/ CloseFails \/ WriteFails

Next ==
    \/ StartScan \/ Found \/ StopScans \/ (\E a \in Adapters : ScheduledStop(a)) \/ DiscoverCall
    \/ ConnectCall \/ StillConnected \/ NotConnectedAnyMore \/ FindCached
    \/ LinkState \/ ProviderConnect \/ Services \/ OpenStream \/ SubscribeTakesEffect
    \/ Subscribed \/ Undo \/ DisconnectCall \/ ReconnectCall \/ CloseState \/ Unsubscribe
    \/ ProviderDisconnect \/ WriteCall \/ WriteState \/ Write \/ ReadCall \/ ReadNotification
    \/ ReadEvent \/ Fails \/ Cancel
    \/ DeviceNotifies \/ DeviceNoise \/ DeviceLost \/ StreamEnds \/ AdapterEvent

\* Deadlines pass and detached tasks run; the client comes back to its read and select! polls both
\* streams.  Nothing is assumed of the provider's answers.
Fairness ==
    /\ WF_vars(Fails) /\ \A a \in Adapters : WF_vars(ScheduledStop(a))
    /\ SF_vars(ReadCall) /\ SF_vars(ReadEvent)

Spec == Init /\ [][Next]_vars /\ Fairness

-----------------------------------------------------------------------------
(* Properties.                                                             *)

Phases ==
    {"none", "start", "look", "stop", "existing", "find", "link state", "link", "services", "notes",
     "events", "subscribe", "undo", "close state", "unsubscribe", "provider disconnect",
     "write state", "write", "read"}

\* Every variable has its type; a connection that is owned has its notification stream, and an
\* operation that has taken it out, or is still building one, leaves none behind.
TypeOK ==
    /\ future.op \in {"none", "connect", "reconnect", "disconnect", "write", "read", "discover"}
    /\ future.at \in Phases /\ future.targets \subseteq Adapters /\ future.found \in BOOLEAN
    /\ owned \in BOOLEAN /\ link \in BOOLEAN /\ subscribed \in BOOLEAN /\ ours \in BOOLEAN
    /\ scanning \cup scheduled \cup stuck \subseteq Adapters /\ guard \subseteq future.targets
    /\ subscribed => link
    /\ owned => "notes" \in streams /\ future.op \in {"none", "read", "write", "discover"}
    /\ ~owned /\ future = Idle => streams = {} /\ notes = <<>> /\ guard = {}

\* An adapter that scans is stopped by the operation that started it, has a detached stop waiting
\* for it, or has refused one: no error, timeout or dropped future forgets a scan (ActiveScans).
ScansAreStopped == scanning \subseteq guard \cup scheduled \cup stuck

\* A scan ends unless the provider refuses to stop it.
ScansEnd == \A a \in Adapters : a \in scanning ~> (a \notin scanning \/ a \in stuck)

\* A link that no connection owns when the transport rests was left by a disconnect that failed, a
\* future that was dropped, or a notification stream that ended under a live link; a connect that
\* fails at any of its awaits takes its link down again.
NoLinkIsLeft ==
    future = Idle /\ ~owned /\ link => left

\* seq lists the packets among items, in their order.
Lists(items, seq) ==
    \E place \in [1 .. Len(seq) -> 1 .. Len(items)] :
        /\ \A k \in 1 .. Len(seq) : items[place[k]] = seq[k]
        /\ \A k, l \in 1 .. Len(seq) : k < l => place[k] < place[l]
        /\ \A i \in 1 .. Len(items) : items[i] \in Packets => \E k \in 1 .. Len(seq) : place[k] = i

\* What was read and what waits in the stream is what the companion notified since it was subscribed
\* to, in order: nothing is lost between the subscription and the first read, by a dropped read or
\* by an adapter event that came first (establish_connection, BleTransport::read).
ReadsWhatIsNotified ==
    owned => LET unread == SubSeq(said, Len(got) + 1, Len(said))
             IN  got \o unread = said /\ Lists(notes, unread)

\* A lost link ends the connection as long as the adapter reports events, also when it is lost while
\* the connection is still being made.
LossIsSeen ==
    (owned /\ ~link /\ "events" \in streams /\ End \notin Range(events)) ~> ~owned

\* Every operation but a read ends, whatever the provider leaves unanswered.
OperationsEnd == (future.op \notin {"none", "read"}) ~> (future.op \in {"none", "read"})

\* Nothing the transport started on the host goes on without an owner.
NothingIsLeftBehind == TypeOK /\ ScansAreStopped /\ NoLinkIsLeft

\* Operations and scans end, and so does a connection whose link is lost.
EverythingEnds == ScansEnd /\ LossIsSeen /\ OperationsEnd
=============================================================================
