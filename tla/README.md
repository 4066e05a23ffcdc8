# A TLA+ model of meshquill

meshquill is a Rust workspace around MeshCore companion radios: a client
library, transports (TCP, serial, BLE), a command line program with chat and an
MQTT bridge, a configuration and history store, a hook runtime and a Python SDK.
This directory holds TLA+ modules that model the parts in which order, failure
and concurrency decide correctness, TLC configurations that check them on small
instances, and TLAPS proofs of the results that do not depend on the size of the
instance.

`PROJECT.json` lists, for each definition, the source lines it translates, the
properties each run checks, and the hazards of the code with the properties that
are about them.

## 1. The system

| Part | State it keeps | Operations | What is hard about it |
| --- | --- | --- | --- |
| `Client` (core/client.rs) | connection flag, `SyncState`, deferred sync answer, two map/queue pairs of ACK codes | connect, init, reconnect, disconnect, some fifty requests, `sync_next_message`, `wait_for_ack`, `next_event` | answers carry no request tag; futures may be dropped; late answers; bounded queues |
| `ManagedClient` (core/managed.rs) | bounded command channel, cancellation epoch, the actor that owns the `Client` | one method per request, `cancel_pending_operations`, shutdown | cancellation from other tasks, a full queue, an operation dropped half-way, a disconnect that hangs |
| Framed transports (core/framing.rs, transport/framed.rs, tcp.rs, serial.rs) | decoder buffer, the two halves of a stream | connect, read, write, disconnect | chunks, noise, oversized frames, partial writes, dropped futures |
| BLE transport (transport/ble.rs) | connection with two streams, active scans | connect, read, write, disconnect, discover | a provider call that fails or hangs at any await; detached clean-up |
| Packets and payloads (core/protocol.rs, remote.rs) | none | parse, build | optional tails, computed offsets, lists without length |
| MQTT runner (mqtt/runner.rs) | broker state, four bounded channels, cancellation token | poll worker, runner loop, publisher | three tasks that wait for each other's channels |
| Command gate (mqtt/command.rs) | event-ID cache bounded by size and age | `process`, `check_and_insert` | redelivery; boundaries of age and size |
| Bridge (cli/mqtt_cli.rs) | `reconnect_pending`, resync debounce, pending ACKs | select loop over signal, tick, debounce, device events, notices | work done inside a select branch; failing hooks; lag |
| Store (store/lib.rs) | configuration and history files, lock files, backups | load, save, repair, migrate, upsert, move, clear | several processes, a crash between file operations |
| Workflow (cli/workflow.rs) | outgoing records, correlation of incoming messages | connect, finish, begin, sent, acknowledged, timed out, failed, incoming | history and hooks follow what the radio did |
| Commands (cli/runtime.rs, remote_cli.rs, batch_cli.rs) | temporary settings, consent | all commands that open a session | every step may fail after the device acted |
| chat, watch (cli/runtime.rs, reconnect.rs, interrupt.rs) | draft, events still expected from a reconnect, attempts | the two event loops | retry must never resend; own events look like a loss |
| Hook runtime (hooks/runtime.rs, bootstrap.py) | concurrency permits, child process | validate, dispatch, before_send | timeouts while pipes are read, reaping |
| Python SDK (python/streams.rs) | replay buffer and broadcast channel | subscribe, receive, close | registration while events arrive |

The bridge and the commands call `ManagedClient`; its actor calls `Client`;
`Client` reads and writes a `Transport` and publishes events on a broadcast
channel. chat, watch and the bridge receive from that channel, write to the store
through the workflow and call the hook runtime. The bridge also talks to the MQTT
runner over two channels; the runner talks to its poll worker over a third and to
rumqttc over a fourth.

## 2. Modules

| Module | Models |
| --- | --- |
| `Queues` | `VecDeque` operations on queues without duplicates, without recursion |
| `AckTracker` | the ACK bookkeeping of `Client`, one action per private method; `TrackerSpec` is what a step of the client may do to it |
| `AckTracking` | `AckTracker` with history variables that say what a caller is entitled to |
| `CompanionClient` | `Client` and the companion at the other end of the link; extends `AckTracker` and implements `TrackerSpec` |
| `SerialExecutor` | abstract: what `ManagedClient` promises its callers |
| `ManagedActor` | `ManagedClient` and its actor; implements `SerialExecutor` |
| `PacketLink` | abstract: what a `Transport` promises the client |
| `FramedTransport` | TCP and serial transports down to bytes; implements `PacketLink` |
| `PacketCodec`, `RemotePayloads` | what parsers accept and read, what builders write |
| `BleTransport` | the Bluetooth transport and its scans |
| `EventIdDedupe` | the event-ID cache |
| `MqttGateway` | worker, runner and channels of the MQTT gateway |
| `MqttBridge` | the bridge's loop composed with `MqttGateway` |
| `BrokerSends` | the sends the broker asks for, from the gate to their outcome |
| `LocalStore` | the store as the commands of several processes use it |
| `CompanionDevice` | the companion as `VirtualCompanion` plays it, and what a request takes for an answer |
| `DeviceCommands` | the commands that open a session, over `CompanionDevice` |
| `LiveSession` | chat and watch |
| `HookRuntime` | hook calls and their subprocesses |
| `MC*` | instances for TLC |
| `*_proofs` | lemmas and theorems |

An `await` separates two actions; what runs between two awaits is one action.
Definitions whose comment begins with *Mutant* or *Mutation* are deliberately
wrong versions of the definition after them, used to confirm that a property
notices; nothing refers to them. A property that a run checks is a formula for
one idea or the conjunction of the named parts before it.

### AckTracker, AckTracking

A map is represented by its set of keys. `remember_*` first removes the code
from the queue (`Retain`), then pops from the front while the queue is at its
capacity (`Popped`, `Trimmed`), then appends. The history variables of
`AckTracking` record which codes are unresolved or arrived, and for each code the
codes entered since; the properties compare them with the implementation's maps.

### CompanionClient

`op` is the operation that holds the client: `init`, one of five classes of
requests (`ok`, `contacts`, `send`, `remote`, `bye` in the run), `drain` and `sync`
for `sync_next_message`, `ack` for `wait_for_ack`, `response` for the tagged
answer of a remote request. `Accepts` and `Rejects` say which packets end which
operation; every other packet is published and tracked (`PublishAndTrack`).
`wait_for_ack` treats packets in its own way and has an action of its own.
`outbound` and `inbound` are the link. Each packet carries, as history, the
request it answers; the client never reads that field. The companion is external
and answers each command once and in order. `FaultSets` names the environments a
behaviour may choose from: what companion and application may do beyond that,
namely late, refused or missing answers, malformed packets, bytes that survive a
reopening of the link, and `connect()` on an open session. `Prompt` is an
environment in which answers come in time or not at all.

### ManagedActor and SerialExecutor

A request goes from `calling` (the generation is read) through `sending` (no
free slot) and `queued` to `active`, and ends answered, dropped, abandoned or
interrupted. The actor's selects are biased, which its guards reproduce: a
command before a change of the epoch, that before an idle read. `session` is
`dirty` after an operation was dropped half-way. `SerialExecutor` knows only the
phase of each request and whether the executor is open; `phaseBar` maps the
queue, the senders and the generations to it. A cancellation is one step of
`SerialExecutor` that reaches everything submitted before it.

### FramedTransport and PacketLink

Bytes are numbers below `Base`, with the two marker bytes and the length limits
as constants; a length takes two bytes, as in the program. The stream is a
sequence of frames and noise from which chunks of any size arrive. The decoder is
translated branch by branch: it waits, skips, returns a packet or reports an
oversized frame, and `FramedReadState` discards what precedes a marker. A write
puts its frame on the wire a few bytes at a time and may end anywhere.
`PacketLink` is the same seen from outside: packets sent and not read, packets
read. A noise byte that is a marker is not generated: the code cannot tell it
from a frame. An oversized frame carries a marker at any place of its payload or
nowhere. The decoder drops of such a frame what has arrived; the history variable
`misled` says that the part still missing held a marker, and from then on
`PacketLink` and `SentIsRead` claim nothing about this connection (section 5).

### PacketCodec and RemotePayloads

A parser maps length and deciding bytes of a packet to the reads it makes; a
builder maps its arguments to the layout it writes. `RemotePayloads` handles
bytes: a list of records is encoded by a reference encoder, padded, cut short and
parsed again. Both modules have no state and are evaluated in the first state of
the `wire` run. The length limits of a text, of a command and of an answer are
those of the program.

### BleTransport

`future` is the operation that runs and the await it is at. Each provider call
has a success, and a failure that may have had its effect (a call that timed out
goes on in the provider). `guard` is `ActiveScans`, `scheduled` the detached stops,
`stuck` the adapters that refused one. A future may be dropped at every await.
`ActiveScans` schedules a stop on the tokio runtime it is dropped in; the model
assumes that there is one (without it, ble.rs:1053-1055 returns and stops nothing).

### MqttGateway and MqttBridge

`runner.todo` is the rest of the handler the runner is in: a sequence of the
notices and requests at which it can be suspended. `publications` is only
counted. The event-ID cache appears as the set of remembered IDs, because
`EventIdDedupe` shows what it keeps. `bridge.left` counts the publications a
handler still has to queue. Ctrl-C is modelled as tokio delivers it: a
`ctrl_c()` future sees the signals that arrive while it exists, and the loop
creates a new one in each turn.

### EventIdDedupe

The map and the queue hold pairs of ID and instant. `ExpiredPrefix` is what
`evict_expired` pops, `Surplus` what `enforce_capacity` pops.

### BrokerSends

A send carries what its record should say (`wanted`) and what the history says
(`status`), since a write of the history may fail. The select loop of the bridge
takes a command, an event or a tick; hook, history, device and output may fail in
each. The device confirms sends in its own time, early and late, and two sends
may have the same code. The event channel is bounded and a receiver that is
overtaken is told so.

### LocalStore

A command reads under its locks, makes a plan and carries it out one file
operation at a time: rename over a target, sync of a directory, removal, backup.
`visible` is what processes see and `durable` what surely survives a loss of
power, which keeps or loses each unsynced file for itself: a file changed
several times since its directory was synced has the last of its contents or the
synced one. The configuration gives each name a device and a transport, and
holds the reference to the broker's password; `mqtt configure` replaces the
authentication, removes it or keeps it (`mqtt_keep`), which it refuses when
another user name is given. Two processes run any commands; a configuration
command is a program run of its own, so it starts without the selection that an
earlier run in its place had made (`NewRun`); `promised` is history: the records
that were stored for a device. Profile names and devices are told apart, because
a rename moves the name.

### CompanionDevice and DeviceCommands

A command is a program, a sequence of steps such as `ask`, `resolve`, `set`,
`transmit`, `save`, which one interpreter runs; the programs follow the functions of
runtime.rs, remote_cli.rs and batch_cli.rs, the interpreter `CompanionSession`
and the two ways commands finish. A request may fail before or after the
companion acted. `RemoteChange` lets a remote session end and a path be learned
under the command's feet. Batches run commands one after the other. The wait for
an ACK ends with the ACK, its deadline, the loss of the link, an interrupt, or an
error with the link up: a packet that is an ERROR or does not parse (`protocol`), or
a timeout of zero from the firmware (`usage`). An interrupt may also come between
the acceptance of a message and the wait.

### LiveSession

`ui` is the loop of chat or watch: the await it is at, the retained draft, the
record, the reconnect attempt and the events of its own reconnect it still
expects. `stream` is the broadcast channel with its capacity. The tracker of
incoming messages pairs what was published with what was returned.

### HookRuntime

A call waits for a permit, starts the subprocess, writes the request, reads two
streams and waits for the exit under one deadline. The script may answer, hang in
a hook or while it is loaded (which `validate` does too), exit without an answer,
flood a stream, die or leave a descendant that keeps the pipes. The caller may
drop the call. Answers are reduced to the distinctions the code makes.

## 3. What is checked

| Run | Instance | Properties | Shows |
| --- | --- | --- | --- |
| `ack_tracking` | 3 codes, capacities 2 and 2 | `TrackersConsistent`, `StoredAckIsFresh`, `KeptUntilCapacity`, `NothingLeftBehind` | maps and queues in step; eviction at capacity only and oldest first; no stale ACK; nothing left behind |
| `client` | 2 codes, 3 requests, 2 packets each way, drain bound 1; a prompt environment and one with all faults | `AnswersAreMatched`, `SessionsAreSeparate`, `RequestEndsWhenQuiet`, `TrackerSpec` | no operation ends on the answer to another and no sync answer is lost; a session leaves nothing to the next; on a link that falls quiet everything ends; the bookkeeping is that of `AckTracker` |
| `actor` | 3 requests, 4 kinds, queue of 1, 1 cancellation; operations may hang | `DirtySessionIsNeverUsed`, `ImplementsSerialExecutor`, `CallsEnd` | refinement of `SerialExecutor`; no use of an interrupted session; no call hangs |
| `wire` | 4 byte values, frames of up to 2, 2 frames or pieces of noise and 2 writes per connection, 2 connections; the codecs in full | `StreamIsInStep`, `PacketsArrive`, `PacketsAreSafe`, `PayloadsAreExact` | refinement of `PacketLink`, with every packet read, up to the missing rest of a dropped oversized frame that holds a marker; no write behind a partial frame; no parser reads past the end; settings are written where they are read; payloads are read exactly or refused |
| `ble` | 2 adapters, 1 notification per connection | `NothingIsLeftBehind`, `ReadsWhatIsNotified`, `EverythingEnds` | scans stopped and links taken down after failures and drops; no notification lost around the subscription; a lost link is seen |
| `dedupe` | 4 IDs, capacity 2, lifetime 2, 5 ticks | `CacheIsConsistent`, `RefusesExactlyReplays` | no replay while protected; no refusal after the lifetime |
| `bridge` | 1 ID, channels of 1, snapshot of 2 | `LinkIsFollowed`, `ExactlyOnce`, `EndStopsAll` | broker states complete and in order; commands executed exactly once; all tasks end together |
| `broker` | 2 codes, 2 sends, limits 1 and 2, event channel of 2 | `SendsAreTracked`, `SendsAreTrue`, `SendsSettleOnce` | no send forgotten or settled twice or wrongly; each gets an outcome or the bridge ends |
| `store` | 2 names, 2 devices, 3 records, bound 2, 2 processes, 3 commands; kill, power loss, failed operations | `HistoryFollowsProfile`, `ConfigurationIsKept`, `NoLockCycle`, `ReplacedIsBackedUp` | no record, change or password is lost; no lock order blocks; what is replaced is backed up |
| `commands` | 2 contacts, 2 commands, batches of 2, 2 messages | `SessionsAreClosed`, `TemporarySettingIsRestored`, `ReportsAreTrue`, `OnlyWhatWasAsked` | hooks balanced; settings undone; reports and records true, but for a send whose wait for the ACK failed and for mail collected without history (section 5); nothing destroyed without consent |
| `live` | 2 composed messages, 2 lines, 1 incoming, 2 losses, channel of 2, tracker of 1 | `SessionIsFollowed`, `MessagesAreAccountedFor`, `InterruptEnds` | losses noticed; messages recorded once and never resent; drafts kept; an interrupt ends the command unless the answer of a send never comes |
| `hooks` | 2 calls, 1 permit, 3 kinds | `CallsAreCleanedUp`, `OnlyCheckedAnswersCount`, `CallEnds` | every call ends, its subprocess is gone, and with the closed policy nothing passes unasked |

### Bounds

*ACK codes, capacities.* Eviction, re-entry and competition need one code more
than the capacity; two places are the smallest queue with an order. *Requests of
the client.* A late answer, a sync and a request that meets them need three
requests with the handshake. *Packets in flight.* Two are enough for a packet to
arrive between a command and its answer. *Actor.* One running, one queued and one
waiting request need three; the theorems cover every number of cancellations and
the kinds the run leaves out. *Channels of one place* make every full-channel
case reachable; the code allows any capacity from one. *Snapshot of two* is the
least that can block half-way. *Dedupe.* Two lifetimes and four IDs reach expiry,
eviction, and re-acceptance of an expired and of an evicted ID. *Wire.* Four byte
values are the two markers and two others; one packet contains the marker and one
looks like a header, one payload is too long, with the marker at each of its places; a second connection shows what the
first leaves. *BLE.* One of two adapters may fail while the other works.
*Broker.* Two sends can share a code, compete for one place, and expire together.
*Store.* Two processes and three commands let a rename come between another
process's reading and writing; three records exceed a history of two. *Commands.*
The second command sees what the first left on the device. *Live.* A second loss
during the reconnect after the first is where own and real events meet; a channel
of two overflows by one reconnect and one message. *Hooks.* Two calls for one
permit.

The runs of `ManagedActor`, `MqttBridge`, `LocalStore` and `BrokerSends` allow
deadlock, because an actor, a bridge or a user who has ended takes no further
step. In the others it is checked.

### Fairness

*Client:* weak fairness of the task that holds the client and of its timers
(tokio polls a ready task and fires timers); strong fairness of the companion's
answering, which must not starve because it pushes packets. *Actor:* weak
fairness of the actor's own steps, of each caller's send and of the channel's
hand-over. That operations end is a premise of `EveryCallReturns` only.
*Framed transport:* strong fairness of reading, of arrival and of the end of a
read (the client reads again and again, and other operations take turns with
it); weak fairness of every other operation's end, all of which are under a
timeout, and of the disconnect that follows a torn write. *BLE:* weak fairness of
the timeouts and of a scheduled stop, strong fairness of reading; nothing is
assumed of the provider. *Bridge:* weak fairness of each task. `tokio::select!`
without `biased` starts at a random branch, so a branch that is ready again and
again is taken: strong fairness of taking a notice. *Broker sends:* weak fairness
of the bridge's steps and of the clock, strong fairness of the tick and of
receiving an event for the same reason. *chat, watch:* weak fairness of the
command except while it waits for the answer of a chat message's send on a link
that is up (`AwaitsAnswer`): this is the one await that is not raced against the
interrupt token, and its timer restarts with every packet. Everywhere else the
select on the token is biased. *Hooks:* weak fairness of
each call and of its deadline; nothing is assumed of the script. Nothing is
assumed of broker, radio or user anywhere.

## 4. What is proved

The theorems hold for all values of the constants, under the assumptions stated
in the modules, which TLC evaluates on every run: capacities, limits, permits and
lifetimes are positive, bounds are natural numbers, kinds and faults are among
the known ones. The sets of codes, IDs, requests and sends may be of any size;
the contacts of the companion are finitely many; names, devices and processes of the store are finitely many, with at least as
many devices as names.

* `CompanionClient_proofs`, about `AckTracking`: `TypeCorrect`, `Consistency`, `Freshness`,
  `EvictionOnlyAtCapacity`, `NoLeftovers`. The inductive invariant says the same
  of both map/queue pairs (`PairOK`): the queue lists the keys once each and by
  recency, everything owed to a caller is a key unless enough newer codes were
  entered, and everything kept is owed. Recency is what makes the eviction bound
  inductive: if the front of a full queue is popped, all the other entries and the
  new one are newer than it (`PoppedIsOld`, by counting). `Queues_proofs` has the
  lemmas about `Retain` and `Trimmed`.
* `CompanionClient_proofs`, about `ManagedActor`: `ActorTypeCorrect`, `NoUseAfterInterruption` and
  `ActorIsSerial` (`ActorSpec => ImplementsSerialExecutor`). The invariant adds to the
  types that a request is in the place its state names, in queue and senders at
  most once, and active only while the actor is busy (`Placed`), and that no
  generation and no seen epoch exceeds the epoch, with equality for a command
  that runs uncancelled (`Generations`): this is what lets an interruption be
  mapped to the abort of a request cancelled before.
* `MqttBridge_proofs`, about `EventIdDedupe`: `CacheStaysConsistent` and the
  action property `RefusesReplays`. The invariant says that the queue lists the pairs of the map,
  one per ID, by instant and none later than now, that it is within the
  capacity, and that every ID the history calls protected is among them. Both
  evictions pop a prefix; that the prefix holds no protected ID is shown by the
  order for the lifetime and by a pigeonhole argument for the capacity. Where an
  expired prefix ends is found as the least index with a live pair (`LeastIndex`),
  which takes the place of induction.
* `MqttBridge_proofs`, about the bridge: `LinkFollowed`, `CommandsOnce`. A notice is
  in one of four places: with the worker, in the network channel, in the handler
  the runner is in, in the notice channel. The invariant says what each may hold: a
  handler has at most one notice, its first step (`Due`), and the worker holds one
  exactly while it sends. For the connection it names the states known between
  the places (`Flows`), so that a step that moves a notice from one place to the
  next only moves the state between them (`LeadsFurther`, `LeadsOn`); the whole pipeline
  is put together at the end (`LeadsThrough`). For a command it says that an ID is
  due, waits or was executed, and that these exclude each other (`Once`). A runner that
  `join_gateway` aborts may lose its notice, which is harmless only because the
  gateway was cancelled before (`Closed`).
* `LiveSession_proofs`, about chat and watch: `SessionFollowed`. The command learns of
  its link only through a bounded stream, in which the losses of the link and the
  events of its own reconnects wait behind messages. The invariant has two claims
  about the stream. While the command works over a link that is down, the last
  thing the stream says about the link is that it is lost (`Lost`). And at least as
  many Connected events are to come as the command means to skip: those the loop
  counts, those of the line at work and that of a reconnect under way (`Confirms`,
  `Pending`), unless the receiver lags, which resets the count. Neither alone is
  enough: the first says that a loss is there, the second that it is not taken for
  one of the command's own, since the last Connected event lies before it.
  Overflow drops the oldest events, so the first survives a lag. What the second
  needs from the control is how often a line may have reconnected at each await
  (`FlowMax`), and that no reconnect is counted before the inbox was read
  (`Starting`), when the stream is drained. `HooksOK` ties the hooks to what the
  command believes of the link.
* `LiveSession_proofs`, about `HookRuntime`: `HooksCleanUp`, `HooksAreAsked`. The invariant is one
  statement per call (`CallOK`: which of permit, subprocess, pipes, streams and
  answer exist at each stage) and one about all of them: the holders of permits
  are at most `MaxConcurrency` in number.
* `CompanionClient_proofs`, about the client: `SessionsKeptApart`, `AnswersMatch`, and
  `ClientRefinesTracker` (`FairClientSpec => TrackerSpec`), the refinement of the
  ACK bookkeeping by the whole client, from which `ClientMapsInStep` follows.
  `AnswersMatch` needs most: in a prompt environment at most one command is
  unanswered or one answer unread, it is the one the operation expects, and
  everything on the link parses (`OnlyOwes`); a deferred packet, a sync that was
  given up and a new request are related to it.
* `BrokerSends_proofs`: `SendsStayTracked`, `SendsStayTrue`, `OutcomesAreFinal`.
  The invariant relates three things that steps of bridge, device and clock
  change separately: a record is open in the history while it should be
  (`RecordsOK`), the command at work has not been sent or not been queued yet
  (`StageOK`), and the queue holds every other open send once and with its code
  (`WaitsOK`, `NoneForgotten`). Confirmations are kept apart (`ConfirmedOK`): what
  is in the event channel or in the history as acknowledged was confirmed by
  some send with that code. `KeptProperties` says what removing positions from a
  queue leaves.
* `DeviceCommands_proofs`, about the commands: `EverySessionIsClosed`,
  `SettingsAreRestored`, `ReportsAgree`, `ConsentIsAsked`. The proof has two halves.
  The first is about the programs alone (`ProgramsOK`): every command, whatever its
  arguments, is well formed (`ProgramOK`): it asks for confirmation before a step that
  destroys something, reads a row before it writes it, saves a password only behind
  the login that accepted it, contains a step that reaches its goal, and what it
  restores at the end, if anything, is the flood scope or, for a trace, the path hash
  mode. The second is about the interpreter:
  what is *left* of the program at each phase still has these properties or the
  state makes up for them. A confirmation is ahead or was given (`ConsentOK`), the
  goal is reached or a step that reaches it is ahead (`ResultOK`), the row is read
  (`KeptOK`), the hooks were called as often as the phase says (`HooksOK`), a
  setting still owed is undone or doubtful (`SettingOK`), a record that is pending
  has its transmission ahead or an excuse, and an accepted message is reported and
  not marked failed unless the wait for its ACK failed (`SendOK`), and, where history
  is kept, mail taken is mail known but for the one message that could not be stored
  or whose answer was lost (`MailOK`). That the reserved room
  suffices (`RoomSuffices`) is a lemma about the companion's answers for all requests
  and all devices.
* `BleTransport_proofs`: `BleLeavesNothingBehind`, `BleReadsWhatIsNotified`. The
  invariant ties everything to the await the operation is at: a notification
  stream exists exactly while a connection is owned, taken out or behind the await
  that opens it (`Holding`), adapters are registered only during a scan, nobody
  but a use of the connection runs while it is owned, and a link is up without
  `left` only if somebody owns it or is at work on it (`Loose`). A loss in the
  event stream says that the link is down, so that the read it ends leaves no link
  behind. `InStep` is what makes the reads inductive: the packets of the stream
  lie, in order, at places that continue what was read.
* `LocalStore_proofs`: `LocksNeverCycle`, `NoUpdateIsLost`, `BackupComesFirst`,
  `ReferredIsStored` and, as their sum with the types, `ConfigurationStaysKept`;
  `HistoryStaysWithProfile`. Five invariants, which build on each other. `LockInv`: what every file may
  hold (records with IDs of their own, no canonical history over its bound), that
  the locks a process holds come before those it wants, that a working process
  has all the locks it needs, and that its plan touches only the files of those
  locks. A circle of waiting processes would then have a last file that one of
  them waits for, and its holder waits for a later one (`LastFile`, `NoCycle`).
  `ConfigInv`: a plan replaces the configuration at most once, with what the
  command makes of the configuration in force, and for migrate and repair only
  behind a backup; since only the holder of the lock can commit
  (`OnlyHolderCommits`), the configuration in force is still the one the command
  read. `SecretInv`: passwords have fresh numbers; one not yet committed is in the
  keyring and nobody refers to it; one to be cleaned up is referred to neither by
  the file in force nor by the one a loss of power would bring back.
  `IdsInv`: the ID of a new record is in no file, in no plan and with no other
  process until the record is planned, so an upsert replaces only an earlier state
  of its own record. `PayInv`: a file *pays* what is owed if it has each record in
  its state or a later one, or `MaxMessages` newer ones. What is owed under a name
  is what was promised to the device the name stands for, in the configuration in
  force or in the one a loss of power brings back (`Owed`); whichever copies of
  the legacy and canonical files such a loss leaves, their merge pays (`ViewsPay`);
  and a plan pays at every step (`PlanPays`): a file is replaced only by one that
  pays, a legacy file removed only when the canonical one is on the disk, the
  configuration renamed only when the history under the new name is there, and
  the old history cleared only when the new configuration is on the disk. Steps of
  a plan keep it since nobody else may touch the files of its locks
  (`OthersStillPay`), and a merge loses nothing: what a better set drops as too old
  has `MaxMessages` newer records behind it (`NewestCounts`, by counting).
  The theorems about passwords and histories assume that syncing a directory does
  not fail, as the run does. The assumption is needed (section 5): with `"sync"` in `Faults`, `mqtt configure`
  whose only failure is the sync after the rename takes its new password out of
  the keyring although the configuration refers to it, and TLC refutes
  `PasswordIsStored`; `move_to` after the same failure clears a history that is in
  use.

In each module the invariant was model-checked before it was proved: on the
instance of the run; for chat and watch with a larger channel (`Capacity` 3,
`TrackerCapacity` 2), three losses and three attempts, but one message (2 176 208 states);
for the commands with one and with two contacts;
for the store, `PayInv` and `IdsInv` on that of the run, the others on a smaller
one (one name, three commands).

Only model-checked: all liveness (`RequestEndsWhenQuiet`, `CallsEnd`,
`PacketsArrive`, `EverythingEnds`, `EndStopsAll`, `InterruptEnds`, `CallEnds`, and
`SendsSettle` and `LossEndsBridge`, the rest of `SendsSettleOnce`), since TLAPS
here has no ENABLED and no fairness reasoning; what `RemotePayloads` and
`FramedTransport` compute with recursive functions over sequences, which for
every input would need induction over data;
and `MessagesAreAccountedFor` of `LiveSession`, one part of which,
`IncomingRecordedOnce`, rests on the tracker never evicting a message
whose twin is still to come: this relates `TrackerCapacity` to what may arrive
while the inbox is read, and holds of the instance. The models avoid `SelectSeq`, of which the
provers know nothing: `Kept`, `Retain` and `NoticesIn` speak of positions instead.

## 5. Where code and documents disagree

These formulas are stated in the modules but belong to no run, because TLC
refutes them; adding one to a configuration as a `PROPERTY` (or `INVARIANT`)
shows the behaviour.

* `BlockedOnlyWhileOutstanding` (`CompanionClient`). docs/architecture.md:62 says
  the client "blocks later commands until that one response is consumed".
  `wait_for_ack` (client.rs:1270) takes the ERROR that answers an outstanding sync
  for its own failure; the sync state stays, and the session refuses all commands
  until it is reconnected.
* `RequestEnds` (`CompanionClient`): the request timer (client.rs:1606) restarts
  with every packet, so a link that stays busy postpones it for ever.
* `SyncAnswerIsExpected` holds in prompt environments; `connect()` on an open
  session (client.rs:134) clears the sync tracking before it fails with
  AlreadyExists, and forgets an answer that is still owed.
* `CleanupIsAccepted` (`ManagedActor`). managed.rs:114 says that "the actor closes
  that transport within one second before accepting cleanup commands"; a
  disconnect that takes longer (managed.rs:1181) ends the actor.
* `CtrlCStopsBridge` (`MqttBridge`). docs/mqtt.md:43: "Ctrl-C stops both the
  MeshCore client and broker session." A signal that arrives while the loop runs a
  handler (mqtt_cli.rs:561) reaches no future and is lost.
* `PublishingEnds` (`MqttBridge`). docs/mqtt.md:44 promises a snapshot after a
  reconnect; with both channels full the bridge waits in publish (mqtt_cli.rs:675)
  and the runner in its notice (runner.rs:426), each for the other.
* `ReconnectsAreBounded` (`LiveSession`). docs/messaging-and-chat.md:122 and
  docs/troubleshooting.md:193: "at most three reconnect attempts". After a lag
  (runtime.rs:3643, 4517) the events of the command's own reconnect are taken for
  a new loss, which begins another.
* `HistoryFollowsProfile` (`LocalStore`) does not hold with `"sync"` in `Faults`:
  when only the directory sync after the rename of the configuration fails,
  `move_to` clears the destination history (store lib.rs:1628) although the new
  name is already in place. The records are still under the old name. For the same
  reason `PasswordIsStored` does not hold then (section 4).
* `Resynchronizes` (`FramedTransport`). docs/research.md:40-42: a streaming decoder
  must "reject declared lengths above 300 [...] and resynchronize". Of an oversized
  frame that has not arrived whole the decoder drops what is there
  (framing.rs:133-137); the rest is read as the beginning of something new, and if
  it holds a marker byte, what follows is returned as a packet nobody sent.
* `EveryVariableIsReadBack` (`RemotePayloads`): a custom variable of up to 175 bytes
  passes the builder (protocol.rs:635-643, 1149-1150), and the parser refuses an
  answer of more than 140 (protocol.rs:2351-2356). `TextsAreKept` therefore speaks of
  answers within 140 bytes, and of longer ones says that they are refused.
* `InterruptAlwaysEnds` (`LiveSession`): `send_chat_message` (runtime.rs:4802) is not
  raced against the interrupt token, and the timer of its request restarts with
  every packet (client.rs:1606), so on a busy link chat need not end.
  `InterruptEnds` excludes exactly this wait.

`ReportsAreTrue` leaves two losses out, because the code has them. If the wait for the ACK
of an accepted message ends with an ERROR packet, a packet that does not parse or
a timeout of zero (client.rs:1270, 1728), `send` marks the record failed, prints no
result and exits with that error (runtime.rs:1929-1947). And without history, which
is off by default (docs/messaging-and-chat.md:203), `inbox` drops the messages it has
collected when a later one fails (runtime.rs:2100-2113), although they are off the
device.

Other behaviour met while modelling, about which no document says anything: a
command selects its profile without a lock (config.rs:130), so if another process
renames or replaces that profile, the command's record may end in the history of
another device, which `HistoryFollowsProfile` does not exclude (it promises a record
only while its name stands for its device); the worker of a serial open that timed out drops its
port whenever it gets it; contact routes of hash mode 3 are parsed but cannot be
encoded; a BLE read that sees the notification stream end returns without
disconnecting the provider; a scheduled scan stop may stop the scan of a later
operation; a history record loaded for an update comes back if it was cleared in
between.

## 6. What is not modelled

* The contents of messages, contacts and publications; scaling and signs of
  values; validation of arguments; wording, reports and output formats.
* The single exchanges of sign and of private-key export and import.
* Ordinary answers that come after their request has timed out are in the model
  (fault `late`) but outside what `AnswersAreMatched` says: the protocol has no
  request tags, and the client protects only `sync_next_message` against them.
* The lengths of timeouts and backoffs: a timeout may fire whenever nothing has
  arrived. mqtt/backoff.rs decides only such a length.
* mqtt/config.rs, schema.rs, topics.rs; cli/args.rs, output.rs: parsing and
  formatting without state.
* A BLE scan dropped outside a tokio runtime; the settings of `mqtt configure` other
  than the authentication.
* Which of two errors a command reports when its work and its clean-up both fail.
* The eviction of another message's ID from the tracker of incoming messages (one
  message and one place in the run of `LiveSession`).
* The search for serial ports and the ranking of discovery records.
* The Python SDK: bindings over `ManagedClient`, and an event hub.

## 7. Plan

Done: the client and its actor, both kinds of transport, packets, the MQTT side,
the store, the commands, chat and watch, hooks; theorems about the ACK
bookkeeping, the client, the actor, the event-ID cache, the MQTT bridge, chat and
watch, the commands, the hook runtime, the broker's sends, the BLE transport and
the store.

Next: the messages of `LiveSession`, with an assumption on `TrackerCapacity` that the
code justifies. Then the Python event hub.
