------------------------ MODULE BleTransport_proofs -------------------------
(***************************************************************************)
(* The Bluetooth transport (ble.rs) leaves no scan and no link behind that *)
(* it could have ended, and a read yields what the companion notified: for *)
(* any adapters, packets and failures of the provider.                     *)
(***************************************************************************)
EXTENDS BleTransport, TLAPS

Operations == {"none", "connect", "reconnect", "disconnect", "write", "read", "discover"}
Futures == [op : Operations, at : Phases, targets : SUBSET Adapters, found : BOOLEAN]
Items == Packets \cup {Foreign, TooLarge, End}
Signals == {Lost, Other, End}

\* Where an operation scans, and where it uses the connection that the transport has.
Scans == {"start", "look", "stop"}
Uses == {"read", "write state", "write"}

\* There is a notification stream: of the connection the transport has, of one that an operation has
\* taken out, or of one that it builds.
Holding ==
    \/ owned
    \/ future.at \in {"existing", "close state", "unsubscribe", "provider disconnect", "events", "subscribe"}

\* No operation is at work on a link, and no connection owns one.
Loose == ~owned /\ future.at \in {"none", "find"} \cup Scans

FutureOK ==
    /\ future \in Futures /\ owned \in BOOLEAN
    /\ future.at = "none" \/ future.op = "none" => future = Idle
    /\ future.at \in Uses => owned /\ future.op \in {"read", "write"}
    /\ owned => future.at \in {"none"} \cup Uses

ScansOK ==
    /\ scanning \in SUBSET Adapters /\ guard \in SUBSET Adapters
    /\ scheduled \in SUBSET Adapters /\ stuck \in SUBSET Adapters
    /\ guard \subseteq future.targets /\ (future.at \notin Scans => guard = {})
    /\ ScansAreStopped

\* Streams come and go together with what holds them; an adapter reports a loss only of a link that
\* is down, and stays down while the event stream is there.
StreamsOK ==
    /\ notes \in Seq(Items) /\ events \in Seq(Signals) /\ streams \in SUBSET {"notes", "events"}
    /\ "notes" \in streams <=> Holding
    /\ "notes" \notin streams => streams = {} /\ notes = <<>> /\ events = <<>>
    /\ \A i \in 1 .. Len(events) : events[i] = Lost => ~link

LinkOK ==
    /\ link \in BOOLEAN /\ subscribed \in BOOLEAN /\ left \in BOOLEAN
    /\ subscribed => link
    /\ link /\ Loose => left

\* The packets among items n are those of s behind the ones in g, which s begins with.
InStep(g, n, s) ==
    /\ Len(g) <= Len(s) /\ \A k \in 1 .. Len(g) : s[k] = g[k]
    /\ \E place \in [1 .. Len(s) - Len(g) -> 1 .. Len(n)] :
          /\ \A k \in 1 .. Len(s) - Len(g) : n[place[k]] = s[Len(g) + k]
          /\ \A k, l \in 1 .. Len(s) - Len(g) : k < l => place[k] < place[l]
          /\ \A i \in 1 .. Len(n) : n[i] \in Packets => \E k \in 1 .. Len(s) - Len(g) : place[k] = i

ReadsOK ==
    /\ said \in Seq(Packets) /\ got \in Seq(Packets) /\ ours \in BOOLEAN
    /\ "notes" \notin streams => ~ours /\ said = <<>> /\ got = <<>>
    /\ "notes" \in streams => InStep(got, notes, said)

\* The inductive invariant.
IInv == FutureOK /\ ScansOK /\ StreamsOK /\ LinkOK /\ ReadsOK

-----------------------------------------------------------------------------
(* What an operation does to its future.                                   *)

Went(phase) ==
    /\ future' \in Futures /\ future'.at = phase /\ future'.op = future.op
    /\ future'.targets = future.targets /\ future'.found = future.found
Rested ==
    /\ future' = Idle /\ future' \in Futures /\ future'.at = "none" /\ future'.op = "none"
    /\ future'.targets = {} /\ future'.found = FALSE
Begun(op, phase, targets) ==
    /\ future' \in Futures /\ future'.at = phase /\ future'.op = op
    /\ future'.targets = targets /\ future'.found = FALSE

\* No operation.
LEMMA IdleIs == Idle.at = "none" /\ Idle.op = "none" /\ Idle.targets = {} /\ Idle.found = FALSE
BY DEF Idle

\* Outside a use of the connection nobody has it.
LEMMA NotOwned ==
    ASSUME FutureOK, future.at \notin {"none"} \cup Uses
    PROVE  ~owned /\ future.at # "none" /\ future.op # "none" /\ (owned' = owned => owned' = FALSE)
<1>1. ~owned /\ future.at # "none"
  BY DEF FutureOK
<1>2. future.op # "none"
  BY <1>1, IdleIs DEF FutureOK
<1>3. owned \in BOOLEAN
  BY DEF FutureOK
<1> QED BY <1>1, <1>2, <1>3

\* The operation goes on to another await.
LEMMA Goes ==
    ASSUME FutureOK, NEW phase \in Phases, GoesTo(phase)
    PROVE  Went(phase)
BY DEF FutureOK, GoesTo, Went, Futures

\* The operation returns.
LEMMA Rests ==
    ASSUME Returns
    PROVE  Rested
BY DEF Returns, Rested, Idle, Futures, Operations, Phases

\* An operation begins.
LEMMA Starts ==
    ASSUME NEW op \in Operations, NEW phase \in Phases, NEW targets \in SUBSET Adapters,
           Begins(op, phase, targets)
    PROVE  Begun(op, phase, targets) /\ future = Idle /\ future.at = "none" /\ future.op = "none"
BY IdleIs DEF Begins, Begun, Futures

\* ... without the connection.
LEMMA FutureStep ==
    ASSUME future' \in Futures, owned' = FALSE, future'.at \notin {"none"} \cup Uses, future'.op # "none"
    PROVE  FutureOK'
BY DEF FutureOK

\* ... or rests.
LEMMA FutureRests ==
    ASSUME Rested, owned' \in BOOLEAN
    PROVE  FutureOK'
BY DEF FutureOK, Rested, Uses

-----------------------------------------------------------------------------
(* What the parts of the invariant depend on.                              *)

\* Scans are as they were.
LEMMA ScansStay ==
    ASSUME ScansOK, UNCHANGED scans,
           guard = {} \/ (future'.targets = future.targets /\ future'.at \in Scans)
    PROVE  ScansOK'
BY DEF ScansOK, ScansAreStopped, scans

\* Streams are as they were, and so is what holds them.
LEMMA StreamsStay ==
    ASSUME StreamsOK, ReadsOK, UNCHANGED local, Holding' <=> Holding, link' => link \/ ~Holding
    PROVE  StreamsOK' /\ ReadsOK'
<1>1. UNCHANGED <<notes, events, streams, ours, said, got>>
  BY DEF local
<1>2. ReadsOK'
  BY <1>1 DEF ReadsOK
<1>3. /\ notes' \in Seq(Items) /\ events' \in Seq(Signals) /\ streams' \in SUBSET {"notes", "events"}
      /\ "notes" \in streams' <=> Holding'
      /\ "notes" \notin streams' => streams' = {} /\ notes' = <<>> /\ events' = <<>>
  BY <1>1 DEF StreamsOK
<1>4. ASSUME NEW i \in 1 .. Len(events), events[i] = Lost PROVE ~link'
  <2>1. ~link
    BY <1>4 DEF StreamsOK
  <2>2. CASE ~Holding
    <3>1. events = <<>>
      BY <2>2 DEF StreamsOK
    <3> QED BY <3>1
  <2> QED BY <2>1, <2>2
<1> QED BY <1>1, <1>2, <1>3, <1>4 DEF StreamsOK

\* The streams are dropped.
LEMMA StreamsDropped ==
    ASSUME DropsStreams, ~Holding'
    PROVE  StreamsOK' /\ ReadsOK'
<1>1. <<>> \in Seq(Items) /\ <<>> \in Seq(Signals) /\ <<>> \in Seq(Packets)
  OBVIOUS
<1>2. /\ notes' = <<>> /\ events' = <<>> /\ streams' = {} /\ ours' = FALSE
      /\ said' = <<>> /\ got' = <<>>
  BY DEF DropsStreams
<1>3. ReadsOK'
  BY <1>1, <1>2 DEF ReadsOK
<1>4. \A i \in 1 .. Len(events') : events'[i] = Lost => ~link'
  BY <1>2
<1> QED BY <1>1, <1>2, <1>3, <1>4 DEF StreamsOK

\* The link is as it was, and nobody lets go of it.
LEMMA LinkStillOK ==
    ASSUME LinkOK, UNCHANGED remote, Loose' => Loose \/ ~link \/ left
    PROVE  LinkOK'
BY DEF LinkOK, remote

\* The link is down, or known to be left.
LEMMA LinkSettled ==
    ASSUME LinkOK, LinkDown \/ LinkStays
    PROVE  LinkOK'
<1>1. CASE LinkDown
  BY <1>1 DEF LinkOK, LinkDown
<1>2. CASE LinkStays
  BY <1>2 DEF LinkOK, LinkStays
<1> QED BY <1>1, <1>2

-----------------------------------------------------------------------------
(* Scans.                                                                  *)

\* While an operation goes from await to await of its scan, only its scans change.
LEMMA ScanGoesOn ==
    ASSUME IInv, NEW phase \in Scans, future.at \in Scans, GoesTo(phase), UNCHANGED <<owned, local, remote>>, ScansOK'
    PROVE  IInv'
<1>1. phase \in Phases
  BY DEF Scans, Phases
<1>2. Went(phase)
  BY <1>1, Goes DEF IInv
<1>3. ~owned /\ owned' = FALSE /\ future.at # "none" /\ future.op # "none" /\ phase \notin Uses /\ phase # "none"
  BY NotOwned DEF IInv, Scans, Uses
<1>4. FutureOK'
  BY <1>2, <1>3, FutureStep DEF Went
<1>5. ~Holding /\ ~Holding' /\ Loose
  BY <1>2, <1>3 DEF Holding, Went, Scans, Loose
<1>6. StreamsOK' /\ ReadsOK'
  BY <1>5, StreamsStay DEF IInv
<1>7. LinkOK'
  BY <1>5, LinkStillOK DEF IInv
<1> QED BY <1>4, <1>6, <1>7 DEF IInv

\* The operation ends with its scan.
LEMMA ScanEnds ==
    ASSUME IInv, future.at \in Scans \cup {"find"}, Returns, UNCHANGED <<owned, local, remote>>, ScansOK'
    PROVE  IInv'
<1>1. Rested
  BY Rests
<1>2. ~owned /\ owned' = FALSE
  BY NotOwned DEF IInv, Scans, Uses
<1>3. FutureOK'
  BY <1>1, <1>2, FutureRests
<1>4. ~Holding /\ ~Holding' /\ Loose
  BY <1>1, <1>2 DEF Holding, Rested, Scans, Loose
<1>5. StreamsOK' /\ ReadsOK'
  BY <1>4, StreamsStay DEF IInv
<1>6. LinkOK'
  BY <1>4, LinkStillOK DEF IInv
<1> QED BY <1>3, <1>5, <1>6 DEF IInv

\* StartScan and StartFails: the adapter is registered before it is started.
LEMMA StartKeeps ==
    ASSUME IInv, StartScan \/ StartFails
    PROVE  IInv'
<1>1. PICK a \in future.targets \ guard, phase \in Scans :
          /\ future.at = "start" /\ GoesTo(phase) /\ UNCHANGED <<owned, local, remote, scheduled>>
          /\ guard' = guard \cup {a} /\ scanning' \in {scanning, scanning \cup {a}} /\ stuck' \in {stuck, stuck \ {a}}
  <2>1. CASE StartScan
    BY <2>1 DEF StartScan, At, Scans
  <2>2. CASE StartFails
    BY <2>2 DEF StartFails, At, Scans
  <2> QED BY <2>1, <2>2
<1>2. phase \in Phases /\ future.at \in Scans
  BY <1>1 DEF Scans, Phases
<1>3. Went(phase)
  BY <1>1, <1>2, Goes DEF IInv
<1>4. a \in Adapters
  BY <1>1 DEF IInv, FutureOK, Futures
<1>5. ScansOK'
  BY <1>1, <1>3, <1>4 DEF IInv, ScansOK, ScansAreStopped, Went
<1> QED BY <1>1, <1>2, <1>5, ScanGoesOn

\* Found: the scan is to be stopped, and the connection goes on.
LEMMA FoundKeeps ==
    ASSUME IInv, Found
    PROVE  IInv'
<1>1. /\ future.at = "look" /\ UNCHANGED <<owned, local, remote, scans>>
      /\ future' = [future EXCEPT !.at = "stop", !.found = TRUE]
  BY DEF Found, At
<1>2. /\ future' \in Futures /\ future'.at = "stop" /\ future'.op = future.op
      /\ future'.targets = future.targets /\ future'.found = TRUE
  BY <1>1 DEF IInv, FutureOK, Futures, Phases
<1>3. ~owned /\ owned' = FALSE /\ future.op # "none"
  BY <1>1, NotOwned DEF IInv, Uses
<1>4. FutureOK'
  BY <1>2, <1>3, FutureStep DEF Uses
<1>5. ScansOK'
  BY <1>1, <1>2, ScansStay DEF IInv, Scans
<1>6. ~Holding /\ ~Holding' /\ Loose
  BY <1>1, <1>2, <1>3 DEF Holding, Scans, Loose
<1>7. StreamsOK' /\ ReadsOK' /\ LinkOK'
  BY <1>1, <1>6, StreamsStay, LinkStillOK DEF IInv
<1> QED BY <1>4, <1>5, <1>7 DEF IInv

\* LookEnds
LEMMA LookEndsKeeps ==
    ASSUME IInv, LookEnds
    PROVE  IInv'
<1>1. future.at \in Scans /\ GoesTo("stop") /\ UNCHANGED <<owned, local, remote, scans>> /\ "stop" \in Scans
  BY DEF LookEnds, At, Scans
<1>2. Went("stop")
  BY <1>1, Goes DEF IInv, Phases
<1>3. ScansOK'
  BY <1>1, <1>2, ScansStay DEF IInv, Went
<1> QED BY <1>1, <1>3, ScanGoesOn

\* stop(): all scans end, or each adapter gets a task that stops it.
LEMMA StopKeeps ==
    ASSUME IInv, StopScans \/ StopFails
    PROVE  IInv'
<1>1. future.at \in Scans /\ future.at = "stop" /\ UNCHANGED <<owned, local, remote>> /\ guard' = {}
  BY DEF StopScans, StopFails, At, Scans
<1>2. /\ scanning' \in SUBSET Adapters /\ stuck' \in SUBSET Adapters /\ scheduled' \in SUBSET Adapters
      /\ guard' = {} /\ scanning' \subseteq guard' \cup scheduled' \cup stuck'
  <2>1. CASE StopScans
    BY <2>1 DEF StopScans, Stopped, IInv, ScansOK, ScansAreStopped
  <2>2. CASE StopFails
    <3>1. PICK done \in SUBSET guard : Stopped(done)
      BY <2>2 DEF StopFails
    <3> QED BY <2>2, <3>1 DEF StopFails, Stopped, IInv, ScansOK, ScansAreStopped
  <2> QED BY <2>1, <2>2
<1>3. ScansOK'
  BY <1>2 DEF ScansOK, ScansAreStopped
<1>4. CASE Returns
  BY <1>1, <1>3, <1>4, ScanEnds
<1>5. CASE future.found /\ GoesTo("link state")
  <2>1. Went("link state")
    BY <1>5, Goes DEF IInv, Phases
  <2>2. ~owned /\ owned' = FALSE /\ future.op # "none"
    BY <1>1, NotOwned DEF IInv, Uses
  <2>3. FutureOK'
    BY <2>1, <2>2, FutureStep DEF Went, Uses
  <2>4. ~Holding /\ ~Holding' /\ ~Loose'
    BY <1>1, <2>1, <2>2 DEF Holding, Loose, Went, Scans
  <2>5. StreamsOK' /\ ReadsOK' /\ LinkOK'
    BY <1>1, <2>4, StreamsStay, LinkStillOK DEF IInv
  <2> QED BY <1>3, <2>3, <2>5 DEF IInv
<1> QED BY <1>4, <1>5 DEF StopScans, StopFails

\* A detached stop runs.
LEMMA ScheduledStopKeeps ==
    ASSUME IInv, NEW a \in Adapters, ScheduledStop(a)
    PROVE  IInv'
<1>1. ScansOK'
  BY DEF ScheduledStop, Stopped, IInv, ScansOK, ScansAreStopped
<1>2. UNCHANGED <<future, owned, local, remote>>
  BY DEF ScheduledStop
<1>3. FutureOK' /\ (Holding' <=> Holding) /\ (Loose' <=> Loose) /\ link' = link
  BY <1>2 DEF IInv, FutureOK, Holding, Loose, remote
<1>4. StreamsOK' /\ ReadsOK' /\ LinkOK'
  BY <1>2, <1>3, StreamsStay, LinkStillOK DEF IInv
<1> QED BY <1>1, <1>3, <1>4 DEF IInv

\* A discovery begins.
LEMMA DiscoverKeeps ==
    ASSUME IInv, DiscoverCall
    PROVE  IInv'
<1>1. PICK usable \in SUBSET Adapters : Begins("discover", "start", usable)
  BY DEF DiscoverCall
<1>2. ~owned /\ UNCHANGED <<owned, local, remote, scans>>
  BY DEF DiscoverCall
<1>3. Begun("discover", "start", usable) /\ future = Idle /\ future.at = "none" /\ future.op = "none"
  <2>1. "discover" \in Operations /\ "start" \in Phases
    BY DEF Operations, Phases
  <2> QED BY <1>1, <2>1, Starts
<1>4. owned' = FALSE /\ FutureOK'
  <2>1. owned' = FALSE
    BY <1>2 DEF IInv, FutureOK
  <2> QED BY <1>3, <2>1, FutureStep DEF Begun, Uses
<1>5. guard = {}
  BY <1>3 DEF IInv, ScansOK, Scans
<1>6. ScansOK'
  BY <1>2, <1>5, ScansStay DEF IInv
<1>7. ~Holding /\ ~Holding' /\ Loose
  BY <1>2, <1>3, <1>4 DEF Holding, Loose, Begun
<1>8. StreamsOK' /\ ReadsOK' /\ LinkOK'
  BY <1>2, <1>7, StreamsStay, LinkStillOK DEF IInv
<1> QED BY <1>4, <1>6, <1>8 DEF IInv

-----------------------------------------------------------------------------
(* The awaits of an operation that does not scan.                          *)

\* Where a connection is made, taken out or ended.
Apart(phase) == phase \in Phases /\ phase \notin {"none"} \cup Uses

\* Without a scan there is nothing to stop.
LEMMA Quiet ==
    ASSUME IInv, UNCHANGED scans, future.at \notin Scans
    PROVE  ScansOK'
<1>1. guard = {} /\ ScansOK
  BY DEF IInv, ScansOK
<1> QED BY <1>1, ScansStay

\* The operation goes on to another await.
LEMMA MovesOn ==
    ASSUME IInv, NEW phase, Apart(phase), Apart(future.at), future.at \notin Scans, GoesTo(phase),
           owned' = owned, UNCHANGED scans
    PROVE  FutureOK' /\ ScansOK' /\ Went(phase) /\ future'.at = phase /\ ~owned /\ owned' = FALSE
<1>1. phase \in Phases /\ future.at \notin {"none"} \cup Uses /\ phase \notin {"none"} \cup Uses
  BY DEF Apart
<1>2. Went(phase)
  BY <1>1, Goes DEF IInv
<1>3. ~owned /\ owned' = FALSE /\ future.op # "none"
  BY <1>1, NotOwned DEF IInv
<1>4. FutureOK'
  BY <1>1, <1>2, <1>3, FutureStep DEF Went
<1> QED BY <1>2, <1>3, <1>4, Quiet DEF Went

\* The operation returns.
LEMMA ComesBack ==
    ASSUME IInv, future.at \notin Scans, Returns, owned' \in BOOLEAN, UNCHANGED scans
    PROVE  FutureOK' /\ ScansOK' /\ future'.at = "none"
<1>1. Rested
  BY Rests
<1> QED BY <1>1, FutureRests, Quiet DEF Rested

\* An operation begins.
LEMMA Calls ==
    ASSUME IInv, NEW op \in Operations, NEW phase \in Phases, NEW targets \in SUBSET Adapters,
           Begins(op, phase, targets), UNCHANGED scans
    PROVE  ScansOK' /\ Begun(op, phase, targets) /\ future'.at = phase /\ future.at = "none"
<1>1. Begun(op, phase, targets) /\ future.at = "none"
  BY Starts
<1>2. future.at \notin Scans
  BY <1>1 DEF Scans
<1> QED BY <1>1, <1>2, Quiet DEF Begun

-----------------------------------------------------------------------------
(* Connecting.                                                             *)

\* An operation begins that takes the connection out, if there is one.
LEMMA TakesOut ==
    ASSUME IInv, NEW op \in Operations, NEW phase \in Phases, NEW targets \in SUBSET Adapters,
           Begins(op, phase, targets), op # "none", owned' = FALSE, UNCHANGED <<local, remote, scans>>,
           (phase = "find" /\ ~owned) \/ (phase \in {"existing", "close state"} /\ owned)
    PROVE  IInv'
<1>3. ScansOK' /\ Begun(op, phase, targets) /\ future'.at = phase /\ future.at = "none"
  BY Calls
<1>4. FutureOK'
  BY <1>3, FutureStep DEF Begun, Uses
<1>5. CASE phase = "find" /\ ~owned
  <2>1. ~Holding /\ ~Holding' /\ Loose
    BY <1>3, <1>5 DEF Holding, Loose
  <2>2. StreamsOK' /\ ReadsOK' /\ LinkOK'
    BY <2>1, StreamsStay, LinkStillOK DEF IInv
  <2> QED BY <1>3, <1>4, <2>2 DEF IInv
<1>6. CASE phase \in {"existing", "close state"} /\ owned
  <2>1. Holding /\ Holding' /\ ~Loose' /\ link' = link
    BY <1>3, <1>6 DEF Holding, Loose, Scans, remote
  <2>2. StreamsOK' /\ ReadsOK' /\ LinkOK'
    BY <2>1, StreamsStay, LinkStillOK DEF IInv
  <2> QED BY <1>3, <1>4, <2>2 DEF IInv
<1> QED BY <1>5, <1>6

\* connect(), disconnect() and reconnect()
LEMMA TakesOutKeeps ==
    ASSUME IInv, ConnectCall \/ DisconnectCall \/ ReconnectCall
    PROVE  IInv'
<1>1. owned' = FALSE /\ UNCHANGED <<local, remote, scans>>
  BY DEF ConnectCall, DisconnectCall, ReconnectCall
<1>2. /\ "find" \in Phases /\ "existing" \in Phases /\ "close state" \in Phases
      /\ "connect" \in Operations /\ "disconnect" \in Operations /\ "reconnect" \in Operations
      /\ {} \in SUBSET Adapters /\ Adapters \in SUBSET Adapters
  BY DEF Phases, Operations
<1>3. CASE owned
  <2>1. Begins("connect", "existing", Adapters) \/ Begins("disconnect", "close state", {})
        \/ Begins("reconnect", "close state", Adapters)
    BY <1>3 DEF ConnectCall, DisconnectCall, ReconnectCall
  <2>2. CASE Begins("connect", "existing", Adapters)
    BY <1>1, <1>2, <1>3, <2>2, TakesOut
  <2>3. CASE Begins("disconnect", "close state", {})
    BY <1>1, <1>2, <1>3, <2>3, TakesOut
  <2>4. CASE Begins("reconnect", "close state", Adapters)
    BY <1>1, <1>2, <1>3, <2>4, TakesOut
  <2> QED BY <2>1, <2>2, <2>3, <2>4
<1>4. CASE ~owned
  <2>1. Begins("connect", "find", Adapters) \/ Begins("reconnect", "find", Adapters)
    BY <1>4 DEF ConnectCall, DisconnectCall, ReconnectCall
  <2>2. CASE Begins("connect", "find", Adapters)
    BY <1>1, <1>2, <1>4, <2>2, TakesOut
  <2>3. CASE Begins("reconnect", "find", Adapters)
    BY <1>1, <1>2, <1>4, <2>3, TakesOut
  <2> QED BY <2>1, <2>2, <2>3
<1> QED BY <1>3, <1>4

\* The connection is kept.
LEMMA StillConnectedKeeps ==
    ASSUME IInv, StillConnected
    PROVE  IInv'
<1>1. future.at = "existing" /\ owned' = TRUE /\ Returns /\ UNCHANGED <<local, remote, scans>>
  BY DEF StillConnected, At
<1>2. FutureOK' /\ ScansOK'
  BY <1>1, ComesBack DEF Scans
<1>3. Holding /\ Holding' /\ ~Loose' /\ link' = link
  BY <1>1 DEF Holding, Loose, remote
<1>4. StreamsOK' /\ ReadsOK' /\ LinkOK'
  BY <1>1, <1>3, StreamsStay, LinkStillOK DEF IInv
<1> QED BY <1>2, <1>4 DEF IInv

\* The link is gone: the connection is dropped and looked for again.
LEMMA NotConnectedKeeps ==
    ASSUME IInv, NotConnectedAnyMore
    PROVE  IInv'
<1>1. future.at = "existing" /\ ~link /\ GoesTo("find") /\ DropsStreams /\ UNCHANGED <<owned, remote, scans>>
  BY DEF NotConnectedAnyMore, At
<1>2. Apart("find") /\ Apart(future.at) /\ future.at \notin Scans
  BY <1>1 DEF Apart, Phases, Uses, Scans
<1>3. FutureOK' /\ ScansOK' /\ future'.at = "find" /\ owned' = FALSE
  BY <1>1, <1>2, MovesOn
<1>4. ~Holding'
  BY <1>3 DEF Holding
<1>5. StreamsOK' /\ ReadsOK' /\ LinkOK'
  BY <1>1, <1>4, StreamsDropped, LinkStillOK DEF IInv
<1> QED BY <1>3, <1>5 DEF IInv

\* An await ends and the next begins, with the same streams.
LEMMA NextAwaitKeeps ==
    ASSUME IInv, NEW phase, Apart(phase), Apart(future.at), future.at \notin Scans, GoesTo(phase),
           UNCHANGED <<owned, local, scans>>, LinkOK',
           phase \in {"existing", "close state", "unsubscribe", "provider disconnect", "events", "subscribe"}
           <=> future.at \in {"existing", "close state", "unsubscribe", "provider disconnect", "events", "subscribe"},
           link' => link \/ future.at = "link"
    PROVE  IInv'
<1>1. FutureOK' /\ ScansOK' /\ future'.at = phase /\ ~owned /\ owned' = FALSE
  BY MovesOn
<1>2. Holding' <=> Holding
  BY <1>1 DEF Holding
<1>3. link' => link \/ ~Holding
  BY <1>1 DEF Holding
<1>4. StreamsOK' /\ ReadsOK'
  BY <1>2, <1>3, StreamsStay DEF IInv
<1> QED BY <1>1, <1>4 DEF IInv

\* Nobody lets go of the link while an operation is at work on it.
LEMMA LinkIsHeld ==
    ASSUME LinkOK, link' \in BOOLEAN, subscribed' \in BOOLEAN, left' \in BOOLEAN, subscribed' => link', ~Loose'
    PROVE  LinkOK'
BY DEF LinkOK

\* Where the operation goes from here, and with what of the link.
LEMMA AwaitKeepsLink ==
    ASSUME IInv, NEW phase, Apart(phase), Apart(future.at), future.at \notin Scans, GoesTo(phase),
           UNCHANGED <<owned, scans, remote>>, phase \notin {"find"} \cup Scans
    PROVE  LinkOK'
<1>1. future'.at = phase /\ phase # "none"
  BY MovesOn DEF Apart
<1>2. ~Loose'
  BY <1>1 DEF Loose
<1> QED BY <1>2, LinkStillOK DEF IInv

\* ExistingFails, LinkState and the services: the next await, and nothing else.
LEMMA PlainAwaitsKeep ==
    ASSUME IInv, ExistingFails \/ LinkState \/ Services
    PROVE  IInv'
<1>1. UNCHANGED <<local, remote, scans>> /\ link' = link /\ owned' = owned
  BY DEF ExistingFails, LinkState, Services, Proceeds, After, remote
<1>2. CASE ExistingFails
  <2>1. future.at = "existing" /\ GoesTo("close state")
    BY <1>2 DEF ExistingFails, At
  <2>2. Apart("close state") /\ Apart(future.at) /\ future.at \notin Scans /\ "close state" \notin {"find"} \cup Scans
    BY <2>1 DEF Apart, Phases, Uses, Scans
  <2>3. LinkOK'
    BY <1>1, <2>1, <2>2, AwaitKeepsLink
  <2> QED BY <1>1, <2>1, <2>2, <2>3, NextAwaitKeeps
<1>3. CASE LinkState
  <2>1. future.at = "link state" /\ (GoesTo("services") \/ GoesTo("link"))
    BY <1>3 DEF LinkState, At
  <2>2. /\ Apart("services") /\ Apart("link") /\ Apart(future.at) /\ future.at \notin Scans
        /\ "services" \notin {"find"} \cup Scans /\ "link" \notin {"find"} \cup Scans
    BY <2>1 DEF Apart, Phases, Uses, Scans
  <2>3. CASE GoesTo("services")
    <3>1. LinkOK'
      BY <1>1, <2>2, <2>3, AwaitKeepsLink
    <3> QED BY <1>1, <2>1, <2>2, <2>3, <3>1, NextAwaitKeeps
  <2>4. CASE GoesTo("link")
    <3>1. LinkOK'
      BY <1>1, <2>2, <2>4, AwaitKeepsLink
    <3> QED BY <1>1, <2>1, <2>2, <2>4, <3>1, NextAwaitKeeps
  <2> QED BY <2>1, <2>3, <2>4
<1>4. CASE Services
  <2>1. future.at = "services" /\ GoesTo("notes")
    BY <1>4 DEF Services, At, Proceeds, After
  <2>2. Apart("notes") /\ Apart(future.at) /\ future.at \notin Scans /\ "notes" \notin {"find"} \cup Scans
    BY <2>1 DEF Apart, Phases, Uses, Scans
  <2>3. LinkOK'
    BY <1>1, <2>1, <2>2, AwaitKeepsLink
  <2> QED BY <1>1, <2>1, <2>2, <2>3, NextAwaitKeeps
<1> QED BY <1>2, <1>3, <1>4

\* find_peripheral: in a cache, by a scan, or not at all.
LEMMA FindKeeps ==
    ASSUME IInv, FindCached \/ FindFails
    PROVE  IInv'
<1>1. future.at = "find" /\ UNCHANGED <<owned, local, remote, scans>> /\ link' = link /\ future.at \notin Scans
  BY DEF FindCached, FindFails, At, remote, Scans
<1>2. Apart("link state") /\ Apart("start") /\ Apart(future.at) /\ "link state" \notin {"find"} \cup Scans
  BY <1>1 DEF Apart, Phases, Uses, Scans
<1>3. CASE GoesTo("link state")
  <2>1. LinkOK'
    BY <1>1, <1>2, <1>3, AwaitKeepsLink
  <2> QED BY <1>1, <1>2, <1>3, <2>1, NextAwaitKeeps
<1>4. CASE GoesTo("start")
  <2>1. ~owned
    BY <1>1, <1>2, <1>4, MovesOn
  <2>2. Loose
    BY <1>1, <2>1 DEF Loose
  <2>3. LinkOK'
    BY <1>1, <2>2, LinkStillOK DEF IInv
  <2> QED BY <1>1, <1>2, <1>4, <2>3, NextAwaitKeeps
<1>5. CASE Returns
  <2>1. ScansOK'
    BY <1>1, Quiet
  <2> QED BY <1>1, <1>5, <2>1, ScanEnds
<1> QED BY <1>3, <1>4, <1>5 DEF FindCached, FindFails

\* The provider connects.
LEMMA ProviderConnectKeeps ==
    ASSUME IInv, ProviderConnect
    PROVE  IInv'
<1>1. /\ future.at = "link" /\ GoesTo("services") /\ link' = TRUE /\ left' = FALSE
      /\ UNCHANGED <<owned, local, subscribed, scans>>
  BY DEF ProviderConnect, At
<1>2. Apart("services") /\ Apart(future.at) /\ future.at \notin Scans
  BY <1>1 DEF Apart, Phases, Uses, Scans
<1>3. future'.at = "services"
  BY <1>1, <1>2, MovesOn
<1>4. ~Loose'
  BY <1>3 DEF Loose, Scans
<1>5. LinkOK'
  BY <1>1, <1>4 DEF IInv, LinkOK
<1> QED BY <1>1, <1>2, <1>5, NextAwaitKeeps

\* Before anything is notified everything is in step.
LEMMA NothingNotified ==
    ASSUME NEW g, NEW n, NEW s, g = <<>>, n = <<>>, s = <<>>
    PROVE  InStep(g, n, s)
<1>1. Len(g) = 0 /\ Len(s) = 0 /\ Len(n) = 0
  OBVIOUS
<1>2. 1 .. Len(s) - Len(g) = {} /\ 1 .. Len(n) = {} /\ 1 .. Len(g) = {}
  BY <1>1
<1>3. [k \in {} |-> 1] \in [{} -> {}]
  OBVIOUS
<1>4. \E place \in [1 .. Len(s) - Len(g) -> 1 .. Len(n)] :
          /\ \A k \in 1 .. Len(s) - Len(g) : n[place[k]] = s[Len(g) + k]
          /\ \A k, l \in 1 .. Len(s) - Len(g) : k < l => place[k] < place[l]
          /\ \A i \in 1 .. Len(n) : n[i] \in Packets => \E k \in 1 .. Len(s) - Len(g) : place[k] = i
  <2> WITNESS [k \in {} |-> 1] \in [1 .. Len(s) - Len(g) -> 1 .. Len(n)]
  <2> QED BY <1>2
<1>5. Len(g) <= Len(s) /\ \A k \in 1 .. Len(g) : s[k] = g[k]
  BY <1>1, <1>2
<1> QED BY <1>4, <1>5, Zenon DEF InStep

\* The streams of a connection that is made: its notifications first, then the adapter's events.
LEMMA OpenStreamKeeps ==
    ASSUME IInv, OpenStream
    PROVE  IInv'
<1>1. PICK stream \in {"notes", "events"} : future.at = stream /\ Opens(stream) /\ Proceeds(stream)
  BY DEF OpenStream, At
<1>2. UNCHANGED <<remote, scans>> /\ link' = link
  BY DEF OpenStream, remote
<1>3. streams' = streams \cup {stream} /\ UNCHANGED <<ours, notes, events, said, got>>
  BY <1>1 DEF Opens
<1>4. PICK phase \in {"events", "subscribe"} :
          GoesTo(phase) /\ owned' = owned /\ (stream = "events" => phase = "subscribe")
  BY <1>1 DEF Proceeds, After
<1>5. Apart(phase) /\ Apart(future.at) /\ future.at \notin Scans /\ phase \notin {"find"} \cup Scans
  BY <1>1, <1>4 DEF Apart, Phases, Uses, Scans
<1>6. FutureOK' /\ ScansOK' /\ future'.at = phase /\ ~owned /\ owned' = FALSE
  BY <1>2, <1>4, <1>5, MovesOn
<1>7. LinkOK'
  BY <1>2, <1>4, <1>5, AwaitKeepsLink
<1>8. Holding' /\ "notes" \in streams'
  <2>1. Holding'
    BY <1>4, <1>6 DEF Holding
  <2>2. stream = "events" => Holding
    BY <1>1 DEF Holding
  <2>3. Holding => "notes" \in streams
    BY DEF IInv, StreamsOK
  <2> QED BY <1>3, <2>1, <2>2, <2>3
<1>9. StreamsOK'
  BY <1>2, <1>3, <1>8 DEF IInv, StreamsOK
<1>10. ReadsOK'
  <2>1. CASE "notes" \in streams
    BY <1>3, <1>8, <2>1 DEF IInv, ReadsOK
  <2>2. CASE "notes" \notin streams
    <3>1. notes = <<>> /\ said = <<>> /\ got = <<>>
      BY <2>2 DEF IInv, StreamsOK, ReadsOK
    <3>2. InStep(got, notes, said)
      BY <3>1, NothingNotified
    <3> QED BY <1>3, <1>8, <3>2 DEF IInv, ReadsOK
  <2> QED BY <2>1, <2>2
<1> QED BY <1>6, <1>7, <1>9, <1>10 DEF IInv

\* The companion is subscribed to before the call that asks for it returns.
LEMMA SubscribeKeeps ==
    ASSUME IInv, SubscribeTakesEffect
    PROVE  IInv'
<1>1. /\ future.at = "subscribe" /\ link /\ subscribed' = TRUE /\ ours' = TRUE
      /\ UNCHANGED <<future, owned, notes, events, streams, said, got, link, left, scans>>
  BY DEF SubscribeTakesEffect, At
<1>2. FutureOK' /\ ScansOK' /\ (Holding' <=> Holding) /\ Holding /\ ~Loose'
  BY <1>1 DEF IInv, FutureOK, ScansOK, ScansAreStopped, Holding, Loose, Scans, scans
<1>3. LinkOK'
  BY <1>1, <1>2 DEF IInv, LinkOK
<1>4. StreamsOK'
  BY <1>1, <1>2 DEF IInv, StreamsOK
<1>5. "notes" \in streams
  BY <1>2 DEF IInv, StreamsOK
<1>6. ReadsOK'
  BY <1>1, <1>5 DEF IInv, ReadsOK
<1> QED BY <1>2, <1>3, <1>4, <1>6 DEF IInv

\* The connection is complete.
LEMMA SubscribedKeeps ==
    ASSUME IInv, Subscribed
    PROVE  IInv'
<1>1. /\ future.at = "subscribe" /\ Returns /\ owned' = TRUE /\ left' = FALSE
      /\ UNCHANGED <<local, link, subscribed, scans>>
  BY DEF Subscribed, At, Proceeds, After
<1>2. FutureOK' /\ ScansOK'
  BY <1>1, ComesBack DEF Scans
<1>3. Holding /\ Holding' /\ ~Loose'
  BY <1>1 DEF Holding, Loose
<1>4. LinkOK'
  BY <1>1, <1>3 DEF IInv, LinkOK
<1>5. StreamsOK' /\ ReadsOK'
  BY <1>1, <1>3, StreamsStay DEF IInv
<1> QED BY <1>2, <1>4, <1>5 DEF IInv

\* An await of the connection fails: what there is of it is dropped, and a disconnect follows.
LEMMA EstablishFailsKeeps ==
    ASSUME IInv, EstablishFails
    PROVE  IInv'
<1>1. Establishing /\ GoesTo("undo") /\ DropsStreams /\ UNCHANGED <<owned, subscribed, scans>>
  BY DEF EstablishFails
<1>2. (link' = link /\ left' = left) \/ (link' = TRUE /\ left' = FALSE)
  BY DEF EstablishFails
<1>3. Apart("undo") /\ Apart(future.at) /\ future.at \notin Scans
  BY <1>1 DEF Establishing, Apart, Phases, Uses, Scans
<1>4. FutureOK' /\ ScansOK' /\ future'.at = "undo" /\ owned' = FALSE
  BY <1>1, <1>3, MovesOn
<1>5. ~Holding' /\ ~Loose'
  BY <1>4 DEF Holding, Loose, Scans
<1>6. LinkOK'
  <2>1. CASE link' = link /\ left' = left
    BY <1>1, <1>5, <2>1 DEF IInv, LinkOK
  <2>2. CASE link' = TRUE /\ left' = FALSE
    BY <1>1, <1>5, <2>2 DEF IInv, LinkOK
  <2> QED BY <1>2, <2>1, <2>2
<1>7. StreamsOK' /\ ReadsOK'
  BY <1>1, <1>5, StreamsDropped
<1> QED BY <1>4, <1>6, <1>7 DEF IInv

\* best_effort_disconnect
LEMMA UndoKeeps ==
    ASSUME IInv, Undo \/ UndoFails
    PROVE  IInv'
<1>1. future.at = "undo" /\ Returns /\ UNCHANGED <<owned, local, scans>> /\ (LinkDown \/ LinkStays)
  BY DEF Undo, UndoFails, At
<1>2. ~owned /\ owned' = FALSE
  BY <1>1, NotOwned DEF IInv, Uses
<1>3. FutureOK' /\ ScansOK' /\ future'.at = "none"
  BY <1>1, <1>2, ComesBack DEF Scans
<1>4. ~Holding /\ ~Holding'
  BY <1>1, <1>2, <1>3 DEF Holding
<1>5. StreamsOK' /\ ReadsOK' /\ LinkOK'
  BY <1>1, <1>4, StreamsStay, LinkSettled DEF IInv
<1> QED BY <1>3, <1>5 DEF IInv

-----------------------------------------------------------------------------
(* The packets that are notified, and those that are read.                 *)

\* One more item.
LEMMA AppendIs ==
    ASSUME NEW S, NEW q \in Seq(S), NEW x \in S
    PROVE  /\ Append(q, x) \in Seq(S) /\ Len(Append(q, x)) = Len(q) + 1 /\ Len(q) \in Nat
           /\ Append(q, x)[Len(q) + 1] = x
           /\ \A i \in 1 .. Len(q) : Append(q, x)[i] = q[i]
OBVIOUS

\* One item less.
LEMMA TailIs ==
    ASSUME NEW S, NEW q \in Seq(S), q # <<>>
    PROVE  /\ Tail(q) \in Seq(S) /\ Len(Tail(q)) = Len(q) - 1 /\ Len(q) \in Nat /\ Len(q) >= 1
           /\ Head(q) = q[1] /\ Head(q) \in S
           /\ \A i \in 1 .. Len(q) - 1 : Tail(q)[i] = q[i + 1]
OBVIOUS

\* An item that is no packet changes nothing.
LEMMA NoiseInStep ==
    ASSUME NEW g \in Seq(Packets), NEW n \in Seq(Items), NEW s \in Seq(Packets), NEW x \in Items,
           x \notin Packets, InStep(g, n, s)
    PROVE  InStep(g, Append(n, x), s)
<1> DEFINE m == Append(n, x)
           d == Len(s) - Len(g)
<1>1. /\ Len(m) = Len(n) + 1 /\ Len(n) \in Nat /\ m[Len(n) + 1] = x
      /\ \A i \in 1 .. Len(n) : m[i] = n[i]
  BY AppendIs
<1>2. Len(g) <= Len(s) /\ (\A k \in 1 .. Len(g) : s[k] = g[k]) /\ Len(g) \in Nat /\ Len(s) \in Nat
  BY DEF InStep
<1>3. PICK place \in [1 .. d -> 1 .. Len(n)] :
          /\ \A k \in 1 .. d : n[place[k]] = s[Len(g) + k]
          /\ \A k, l \in 1 .. d : k < l => place[k] < place[l]
          /\ \A i \in 1 .. Len(n) : n[i] \in Packets => \E k \in 1 .. d : place[k] = i
  BY DEF InStep
<1> HIDE DEF m, d
<1>4. place \in [1 .. d -> 1 .. Len(m)]
  BY <1>1, <1>3
<1>5. \A k \in 1 .. d : m[place[k]] = s[Len(g) + k]
  BY <1>1, <1>3
<1>6. \A i \in 1 .. Len(m) : m[i] \in Packets => \E k \in 1 .. d : place[k] = i
  BY <1>1, <1>3
<1>7. \E f \in [1 .. d -> 1 .. Len(m)] :
          /\ \A k \in 1 .. d : m[f[k]] = s[Len(g) + k]
          /\ \A k, l \in 1 .. d : k < l => f[k] < f[l]
          /\ \A i \in 1 .. Len(m) : m[i] \in Packets => \E k \in 1 .. d : f[k] = i
  BY <1>3, <1>4, <1>5, <1>6, Zenon
<1> QED BY <1>2, <1>7, Zenon DEF InStep, m, d

\* A packet that is notified waits behind the others.
LEMMA PacketInStep ==
    ASSUME NEW g \in Seq(Packets), NEW n \in Seq(Items), NEW s \in Seq(Packets), NEW x \in Packets,
           InStep(g, n, s)
    PROVE  InStep(g, Append(n, x), Append(s, x))
<1> DEFINE m == Append(n, x)
           t == Append(s, x)
           c == Len(s) - Len(g)
           d == Len(t) - Len(g)
<1>1. /\ Len(m) = Len(n) + 1 /\ Len(n) \in Nat /\ m[Len(n) + 1] = x
      /\ \A i \in 1 .. Len(n) : m[i] = n[i]
  BY AppendIs DEF Items
<1>2. /\ Len(t) = Len(s) + 1 /\ Len(s) \in Nat /\ t[Len(s) + 1] = x
      /\ \A i \in 1 .. Len(s) : t[i] = s[i]
  BY AppendIs
<1>3. Len(g) <= Len(s) /\ (\A k \in 1 .. Len(g) : s[k] = g[k]) /\ Len(g) \in Nat
  BY DEF InStep
<1>4. PICK place \in [1 .. c -> 1 .. Len(n)] :
          /\ \A k \in 1 .. c : n[place[k]] = s[Len(g) + k]
          /\ \A k, l \in 1 .. c : k < l => place[k] < place[l]
          /\ \A i \in 1 .. Len(n) : n[i] \in Packets => \E k \in 1 .. c : place[k] = i
  BY DEF InStep
<1>5. d = c + 1 /\ c \in Nat /\ Len(g) + d = Len(s) + 1 /\ Len(g) + c = Len(s)
  BY <1>2, <1>3
<1> DEFINE f == [k \in 1 .. d |-> IF k = d THEN Len(m) ELSE place[k]]
<1> HIDE DEF m, t, c, d
<1>6. f \in [1 .. d -> 1 .. Len(m)]
  BY <1>1, <1>4, <1>5
<1>7. (\A k \in 1 .. c : f[k] = place[k]) /\ f[d] = Len(m)
  BY <1>5
<1> HIDE DEF f
<1>8. ASSUME NEW k \in 1 .. d PROVE m[f[k]] = t[Len(g) + k]
  <2>1. CASE k = d
    BY <1>1, <1>2, <1>5, <1>7, <2>1
  <2>2. CASE k # d
    <3>1. k \in 1 .. c /\ Len(g) + k \in 1 .. Len(s)
      BY <1>3, <1>5, <2>2
    <3>2. place[k] \in 1 .. Len(n) /\ n[place[k]] = s[Len(g) + k]
      BY <1>4, <3>1
    <3> QED BY <1>1, <1>2, <1>7, <3>1, <3>2
  <2> QED BY <2>1, <2>2
<1>9. ASSUME NEW k \in 1 .. d, NEW l \in 1 .. d, k < l PROVE f[k] < f[l]
  <2>1. k \in 1 .. c /\ f[k] = place[k] /\ place[k] \in 1 .. Len(n)
    BY <1>4, <1>5, <1>7, <1>9
  <2>2. CASE l = d
    BY <1>1, <1>7, <2>1, <2>2
  <2>3. CASE l # d
    <3>1. l \in 1 .. c
      BY <1>5, <2>3
    <3> QED BY <1>4, <1>7, <1>9, <2>1, <3>1
  <2> QED BY <2>2, <2>3
<1>10. ASSUME NEW i \in 1 .. Len(m), m[i] \in Packets PROVE \E k \in 1 .. d : f[k] = i
  <2>1. CASE i = Len(m)
    BY <1>5, <1>7, <2>1
  <2>2. CASE i # Len(m)
    <3>1. i \in 1 .. Len(n) /\ n[i] \in Packets
      BY <1>1, <1>10, <2>2
    <3>2. PICK k \in 1 .. c : place[k] = i
      BY <1>4, <3>1
    <3>3. k \in 1 .. d /\ f[k] = i
      BY <1>5, <1>7, <3>2
    <3> QED BY <3>3
  <2> QED BY <2>1, <2>2
<1>11. \E h \in [1 .. d -> 1 .. Len(m)] :
          /\ \A k \in 1 .. d : m[h[k]] = t[Len(g) + k]
          /\ \A k, l \in 1 .. d : k < l => h[k] < h[l]
          /\ \A i \in 1 .. Len(m) : m[i] \in Packets => \E k \in 1 .. d : h[k] = i
  BY <1>6, <1>8, <1>9, <1>10, Zenon
<1>12. Len(g) <= Len(t) /\ \A k \in 1 .. Len(g) : t[k] = g[k]
  BY <1>2, <1>3
<1> QED BY <1>11, <1>12, Zenon DEF InStep, m, t, d

\* What is no packet is passed over.
LEMMA SkipInStep ==
    ASSUME NEW g \in Seq(Packets), NEW n \in Seq(Items), NEW s \in Seq(Packets), n # <<>>,
           Head(n) \notin Packets, InStep(g, n, s)
    PROVE  InStep(g, Tail(n), s)
<1> DEFINE m == Tail(n)
           d == Len(s) - Len(g)
<1>1. /\ Len(m) = Len(n) - 1 /\ Len(n) \in Nat /\ n[1] \notin Packets
      /\ \A i \in 1 .. Len(n) - 1 : m[i] = n[i + 1]
  BY TailIs
<1>2. Len(g) <= Len(s) /\ (\A k \in 1 .. Len(g) : s[k] = g[k]) /\ Len(g) \in Nat /\ Len(s) \in Nat
  BY DEF InStep
<1>3. PICK place \in [1 .. d -> 1 .. Len(n)] :
          /\ \A k \in 1 .. d : n[place[k]] = s[Len(g) + k]
          /\ \A k, l \in 1 .. d : k < l => place[k] < place[l]
          /\ \A i \in 1 .. Len(n) : n[i] \in Packets => \E k \in 1 .. d : place[k] = i
  BY DEF InStep
<1>4. \A k \in 1 .. d : s[Len(g) + k] \in Packets
  BY <1>2
<1> DEFINE f == [k \in 1 .. d |-> place[k] - 1]
<1> HIDE DEF m, d
<1>5. \A k \in 1 .. d : place[k] \in 1 .. Len(n) /\ place[k] # 1
  <2> TAKE k \in 1 .. d
  <2>1. place[k] \in 1 .. Len(n)
    BY <1>3
  <2>2. n[place[k]] = s[Len(g) + k]
    BY <1>3
  <2>3. n[place[k]] \in Packets
    BY <1>4, <2>2
  <2> QED BY <1>1, <2>1, <2>3
<1>6. \A k \in 1 .. d : f[k] = place[k] - 1 /\ f[k] \in 1 .. Len(m) /\ f[k] \in 1 .. Len(n) - 1 /\ f[k] + 1 = place[k]
  BY <1>1, <1>5
<1>7. f \in [1 .. d -> 1 .. Len(m)]
  BY <1>6
<1> HIDE DEF f
<1>8. ASSUME NEW k \in 1 .. d PROVE m[f[k]] = s[Len(g) + k]
  BY <1>1, <1>3, <1>6
<1>9. ASSUME NEW k \in 1 .. d, NEW l \in 1 .. d, k < l PROVE f[k] < f[l]
  BY <1>3, <1>5, <1>6, <1>9
<1>10. ASSUME NEW i \in 1 .. Len(m), m[i] \in Packets PROVE \E k \in 1 .. d : f[k] = i
  <2>1. i + 1 \in 1 .. Len(n) /\ n[i + 1] \in Packets
    BY <1>1, <1>10
  <2>2. PICK k \in 1 .. d : place[k] = i + 1
    BY <1>3, <2>1
  <2>3. f[k] = i
    BY <1>6, <2>2
  <2> QED BY <2>3
<1>11. \E h \in [1 .. d -> 1 .. Len(m)] :
          /\ \A k \in 1 .. d : m[h[k]] = s[Len(g) + k]
          /\ \A k, l \in 1 .. d : k < l => h[k] < h[l]
          /\ \A i \in 1 .. Len(m) : m[i] \in Packets => \E k \in 1 .. d : h[k] = i
  BY <1>7, <1>8, <1>9, <1>10, Zenon
<1> QED BY <1>2, <1>11, Zenon DEF InStep, m, d

\* The packet that is read is the next one.
LEMMA ReadInStep ==
    ASSUME NEW g \in Seq(Packets), NEW n \in Seq(Items), NEW s \in Seq(Packets), n # <<>>,
           Head(n) \in Packets, InStep(g, n, s)
    PROVE  InStep(Append(g, Head(n)), Tail(n), s)
<1> DEFINE m == Tail(n)
           x == Head(n)
           h == Append(g, x)
           c == Len(s) - Len(g)
           d == Len(s) - Len(h)
<1>1. /\ Len(m) = Len(n) - 1 /\ Len(n) \in Nat /\ Len(n) >= 1 /\ n[1] = x /\ x \in Packets
      /\ \A i \in 1 .. Len(n) - 1 : m[i] = n[i + 1]
  BY TailIs
<1>2. Len(h) = Len(g) + 1 /\ Len(g) \in Nat /\ h[Len(g) + 1] = x /\ \A i \in 1 .. Len(g) : h[i] = g[i]
  BY <1>1, AppendIs
<1>3. Len(g) <= Len(s) /\ (\A k \in 1 .. Len(g) : s[k] = g[k]) /\ Len(s) \in Nat
  BY DEF InStep
<1>4. PICK place \in [1 .. c -> 1 .. Len(n)] :
          /\ \A k \in 1 .. c : n[place[k]] = s[Len(g) + k]
          /\ \A k, l \in 1 .. c : k < l => place[k] < place[l]
          /\ \A i \in 1 .. Len(n) : n[i] \in Packets => \E k \in 1 .. c : place[k] = i
  BY DEF InStep
<1>5. c = d + 1 /\ c \in Nat /\ d \in Int
  BY <1>2, <1>3
<1> DEFINE f == [k \in 1 .. d |-> place[k + 1] - 1]
<1> HIDE DEF m, x, h, c, d
<1>6. place[1] = 1 /\ 1 \in 1 .. c /\ c >= 1
  <2>1. 1 \in 1 .. Len(n) /\ n[1] \in Packets
    BY <1>1
  <2>2. PICK k \in 1 .. c : place[k] = 1
    BY <1>4, <2>1
  <2>3. 1 \in 1 .. c /\ c >= 1 /\ (k = 1 \/ 1 < k)
    BY <1>5
  <2>4. place[1] \in 1 .. Len(n)
    BY <1>4, <2>3
  <2>5. 1 < k => place[1] < place[k]
    BY <1>4, <2>3
  <2> QED BY <2>2, <2>3, <2>4, <2>5
<1>7. \A k \in 1 .. d : k + 1 \in 1 .. c /\ place[k + 1] \in 1 .. Len(n) /\ 1 < place[k + 1]
  <2> TAKE k \in 1 .. d
  <2>1. k + 1 \in 1 .. c /\ 1 < k + 1
    BY <1>5
  <2>2. place[k + 1] \in 1 .. Len(n) /\ place[1] < place[k + 1]
    BY <1>4, <1>6, <2>1
  <2> QED BY <1>6, <2>1, <2>2
<1>8. \A k \in 1 .. d : f[k] = place[k + 1] - 1 /\ f[k] \in 1 .. Len(m) /\ f[k] \in 1 .. Len(n) - 1 /\ f[k] + 1 = place[k + 1]
  BY <1>1, <1>7
<1>9. f \in [1 .. d -> 1 .. Len(m)]
  BY <1>8
<1> HIDE DEF f
<1>10. ASSUME NEW k \in 1 .. d PROVE m[f[k]] = s[Len(h) + k]
  <2>1. m[f[k]] = n[place[k + 1]]
    BY <1>1, <1>8
  <2>2. n[place[k + 1]] = s[Len(g) + (k + 1)]
    BY <1>4, <1>7
  <2>3. Len(g) + (k + 1) = Len(h) + k
    BY <1>2
  <2> QED BY <2>1, <2>2, <2>3
<1>11. ASSUME NEW k \in 1 .. d, NEW l \in 1 .. d, k < l PROVE f[k] < f[l]
  <2>1. k + 1 \in 1 .. c /\ l + 1 \in 1 .. c /\ k + 1 < l + 1
    BY <1>7, <1>11
  <2>2. place[k + 1] < place[l + 1]
    BY <1>4, <2>1
  <2> QED BY <1>7, <1>8, <2>2
<1>12. ASSUME NEW i \in 1 .. Len(m), m[i] \in Packets PROVE \E k \in 1 .. d : f[k] = i
  <2>1. i + 1 \in 1 .. Len(n) /\ n[i + 1] \in Packets /\ i + 1 # 1
    BY <1>1, <1>12
  <2>2. PICK k \in 1 .. c : place[k] = i + 1
    BY <1>4, <2>1
  <2>3. k # 1
    BY <1>6, <2>1, <2>2
  <2>4. k - 1 \in 1 .. d /\ (k - 1) + 1 = k
    BY <1>5, <2>3
  <2>5. f[k - 1] = i
    BY <1>8, <2>2, <2>4
  <2> QED BY <2>4, <2>5
<1>13. \E e \in [1 .. d -> 1 .. Len(m)] :
          /\ \A k \in 1 .. d : m[e[k]] = s[Len(h) + k]
          /\ \A k, l \in 1 .. d : k < l => e[k] < e[l]
          /\ \A i \in 1 .. Len(m) : m[i] \in Packets => \E k \in 1 .. d : e[k] = i
  BY <1>9, <1>10, <1>11, <1>12, Zenon
<1>14. Len(h) <= Len(s)
  BY <1>2, <1>3, <1>5, <1>6 DEF c
<1>15. ASSUME NEW k \in 1 .. Len(h) PROVE s[k] = h[k]
  <2>1. CASE k = Len(g) + 1
    <3>1. n[place[1]] = s[Len(g) + 1]
      BY <1>4, <1>6
    <3> QED BY <1>1, <1>2, <1>6, <2>1, <3>1
  <2>2. CASE k # Len(g) + 1
    BY <1>2, <1>3, <2>2
  <2> QED BY <2>1, <2>2
<1> QED BY <1>13, <1>14, <1>15, Zenon DEF InStep, m, x, h, d

-----------------------------------------------------------------------------
(* Disconnecting.                                                          *)

\* The clean-up is over: the connection is gone, and a reconnect goes on.
LEMMA ClosedKeeps ==
    ASSUME IInv, future.at \in {"close state", "unsubscribe", "provider disconnect"}, Closed,
           UNCHANGED <<owned, scans>>, (LinkDown \/ LinkStays) \/ (~link /\ UNCHANGED remote)
    PROVE  IInv'
<1>1. Apart("find") /\ Apart(future.at) /\ future.at \notin Scans
  BY DEF Apart, Phases, Uses, Scans
<1>2. ~owned /\ owned' = FALSE
  BY <1>1, NotOwned DEF IInv, Apart
<1>3. DropsStreams /\ (GoesTo("find") \/ Returns)
  BY DEF Closed
<1>4. FutureOK' /\ ScansOK' /\ future'.at \in {"find", "none"}
  <2>1. CASE GoesTo("find")
    BY <1>1, <2>1, MovesOn
  <2>2. CASE Returns
    BY <1>1, <1>2, <2>2, ComesBack
  <2> QED BY <1>3, <2>1, <2>2
<1>5. ~Holding'
  BY <1>2, <1>4 DEF Holding
<1>6. StreamsOK' /\ ReadsOK'
  BY <1>3, <1>5, StreamsDropped
<1>7. LinkOK'
  BY LinkSettled, LinkStillOK DEF IInv
<1> QED BY <1>4, <1>6, <1>7 DEF IInv

\* CloseState: not connected any more, or on to the clean-up.
LEMMA CloseStateKeeps ==
    ASSUME IInv, CloseState
    PROVE  IInv'
<1>1. future.at = "close state" /\ UNCHANGED <<owned, remote, scans>> /\ link' = link
  BY DEF CloseState, At, remote
<1>2. CASE ~link /\ Closed
  BY <1>1, <1>2, ClosedKeeps
<1>3. CASE GoesTo("unsubscribe") /\ UNCHANGED local
  <2>1. Apart("unsubscribe") /\ Apart(future.at) /\ future.at \notin Scans /\ "unsubscribe" \notin {"find"} \cup Scans
    BY <1>1 DEF Apart, Phases, Uses, Scans
  <2>2. LinkOK'
    BY <1>1, <1>3, <2>1, AwaitKeepsLink
  <2> QED BY <1>1, <1>3, <2>1, <2>2, NextAwaitKeeps
<1> QED BY <1>2, <1>3 DEF CloseState

\* Unsubscribe, whose error is passed over.
LEMMA UnsubscribeKeeps ==
    ASSUME IInv, Unsubscribe
    PROVE  IInv'
<1>1. /\ future.at = "unsubscribe" /\ GoesTo("provider disconnect")
      /\ UNCHANGED <<owned, local, link, left, scans>>
  BY DEF Unsubscribe, At
<1>2. subscribed' \in BOOLEAN /\ (subscribed' => link')
  <2>1. CASE subscribed' = FALSE
    BY <2>1
  <2>2. CASE subscribed' = subscribed
    BY <1>1, <2>2 DEF IInv, LinkOK
  <2> QED BY <2>1, <2>2 DEF Unsubscribe
<1>3. Apart("provider disconnect") /\ Apart(future.at) /\ future.at \notin Scans
  BY <1>1 DEF Apart, Phases, Uses, Scans
<1>4. future'.at = "provider disconnect"
  BY <1>1, <1>3, MovesOn
<1>5. ~Loose'
  BY <1>4 DEF Loose, Scans
<1>6. LinkOK'
  BY <1>1, <1>2, <1>5 DEF IInv, LinkOK
<1> QED BY <1>1, <1>3, <1>6, NextAwaitKeeps

\* ProviderDisconnect and CloseFails
LEMMA CloseEndsKeeps ==
    ASSUME IInv, ProviderDisconnect \/ CloseFails
    PROVE  IInv'
BY ClosedKeeps DEF ProviderDisconnect, CloseFails, At

-----------------------------------------------------------------------------
(* Writing and reading.                                                    *)

\* A write or a read begins: the connection stays where it is.
LEMMA UseBegins ==
    ASSUME IInv, NEW op \in {"read", "write"}, NEW phase \in Uses, Begins(op, phase, {}), owned,
           UNCHANGED <<owned, local, remote, scans>>
    PROVE  IInv'
<1>1. op \in Operations /\ phase \in Phases /\ {} \in SUBSET Adapters
  BY DEF Operations, Phases, Uses
<1>2. ScansOK' /\ Begun(op, phase, {}) /\ future'.at = phase
  BY <1>1, Calls
<1>3. owned' = TRUE
  BY DEF IInv, FutureOK
<1>4. FutureOK'
  BY <1>2, <1>3 DEF FutureOK, Begun, Uses
<1>5. Holding /\ Holding' /\ ~Loose' /\ link' = link
  BY <1>3 DEF Holding, Loose, remote
<1>6. StreamsOK' /\ ReadsOK' /\ LinkOK'
  BY <1>5, StreamsStay, LinkStillOK DEF IInv
<1> QED BY <1>2, <1>4, <1>6 DEF IInv

\* WriteCall and ReadCall
LEMMA UseCallsKeep ==
    ASSUME IInv, WriteCall \/ ReadCall
    PROVE  IInv'
<1>1. "write" \in {"read", "write"} /\ "read" \in {"read", "write"} /\ "write state" \in Uses /\ "read" \in Uses
  BY DEF Uses
<1>2. CASE WriteCall
  BY <1>1, <1>2, UseBegins DEF WriteCall
<1>3. CASE ReadCall
  BY <1>1, <1>3, UseBegins DEF ReadCall
<1> QED BY <1>2, <1>3

\* Whoever uses a connection has it.
LEMMA UserOwns ==
    ASSUME IInv, future.at \in Uses
    PROVE  /\ owned /\ owned = TRUE /\ Holding /\ ~Loose /\ "notes" \in streams
           /\ future.at \notin Scans /\ InStep(got, notes, said)
<1>1. owned /\ owned = TRUE
  BY DEF IInv, FutureOK
<1>2. Holding /\ ~Loose /\ future.at \notin Scans
  BY <1>1 DEF Holding, Loose, Scans, Uses
<1>3. "notes" \in streams
  BY <1>2 DEF IInv, StreamsOK
<1> QED BY <1>1, <1>2, <1>3 DEF IInv, ReadsOK

\* The use is over and the connection stays.
LEMMA UseEnds ==
    ASSUME IInv, future.at \in Uses, Returns, UNCHANGED <<owned, local, remote, scans>>
    PROVE  IInv'
<1>1. owned' = TRUE /\ Holding /\ future.at \notin Scans
  BY UserOwns
<1>2. FutureOK' /\ ScansOK'
  BY <1>1, ComesBack
<1>3. Holding' /\ ~Loose' /\ link' = link
  BY <1>1 DEF Holding, Loose, remote
<1>4. StreamsOK' /\ ReadsOK' /\ LinkOK'
  BY <1>1, <1>3, StreamsStay, LinkStillOK DEF IInv
<1> QED BY <1>2, <1>4 DEF IInv

\* The use ends the connection.
LEMMA UseDrops ==
    ASSUME IInv, future.at \in Uses, Returns, owned' = FALSE, DropsStreams, UNCHANGED scans, LinkOK'
    PROVE  IInv'
<1>1. future.at \notin Scans
  BY UserOwns
<1>2. FutureOK' /\ ScansOK' /\ future'.at = "none"
  BY <1>1, ComesBack
<1>3. ~Holding'
  BY <1>2 DEF Holding
<1>4. StreamsOK' /\ ReadsOK'
  BY <1>3, StreamsDropped
<1> QED BY <1>2, <1>4 DEF IInv

\* WriteState: the write goes on, or finds the link lost.
LEMMA WriteStateKeeps ==
    ASSUME IInv, WriteState
    PROVE  IInv'
<1>1. future.at = "write state" /\ future.at \in Uses /\ UNCHANGED <<remote, scans>> /\ link' = link
  BY DEF WriteState, At, Uses, remote
<1>2. CASE link
  <2>1. GoesTo("write") /\ UNCHANGED <<owned, local>>
    BY <1>2 DEF WriteState
  <2>2. "write" \in Phases
    BY DEF Phases
  <2>3. Went("write")
    BY <2>1, <2>2, Goes DEF IInv
  <2>4. owned' = TRUE /\ Holding /\ ~Loose /\ future.at \notin Scans
    BY <1>1, <2>1, UserOwns
  <2>5. FutureOK'
    BY <1>1, <2>3, <2>4 DEF IInv, FutureOK, Went, Uses
  <2>6. Holding' /\ ~Loose'
    BY <2>4 DEF Holding, Loose
  <2>7. StreamsOK' /\ ReadsOK' /\ LinkOK' /\ ScansOK'
    BY <1>1, <2>1, <2>4, <2>6, StreamsStay, LinkStillOK, Quiet DEF IInv
  <2> QED BY <2>5, <2>7 DEF IInv
<1>3. CASE ~link
  <2>1. Returns /\ owned' = FALSE /\ DropsStreams
    BY <1>3 DEF WriteState
  <2>2. LinkOK'
    BY <1>1, <1>3, LinkStillOK DEF IInv
  <2> QED BY <1>1, <2>1, <2>2, UseDrops
<1> QED BY <1>2, <1>3

\* The packet is written.
LEMMA WriteKeeps ==
    ASSUME IInv, Write
    PROVE  IInv'
BY UseEnds DEF Write, At, Uses

\* A failed write ends the connection.
LEMMA WriteFailsKeeps ==
    ASSUME IInv, WriteFails
    PROVE  IInv'
<1>1. future.at \in Uses /\ owned' = FALSE /\ DropsStreams /\ GoesTo("undo") /\ UNCHANGED <<remote, scans>>
  BY DEF WriteFails, Uses
<1>2. "undo" \in Phases /\ "undo" \notin {"none"} \cup Uses
  BY DEF Phases, Uses
<1>3. Went("undo")
  BY <1>1, <1>2, Goes DEF IInv
<1>4. future.op # "none"
  BY <1>1 DEF IInv, FutureOK
<1>5. FutureOK'
  BY <1>1, <1>2, <1>3, <1>4, FutureStep DEF Went
<1>6. ~Holding' /\ ~Loose'
  BY <1>1, <1>3 DEF Holding, Loose, Went, Scans
<1>7. StreamsOK' /\ ReadsOK' /\ LinkOK' /\ ScansOK'
  BY <1>1, <1>6, StreamsDropped, LinkStillOK, Quiet, UserOwns DEF IInv
<1> QED BY <1>5, <1>7 DEF IInv

\* Only the items of the notification stream change.
LEMMA NotesChange ==
    ASSUME IInv, "notes" \in streams, notes' \in Seq(Items), UNCHANGED <<events, streams>>,
           Holding' <=> Holding, link' => link
    PROVE  StreamsOK'
BY DEF IInv, StreamsOK

\* Nothing but the future, the streams and what is read changes, and the connection stays in use.
LEMMA UserStays ==
    ASSUME IInv, future.at \in Uses, UNCHANGED <<owned, scans, remote>>, future' = future \/ Returns
    PROVE  FutureOK' /\ ScansOK' /\ LinkOK' /\ Holding /\ Holding' /\ link' = link
<1>1. owned' = TRUE /\ Holding /\ ~Loose /\ future.at \notin Scans
  BY UserOwns
<1>2. FutureOK'
  <2>1. CASE future' = future
    BY <2>1 DEF IInv, FutureOK
  <2>2. CASE Returns
    BY <1>1, <2>2, ComesBack
  <2> QED BY <2>1, <2>2
<1>3. Holding' /\ ~Loose' /\ link' = link
  BY <1>1 DEF Holding, Loose, remote
<1> QED BY <1>1, <1>2, <1>3, Quiet, LinkStillOK DEF IInv

\* ReadNotification: a packet is handed out, something else is passed over, the end is the end.
LEMMA ReadNotificationKeeps ==
    ASSUME IInv, ReadNotification
    PROVE  IInv'
<1>1. future.at \in Uses /\ notes # <<>> /\ UNCHANGED scans
  BY DEF ReadNotification, At, Uses
<1>2. /\ "notes" \in streams /\ InStep(got, notes, said) /\ notes \in Seq(Items)
      /\ got \in Seq(Packets) /\ said \in Seq(Packets) /\ ours \in BOOLEAN
  BY <1>1, UserOwns DEF IInv, StreamsOK, ReadsOK
<1>3. Head(notes) \in Items /\ Tail(notes) \in Seq(Items)
  BY <1>1, <1>2
<1>4. CASE Head(notes) \in Packets \cup {Foreign, TooLarge}
  <2>1. /\ notes' = Tail(notes) /\ UNCHANGED <<owned, remote, ours, events, streams, said>>
        /\ got' = IF Head(notes) \in Packets THEN Append(got, Head(notes)) ELSE got
        /\ future' = future \/ Returns
    <3>1. Head(notes) # End
      BY <1>4, PacketsAssumption DEF Foreign, TooLarge, End
    <3> QED BY <3>1 DEF ReadNotification
  <2>2. FutureOK' /\ ScansOK' /\ LinkOK' /\ Holding /\ Holding' /\ link' = link
    BY <1>1, <2>1, UserStays
  <2>3. StreamsOK'
    BY <1>2, <1>3, <2>1, <2>2, NotesChange
  <2>4. InStep(got', notes', said') /\ got' \in Seq(Packets)
    <3>1. CASE Head(notes) \in Packets
      <4>1. InStep(Append(got, Head(notes)), Tail(notes), said)
        BY <1>1, <1>2, <3>1, ReadInStep
      <4>2. Append(got, Head(notes)) \in Seq(Packets)
        BY <1>2, <3>1
      <4> QED BY <2>1, <3>1, <4>1, <4>2
    <3>2. CASE Head(notes) \notin Packets
      <4>1. InStep(got, Tail(notes), said)
        BY <1>1, <1>2, <3>2, SkipInStep
      <4> QED BY <1>2, <2>1, <3>2, <4>1
    <3> QED BY <3>1, <3>2
  <2>5. ReadsOK'
    BY <1>2, <2>1, <2>4 DEF ReadsOK
  <2> QED BY <2>2, <2>3, <2>5 DEF IInv
<1>5. CASE Head(notes) = End
  <2>1. owned' = FALSE /\ DropsStreams /\ Returns /\ LinkStays
    <3>1. Head(notes) \notin Packets \cup {Foreign, TooLarge}
      BY <1>5, PacketsAssumption DEF Foreign, TooLarge, End
    <3> QED BY <3>1 DEF ReadNotification
  <2>2. LinkOK'
    BY <2>1, LinkSettled DEF IInv
  <2> QED BY <1>1, <2>1, <2>2, UseDrops
<1> QED BY <1>3, <1>4, <1>5 DEF Items

\* ReadEvent: a loss ends the connection, another event is passed over.
LEMMA ReadEventKeeps ==
    ASSUME IInv, ReadEvent
    PROVE  IInv'
<1>1. future.at \in Uses /\ events # <<>> /\ UNCHANGED <<remote, scans>>
  BY DEF ReadEvent, At, Uses
<1>2. events \in Seq(Signals) /\ "notes" \in streams /\ streams \in SUBSET {"notes", "events"}
  BY <1>1, UserOwns DEF IInv, StreamsOK
<1>3. CASE Head(events) = Lost
  <2>1. owned' = FALSE /\ DropsStreams /\ Returns
    BY <1>3 DEF ReadEvent
  <2>2. 1 \in 1 .. Len(events) /\ events[1] = Lost
    BY <1>1, <1>2, <1>3
  <2>3. ~link
    BY <2>2 DEF IInv, StreamsOK
  <2>4. LinkOK'
    BY <1>1, <2>3, LinkStillOK DEF IInv
  <2> QED BY <1>1, <2>1, <2>4, UseDrops
<1>4. CASE Head(events) # Lost
  <2>1. /\ events' = Tail(events) /\ UNCHANGED <<future, owned, ours, notes, said, got>>
        /\ streams' = streams \/ streams' = streams \ {"events"}
    BY <1>4 DEF ReadEvent
  <2>2. FutureOK' /\ ScansOK' /\ LinkOK' /\ Holding /\ Holding' /\ link' = link
    BY <1>1, <2>1, UserStays
  <2>3. "notes" \in streams' /\ streams' \in SUBSET {"notes", "events"}
    BY <1>2, <2>1
  <2>4. ReadsOK'
    BY <1>2, <2>1, <2>3 DEF IInv, ReadsOK
  <2>5. /\ Tail(events) \in Seq(Signals) /\ Len(Tail(events)) = Len(events) - 1 /\ Len(events) \in Nat
        /\ \A i \in 1 .. Len(events) - 1 : Tail(events)[i] = events[i + 1]
    BY <1>1, <1>2, TailIs
  <2>6. ASSUME NEW i \in 1 .. Len(Tail(events)), Tail(events)[i] = Lost PROVE ~link
    <3>1. i + 1 \in 1 .. Len(events) /\ events[i + 1] = Lost
      BY <2>5, <2>6
    <3> QED BY <3>1 DEF IInv, StreamsOK
  <2>7. StreamsOK'
    <3>1. notes' \in Seq(Items)
      BY <2>1 DEF IInv, StreamsOK
    <3>2. \A i \in 1 .. Len(events') : events'[i] = Lost => ~link'
      BY <2>1, <2>2, <2>6
    <3> QED BY <2>1, <2>2, <2>3, <2>5, <3>1, <3>2 DEF StreamsOK
  <2> QED BY <2>2, <2>4, <2>7 DEF IInv
<1> QED BY <1>3, <1>4

-----------------------------------------------------------------------------
(* A future is dropped.                                                    *)

\* The scans of the operation get a task each.
LEMMA GuardDropped ==
    ASSUME IInv, DropsGuard, Rested
    PROVE  ScansOK'
<1>1. guard' = {} /\ scheduled' = scheduled \cup guard
  BY DEF DropsGuard
<1>2. PICK done \in SUBSET guard : scanning' = scanning \ done /\ stuck' = stuck \ done
  <2>1. CASE At("stop")
    BY <2>1 DEF DropsGuard, Stopped
  <2>2. CASE ~At("stop")
    <3>1. scanning' = scanning \ {} /\ stuck' = stuck \ {} /\ {} \in SUBSET guard
      BY <2>2 DEF DropsGuard
    <3> QED BY <3>1
  <2> QED BY <2>1, <2>2
<1> QED BY <1>1, <1>2 DEF IInv, ScansOK, ScansAreStopped, Rested

\* Cancel
LEMMA CancelKeeps ==
    ASSUME IInv, Cancel
    PROVE  IInv'
<1>1. future.op # "none" /\ Returns /\ DropsGuard /\ owned' = owned
  BY DEF Cancel
<1>2. Rested
  BY <1>1, Rests
<1>3. ScansOK'
  BY <1>1, <1>2, GuardDropped
<1>4. FutureOK'
  BY <1>1, <1>2, FutureRests DEF IInv, FutureOK
<1>5. CASE owned
  <2>1. UNCHANGED <<local, remote>> /\ link' = link
    BY <1>5 DEF Cancel, remote
  <2>2. Holding /\ Holding' /\ ~Loose'
    BY <1>1, <1>5 DEF Holding, Loose
  <2>3. StreamsOK' /\ ReadsOK' /\ LinkOK'
    BY <2>1, <2>2, StreamsStay, LinkStillOK DEF IInv
  <2> QED BY <1>3, <1>4, <2>3 DEF IInv
<1>6. CASE ~owned
  <2>1. DropsStreams /\ (LinkStays \/ LinkDown \/ (link' = TRUE /\ left' = TRUE /\ UNCHANGED subscribed))
    BY <1>6 DEF Cancel
  <2>2. ~Holding'
    BY <1>1, <1>2, <1>6 DEF Holding, Rested
  <2>3. LinkOK'
    <3>1. CASE LinkStays \/ LinkDown
      BY <3>1, LinkSettled DEF IInv
    <3>2. CASE link' = TRUE /\ left' = TRUE /\ UNCHANGED subscribed
      BY <3>2 DEF IInv, LinkOK
    <3> QED BY <2>1, <3>1, <3>2
  <2>4. StreamsOK' /\ ReadsOK'
    BY <2>1, <2>2, StreamsDropped
  <2> QED BY <1>3, <1>4, <2>3, <2>4 DEF IInv
<1> QED BY <1>5, <1>6

-----------------------------------------------------------------------------
(* The companion and the provider.                                         *)

\* Operations and scans do not notice.
LEMMA Elsewhere ==
    ASSUME IInv, UNCHANGED <<future, owned, scans>>
    PROVE  FutureOK' /\ ScansOK' /\ (Holding' <=> Holding) /\ (Loose' <=> Loose)
BY DEF IInv, FutureOK, ScansOK, ScansAreStopped, Holding, Loose, scans

\* Without the stream nothing is said to the transport.
LEMMA DeviceNotifiesKeeps ==
    ASSUME IInv, DeviceNotifies
    PROVE  IInv'
<1>1. UNCHANGED <<future, owned, remote, ours, events, streams, got, scans>>
  BY DEF DeviceNotifies
<1>2. "notes" \in streams
  BY DEF DeviceNotifies, IInv, ReadsOK
<1>3. PICK packet \in Packets : said' = Append(said, packet) /\ notes' = Append(notes, packet)
  BY <1>2 DEF DeviceNotifies
<1>4. /\ InStep(got, notes, said) /\ notes \in Seq(Items) /\ got \in Seq(Packets) /\ said \in Seq(Packets)
      /\ ours \in BOOLEAN
  BY <1>2 DEF IInv, StreamsOK, ReadsOK
<1>5. InStep(got, Append(notes, packet), Append(said, packet))
  BY <1>4, PacketInStep
<1>6. Append(notes, packet) \in Seq(Items) /\ Append(said, packet) \in Seq(Packets)
  <2>1. packet \in Items
    BY DEF Items
  <2> QED BY <1>4, <2>1, AppendIs
<1>7. FutureOK' /\ ScansOK' /\ (Holding' <=> Holding) /\ (Loose' <=> Loose) /\ link' = link
  BY <1>1, Elsewhere DEF remote
<1>8. StreamsOK' /\ LinkOK'
  <2>1. LinkOK'
    BY <1>1, <1>7, LinkStillOK DEF IInv
  <2>2. notes' \in Seq(Items)
    BY <1>3, <1>6
  <2>3. StreamsOK'
    BY <1>1, <1>2, <1>7, <2>2, NotesChange
  <2> QED BY <2>1, <2>3
<1>9. ReadsOK'
  BY <1>1, <1>2, <1>3, <1>4, <1>5, <1>6 DEF ReadsOK
<1> QED BY <1>7, <1>8, <1>9 DEF IInv

\* Something comes over the stream that is no packet.
LEMMA NoiseKeepsReads ==
    ASSUME IInv, "notes" \in streams, NEW note \in {Foreign, TooLarge, End}, notes' = Append(notes, note),
           UNCHANGED <<ours, streams, said, got>>
    PROVE  ReadsOK' /\ notes' \in Seq(Items)
<1>1. /\ InStep(got, notes, said) /\ notes \in Seq(Items) /\ got \in Seq(Packets) /\ said \in Seq(Packets)
      /\ ours \in BOOLEAN
  BY DEF IInv, StreamsOK, ReadsOK
<1>2. note \in Items /\ note \notin Packets
  BY PacketsAssumption DEF Items
<1>3. InStep(got, Append(notes, note), said) /\ Append(notes, note) \in Seq(Items)
  BY <1>1, <1>2, NoiseInStep, AppendIs
<1> QED BY <1>1, <1>3 DEF ReadsOK

\* DeviceNoise and StreamEnds
LEMMA NoiseKeeps ==
    ASSUME IInv, DeviceNoise \/ StreamEnds
    PROVE  IInv'
<1>1. /\ UNCHANGED <<future, owned, remote, ours, events, streams, said, got, scans>>
      /\ "notes" \in streams
  BY DEF DeviceNoise, StreamEnds
<1>2. PICK note \in {Foreign, TooLarge, End} : notes' = Append(notes, note)
  BY DEF DeviceNoise, StreamEnds
<1>3. ReadsOK' /\ notes' \in Seq(Items)
  BY <1>1, <1>2, NoiseKeepsReads
<1>4. FutureOK' /\ ScansOK' /\ (Holding' <=> Holding) /\ (Loose' <=> Loose) /\ link' = link
  BY <1>1, Elsewhere DEF remote
<1>5. LinkOK'
  BY <1>1, <1>4, LinkStillOK DEF IInv
<1>6. StreamsOK'
  BY <1>1, <1>3, <1>4, NotesChange
<1> QED BY <1>3, <1>4, <1>5, <1>6 DEF IInv

\* The link is lost.
LEMMA DeviceLostKeeps ==
    ASSUME IInv, DeviceLost
    PROVE  IInv'
<1>1. LinkDown /\ link' = FALSE /\ UNCHANGED <<future, owned, ours, streams, said, got, scans>>
  BY DEF DeviceLost, LinkDown
<1>2. FutureOK' /\ ScansOK' /\ (Holding' <=> Holding)
  BY <1>1, Elsewhere
<1>3. LinkOK'
  BY <1>1, LinkSettled DEF IInv
<1>4. events' \in Seq(Signals) /\ ("notes" \notin streams => events' = <<>>)
  <2>1. events \in Seq(Signals) /\ ("notes" \notin streams => streams = {} /\ events = <<>>)
    BY DEF IInv, StreamsOK
  <2>2. Append(events, Lost) \in Seq(Signals)
    BY <2>1 DEF Signals
  <2>3. events' = events \/ ("events" \in streams /\ events' = Append(events, Lost))
    BY DEF DeviceLost
  <2> QED BY <2>1, <2>2, <2>3
<1>5. ReadsOK' /\ notes' \in Seq(Items) /\ ("notes" \notin streams => notes' = <<>>)
  <2>1. CASE notes' = notes
    BY <1>1, <2>1 DEF IInv, ReadsOK, StreamsOK
  <2>2. CASE "notes" \in streams /\ notes' = Append(notes, End)
    BY <1>1, <2>2, NoiseKeepsReads
  <2> QED BY <2>1, <2>2 DEF DeviceLost
<1>6. StreamsOK'
  <2>1. streams' \in SUBSET {"notes", "events"} /\ ("notes" \in streams' <=> Holding')
    BY <1>1, <1>2 DEF IInv, StreamsOK
  <2>2. "notes" \notin streams' => streams' = {}
    BY <1>1 DEF IInv, StreamsOK
  <2> QED BY <1>1, <1>4, <1>5, <2>1, <2>2 DEF StreamsOK
<1> QED BY <1>2, <1>3, <1>5, <1>6 DEF IInv

\* The adapter reports something else.
LEMMA AdapterEventKeeps ==
    ASSUME IInv, AdapterEvent
    PROVE  IInv'
<1>1. UNCHANGED <<future, owned, remote, ours, notes, streams, said, got, scans>> /\ "events" \in streams
  BY DEF AdapterEvent
<1>2. FutureOK' /\ ScansOK' /\ (Holding' <=> Holding) /\ (Loose' <=> Loose) /\ link' = link
  BY <1>1, Elsewhere DEF remote
<1>3. LinkOK'
  BY <1>1, <1>2, LinkStillOK DEF IInv
<1>4. ReadsOK'
  BY <1>1 DEF IInv, ReadsOK
<1>5. PICK sign \in {Other, End} : events' = <<sign>>
  BY DEF AdapterEvent
<1>6. sign \in Signals /\ sign # Lost
  BY DEF Signals, Lost, Other, End
<1>7. <<sign>> \in Seq(Signals) /\ Len(<<sign>>) = 1 /\ <<sign>>[1] = sign
  BY <1>6
<1>8. \A i \in 1 .. Len(events') : events'[i] = Lost => ~link'
  BY <1>5, <1>6, <1>7
<1>9. "notes" \in streams
  BY <1>1 DEF IInv, StreamsOK
<1>10. StreamsOK'
  <2>1. notes' \in Seq(Items) /\ streams' \in SUBSET {"notes", "events"} /\ ("notes" \in streams' <=> Holding')
    BY <1>1, <1>2 DEF IInv, StreamsOK
  <2>2. events' \in Seq(Signals)
    BY <1>5, <1>7
  <2> QED BY <1>1, <1>8, <1>9, <2>1, <2>2 DEF StreamsOK
<1> QED BY <1>2, <1>3, <1>4, <1>10 DEF IInv

-----------------------------------------------------------------------------
(* The theorems.                                                           *)

\* The program starts without a connection.
LEMMA InitIInv == Init => IInv
<1> SUFFICES ASSUME Init PROVE IInv
  OBVIOUS
<1>1. <<>> \in Seq(Items) /\ <<>> \in Seq(Signals) /\ <<>> \in Seq(Packets)
  OBVIOUS
<1>2. future = Idle /\ owned = FALSE /\ Idle \in Futures /\ future.at = "none"
  BY IdleIs DEF Init, Idle, Futures, Operations, Phases
<1>3. FutureOK /\ ~Holding
  BY <1>2 DEF FutureOK, Holding, Uses
<1>4. ScansOK
  BY DEF Init, ScansOK, ScansAreStopped
<1>5. StreamsOK
  BY <1>1, <1>3 DEF Init, StreamsOK
<1>6. LinkOK
  BY DEF Init, LinkOK
<1>7. ReadsOK
  BY <1>1 DEF Init, ReadsOK
<1> QED BY <1>3, <1>4, <1>5, <1>6, <1>7 DEF IInv

\* Every step keeps the invariant.
LEMMA NextIInv == IInv /\ [Next]_vars => IInv'
<1> SUFFICES ASSUME IInv, [Next]_vars PROVE IInv'
  OBVIOUS
<1>1. CASE StartScan \/ StartFails
  BY <1>1, StartKeeps
<1>2. CASE Found
  BY <1>2, FoundKeeps
<1>3. CASE StopScans \/ StopFails
  BY <1>3, StopKeeps
<1>4. CASE \E a \in Adapters : ScheduledStop(a)
  BY <1>4, ScheduledStopKeeps
<1>5. CASE DiscoverCall
  BY <1>5, DiscoverKeeps
<1>6. CASE LookEnds
  BY <1>6, LookEndsKeeps
<1>7. CASE ConnectCall \/ DisconnectCall \/ ReconnectCall
  BY <1>7, TakesOutKeeps
<1>8. CASE StillConnected
  BY <1>8, StillConnectedKeeps
<1>9. CASE NotConnectedAnyMore
  BY <1>9, NotConnectedKeeps
<1>10. CASE FindCached \/ FindFails
  BY <1>10, FindKeeps
<1>11. CASE ExistingFails \/ LinkState \/ Services
  BY <1>11, PlainAwaitsKeep
<1>12. CASE ProviderConnect
  BY <1>12, ProviderConnectKeeps
<1>13. CASE OpenStream
  BY <1>13, OpenStreamKeeps
<1>14. CASE SubscribeTakesEffect
  BY <1>14, SubscribeKeeps
<1>15. CASE Subscribed
  BY <1>15, SubscribedKeeps
<1>16. CASE EstablishFails
  BY <1>16, EstablishFailsKeeps
<1>17. CASE Undo \/ UndoFails
  BY <1>17, UndoKeeps
<1>18. CASE CloseState
  BY <1>18, CloseStateKeeps
<1>19. CASE Unsubscribe
  BY <1>19, UnsubscribeKeeps
<1>20. CASE ProviderDisconnect \/ CloseFails
  BY <1>20, CloseEndsKeeps
<1>21. CASE WriteCall \/ ReadCall
  BY <1>21, UseCallsKeep
<1>22. CASE WriteState
  BY <1>22, WriteStateKeeps
<1>23. CASE Write
  BY <1>23, WriteKeeps
<1>24. CASE WriteFails
  BY <1>24, WriteFailsKeeps
<1>25. CASE ReadNotification
  BY <1>25, ReadNotificationKeeps
<1>26. CASE ReadEvent
  BY <1>26, ReadEventKeeps
<1>27. CASE Cancel
  BY <1>27, CancelKeeps
<1>28. CASE DeviceNotifies
  BY <1>28, DeviceNotifiesKeeps
<1>29. CASE DeviceNoise \/ StreamEnds
  BY <1>29, NoiseKeeps
<1>30. CASE DeviceLost
  BY <1>30, DeviceLostKeeps
<1>31. CASE AdapterEvent
  BY <1>31, AdapterEventKeeps
<1>32. CASE UNCHANGED vars
  <2>1. UNCHANGED <<future, owned, scans>> /\ UNCHANGED local /\ UNCHANGED remote /\ link' = link
    BY <1>32 DEF vars, scans, local, remote
  <2>2. FutureOK' /\ ScansOK' /\ (Holding' <=> Holding) /\ (Loose' <=> Loose)
    BY <2>1, Elsewhere
  <2>3. StreamsOK' /\ ReadsOK' /\ LinkOK'
    BY <2>1, <2>2, StreamsStay, LinkStillOK DEF IInv
  <2> QED BY <2>2, <2>3 DEF IInv
<1> QED BY <1>1, <1>2, <1>3, <1>4, <1>5, <1>6, <1>7, <1>8, <1>9, <1>10, <1>11, <1>12, <1>13, <1>14,
           <1>15, <1>16, <1>17, <1>18, <1>19, <1>20, <1>21, <1>22, <1>23, <1>24, <1>25, <1>26, <1>27,
           <1>28, <1>29, <1>30, <1>31, <1>32 DEF Next, Fails

\* The inductive invariant holds in every state.
LEMMA AlwaysIInv == Spec => []IInv
BY InitIInv, NextIInv, PTL DEF Spec

\* What the transport rests with: no connection means no stream, no scan without a stop, and no link
\* but one that is known to be left.
LEMMA IInvRests == IInv => NothingIsLeftBehind
<1> SUFFICES ASSUME IInv PROVE NothingIsLeftBehind
  OBVIOUS
<1>1. ScansAreStopped
  BY DEF IInv, ScansOK
<1>2. NoLinkIsLeft
  <2> SUFFICES ASSUME future = Idle, ~owned, link PROVE left
    BY DEF NoLinkIsLeft
  <2>1. Loose
    BY IdleIs DEF Loose
  <2> QED BY <2>1 DEF IInv, LinkOK
<1>3. /\ future.op \in {"none", "connect", "reconnect", "disconnect", "write", "read", "discover"}
      /\ future.at \in Phases /\ future.targets \subseteq Adapters /\ future.found \in BOOLEAN
  BY DEF IInv, FutureOK, Futures, Operations
<1>4. owned \in BOOLEAN /\ link \in BOOLEAN /\ subscribed \in BOOLEAN /\ ours \in BOOLEAN /\ (subscribed => link)
  BY DEF IInv, FutureOK, LinkOK, ReadsOK
<1>5. scanning \cup scheduled \cup stuck \subseteq Adapters /\ guard \subseteq future.targets
  BY DEF IInv, ScansOK
<1>6. owned => "notes" \in streams
  BY DEF IInv, StreamsOK, Holding
<1>7. owned => future.op \in {"none", "read", "write", "discover"}
  <2> SUFFICES ASSUME owned PROVE future.op \in {"none", "read", "write", "discover"}
    OBVIOUS
  <2>1. future.at \in {"none"} \cup Uses
    BY DEF IInv, FutureOK
  <2>2. CASE future.at = "none"
    BY <2>2, IdleIs DEF IInv, FutureOK
  <2>3. CASE future.at \in Uses
    BY <2>3 DEF IInv, FutureOK
  <2> QED BY <2>1, <2>2, <2>3
<1>8. ~owned /\ future = Idle => streams = {} /\ notes = <<>> /\ guard = {}
  <2> SUFFICES ASSUME ~owned, future = Idle PROVE streams = {} /\ notes = <<>> /\ guard = {}
    OBVIOUS
  <2>1. ~Holding /\ future.at \notin Scans
    BY IdleIs DEF Holding, Scans
  <2> QED BY <2>1 DEF IInv, StreamsOK, ScansOK
<1>9. TypeOK
  BY <1>3, <1>4, <1>5, <1>6, <1>7, <1>8 DEF TypeOK
<1> QED BY <1>1, <1>2, <1>9 DEF NothingIsLeftBehind

\* What is read and what waits is what was said.
LEMMA IInvReads == IInv => ReadsWhatIsNotified
<1> SUFFICES ASSUME IInv, owned PROVE ReadsWhatIsNotified
  BY DEF ReadsWhatIsNotified
<1> DEFINE unread == SubSeq(said, Len(got) + 1, Len(said))
           d == Len(said) - Len(got)
<1>1. InStep(got, notes, said) /\ got \in Seq(Packets) /\ said \in Seq(Packets)
  <2>1. "notes" \in streams
    BY DEF IInv, StreamsOK, Holding
  <2> QED BY <2>1 DEF IInv, ReadsOK
<1>2. Len(got) <= Len(said) /\ (\A k \in 1 .. Len(got) : said[k] = got[k]) /\ Len(got) \in Nat /\ Len(said) \in Nat
  BY <1>1 DEF InStep
<1>3. unread \in Seq(Packets) /\ Len(unread) = d /\ \A k \in 1 .. d : unread[k] = said[Len(got) + k]
  BY <1>1, <1>2
<1>4. got \o unread = said
  BY <1>1, <1>2
<1>5. PICK place \in [1 .. d -> 1 .. Len(notes)] :
          /\ \A k \in 1 .. d : notes[place[k]] = said[Len(got) + k]
          /\ \A k, l \in 1 .. d : k < l => place[k] < place[l]
          /\ \A i \in 1 .. Len(notes) : notes[i] \in Packets => \E k \in 1 .. d : place[k] = i
  BY <1>1 DEF InStep
<1>6. Lists(notes, unread)
  <2> HIDE DEF unread, d
  <2>1. \A k \in 1 .. d : notes[place[k]] = unread[k]
    BY <1>3, <1>5
  <2>2. \E f \in [1 .. d -> 1 .. Len(notes)] :
          /\ \A k \in 1 .. d : notes[f[k]] = unread[k]
          /\ \A k, l \in 1 .. d : k < l => f[k] < f[l]
          /\ \A i \in 1 .. Len(notes) : notes[i] \in Packets => \E k \in 1 .. d : f[k] = i
    BY <1>5, <2>1, Zenon
  <2>3. Len(unread) = d
    BY <1>3
  <2> QED BY <2>2, <2>3 DEF Lists
<1> QED BY <1>4, <1>6 DEF ReadsWhatIsNotified

\* Whatever the provider answers or leaves open and wherever a future is dropped, a scan is stopped,
\* is to be stopped or refused to stop (ActiveScans), a link that no connection owns was left by a
\* failed or dropped disconnect, and no stream outlives its connection (ble.rs).
THEOREM BleLeavesNothingBehind == Spec => []NothingIsLeftBehind
BY AlwaysIInv, IInvRests, PTL

\* The packets read from a connection, followed by those that wait in its notification stream, are
\* the ones the companion notified since it was subscribed to, in their order (establish_connection,
\* BleTransport::read).
THEOREM BleReadsWhatIsNotified == Spec => []ReadsWhatIsNotified
BY AlwaysIInv, IInvReads, PTL

=============================================================================
