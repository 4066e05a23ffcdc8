------------------------- MODULE LiveSession_proofs -------------------------
(***************************************************************************)
(* chat and watch follow their link (runtime.rs, reconnect.rs): however    *)
(* the link is lost and found again while events pile up, are dropped or   *)
(* are the command's own, a loss is never overlooked, and the hooks        *)
(* announce and take back every session, for any capacity of the channel   *)
(* and any number of attempts, losses, lines and messages.                 *)
(*                                                                         *)
(* Their hooks, and those of every other command, run in the hook runtime  *)
(* (meshquill-hooks): however its calls interleave, fail, time out or are  *)
(* dropped, they give back their permits and subprocesses, and only an     *)
(* answer that was asked for, complete and checked decides anything: for   *)
(* any number of calls and any concurrency limit.                          *)
(***************************************************************************)
EXTENDS LiveSession, HookRuntime, Queues_proofs, FiniteSetTheorems, TLAPS

-----------------------------------------------------------------------------
(* The inductive invariant.                                                *)

EvKinds == {"message", "error", "connected", "disconnected"}
Evs == [kind : EvKinds, id : Nat]
Occurrences == [id : Nat, origin : {"live", "queue"}]

UiFields == {"mode", "at", "back", "tries", "believes", "confirm", "flow", "purpose", "target", "message",
             "sendTo", "draft", "draftTo", "record", "recordTo", "unstored", "correlated", "post", "held",
             "active", "again", "emitted", "limit", "filter", "error"}

\* Where the command works over a link it has announced, and where it is on its way to another one.
Working == {"idle", "sync", "list", "lineDone", "prepare", "begin", "send", "sent", "ack", "resume"}
Away == {"unhook", "attempt", "activate", "resume"}
Places == Working \cup Away \cup {"connect", "drain", "cleanup", "exit"}

\* How often one line may have reconnected so far.
FlowMax(u) ==
    IF u.at \in {"connect", "idle", "sync", "drain", "list", "prepare"} THEN 0
    ELSE IF u.at \in {"begin", "send", "sent", "ack"} THEN 1
    ELSE IF u.at \in Away THEN (IF u.back \in {"retain", "acked"} THEN 1 ELSE 0)
    ELSE 2

\* The command lists contacts, or will after the reconnect it is in.
Lists(u) == u.at = "list" \/ (u.at \in Away /\ u.back = "relist") \/ (u.at \in {"connect", "activate"} /\ u.back = "start")

\* The inbox has not been read to its end yet: no reconnect is counted.
Starting(u) ==
    \/ u.at \in {"connect", "sync", "drain"} \/ (u.at = "activate" /\ u.back = "start")
    \/ (u.at \in Away /\ u.back = "poll") \/ (Lists(u) /\ u.purpose = "target")

UiBase(u) ==
    /\ DOMAIN u = UiFields /\ u = [f \in UiFields |-> u[f]]
    /\ u.mode \in {"chat", "watch"} /\ u.believes \in BOOLEAN /\ u.active \in BOOLEAN
    /\ u.confirm \in Nat /\ u.flow \in 0 .. 2 /\ u.held \in Nat
    /\ u.tries \in Nat /\ u.tries < Attempts
    /\ u.draft \in 0 .. MaxMessages /\ u.message \in 0 .. MaxMessages

UiOK(u) ==
    /\ UiBase(u) /\ u.at \in Places /\ u.flow <= FlowMax(u)
    /\ u.at \in Working \cup {"drain"} => u.believes = TRUE
    /\ u.at \in {"connect", "attempt", "activate"} => u.believes = FALSE
    /\ u.at = "cleanup" /\ u.error = "none" /\ u.mode = "chat" => u.believes = TRUE
    /\ u.at \in Away /\ u.back = "start" => u.at = "activate"
    /\ u.at = "connect" => u.back = "start"
    /\ Starting(u) => u.confirm = 0
    /\ Lists(u) => u.purpose \in {"target", "contacts", "to", "message"}

StreamOK ==
    /\ link \in BOOLEAN /\ lagged \in BOOLEAN /\ published \in Nat
    /\ events \in Seq(Evs) /\ Len(events) <= Capacity
    /\ tracker \in Seq(Occurrences) /\ Len(tracker) <= TrackerCapacity
    /\ input \in [at : {"none", "reading", "offered", "waiting"}, line : Lines \cup {NoLine}, lines : Nat,
                  messages : 0 .. MaxMessages]
    /\ input.at = "offered" => input.line \in Lines

\* The hooks say what the command believes.
HooksOK == hooked = IF ui.at # "exit" /\ ui.believes THEN 1 ELSE 0

NoneConnected(q) == \A i \in 1 .. Len(q) : q[i].kind # "connected"

\* The last thing the stream says about the link is that it is lost.
Lost(q) ==
    \E i \in 1 .. Len(q) :
        q[i].kind = "disconnected" /\ \A j \in 1 .. Len(q) : j > i => q[j].kind # "connected"

LinkOK ==
    /\ ui.at \in {"connect", "exit"} => link = FALSE
    /\ ~link /\ ui.at \in Working \cup {"activate"} => Lost(events)
    /\ ~link /\ ui.at = "drain" => Lost(events) \/ (~ui.active /\ NoneConnected(events))

\* n Connected events are to come.
Confirms(q, n) ==
    \E f \in [1 .. n -> 1 .. Len(q)] :
        /\ \A i \in 1 .. n : q[f[i]].kind = "connected"
        /\ \A i, j \in 1 .. n : i < j => f[i] < f[j]

\* The reconnects whose Connected event is still to come: counted by the loop, by the line, or under way.
Pending(u) ==
    IF u.at \in {"activate", "resume"}
       /\ (u.back \in {"watch", "idle", "retain", "acked"} \/ (u.back = "relist" /\ u.purpose # "target"))
    THEN 1 ELSE 0
Expects(u) == u.confirm + u.flow + Pending(u)
ExpectsOK == ~lagged /\ Listening => Confirms(events, Expects(ui))

IInv == StreamOK /\ UiOK(ui) /\ HooksOK /\ LinkOK /\ ExpectsOK

-----------------------------------------------------------------------------
(* The event stream.                                                       *)

\* Fewer events are to come.
LEMMA ConfirmsLess ==
    ASSUME NEW q, NEW n \in Nat, NEW m \in Nat, m <= n, Confirms(q, n)
    PROVE  Confirms(q, m)
<1>1. PICK f \in [1 .. n -> 1 .. Len(q)] :
          (\A i \in 1 .. n : q[f[i]].kind = "connected") /\ \A i, j \in 1 .. n : i < j => f[i] < f[j]
  BY DEF Confirms
<1> DEFINE g == [i \in 1 .. m |-> f[i]]
<1>2. \A i \in 1 .. m : i \in 1 .. n
  OBVIOUS
<1>3. g \in [1 .. m -> 1 .. Len(q)] /\ \A i \in 1 .. m : g[i] = f[i]
  BY <1>1, <1>2
<1> HIDE DEF g
<1>4. (\A i \in 1 .. m : q[g[i]].kind = "connected") /\ \A i, j \in 1 .. m : i < j => g[i] < g[j]
  BY <1>1, <1>2, <1>3
<1> QED BY <1>3, <1>4 DEF Confirms

\* More events behind those that are there.
LEMMA ConfirmsStill ==
    ASSUME NEW q \in Seq(Evs), NEW p \in Seq(Evs), NEW n \in Nat, Confirms(q, n),
           Len(q) <= Len(p), \A i \in 1 .. Len(q) : p[i] = q[i]
    PROVE  Confirms(p, n)
<1>1. PICK f \in [1 .. n -> 1 .. Len(q)] :
          (\A i \in 1 .. n : q[f[i]].kind = "connected") /\ \A i, j \in 1 .. n : i < j => f[i] < f[j]
  BY DEF Confirms
<1>2. Len(q) \in Nat /\ Len(p) \in Nat
  OBVIOUS
<1>3. f \in [1 .. n -> 1 .. Len(p)]
  BY <1>1, <1>2
<1>4. \A i \in 1 .. n : p[f[i]].kind = "connected"
  BY <1>1
<1> QED BY <1>1, <1>3, <1>4 DEF Confirms

\* One more Connected event.
LEMMA ConfirmsMore ==
    ASSUME NEW q \in Seq(Evs), NEW p \in Seq(Evs), NEW n \in Nat, Confirms(q, n),
           Len(q) < Len(p), \A i \in 1 .. Len(q) : p[i] = q[i], p[Len(p)].kind = "connected"
    PROVE  Confirms(p, n + 1)
<1>1. PICK f \in [1 .. n -> 1 .. Len(q)] :
          (\A i \in 1 .. n : q[f[i]].kind = "connected") /\ \A i, j \in 1 .. n : i < j => f[i] < f[j]
  BY DEF Confirms
<1> DEFINE l == Len(p)
           g == [i \in 1 .. n + 1 |-> IF i = n + 1 THEN l ELSE f[i]]
<1>2. Len(q) \in Nat /\ l \in Nat /\ Len(q) < l
  OBVIOUS
<1> HIDE DEF l
<1>3. \A i \in 1 .. n + 1 : i \in 1 .. n \/ i = n + 1
  OBVIOUS
<1>4. \A i \in 1 .. n : i \in 1 .. n + 1 /\ i # n + 1
  OBVIOUS
<1>5. g[n + 1] = l /\ (\A i \in 1 .. n : g[i] = f[i]) /\ g \in [1 .. n + 1 -> 1 .. l]
  BY <1>1, <1>2, <1>3, <1>4
<1> HIDE DEF g
<1>6. \A i \in 1 .. n + 1 : p[g[i]].kind = "connected"
  BY <1>1, <1>3, <1>5 DEF l
<1>7. \A i \in 1 .. n : f[i] < l /\ f[i] \in Nat
  BY <1>1, <1>2
<1>8. ASSUME NEW i \in 1 .. n + 1, NEW j \in 1 .. n + 1, i < j PROVE g[i] < g[j]
  <2>1. i \in 1 .. n
    BY <1>8
  <2>2. CASE j = n + 1
    BY <1>5, <1>7, <2>1, <2>2
  <2>3. CASE j \in 1 .. n
    BY <1>1, <1>5, <1>8, <2>1, <2>3
  <2> QED BY <1>3, <2>2, <2>3
<1>9. g \in [1 .. n + 1 -> 1 .. Len(p)]
  BY <1>5 DEF l
<1>10. \A i, j \in 1 .. n + 1 : i < j => g[i] < g[j]
  BY <1>8
<1> QED BY <1>6, <1>9, <1>10 DEF Confirms

\* The first event is taken.
LEMMA ConfirmsOn ==
    ASSUME NEW q \in Seq(Evs), q # <<>>, NEW n \in Nat, Confirms(q, n)
    PROVE  /\ Head(q).kind # "connected" => Confirms(Tail(q), n)
           /\ n > 0 => Confirms(Tail(q), n - 1)
<1>1. PICK f \in [1 .. n -> 1 .. Len(q)] :
          (\A i \in 1 .. n : q[f[i]].kind = "connected") /\ \A i, j \in 1 .. n : i < j => f[i] < f[j]
  BY DEF Confirms
<1> DEFINE p == Tail(q)
<1>2. Len(q) \in Nat /\ Len(q) >= 1 /\ Len(p) = Len(q) - 1 /\ Head(q) = q[1] /\ \A i \in 1 .. Len(q) - 1 : p[i] = q[i + 1]
  OBVIOUS
<1> HIDE DEF p
<1>3. ASSUME Head(q).kind # "connected" PROVE Confirms(p, n)
  <2> DEFINE g == [i \in 1 .. n |-> f[i] - 1]
  <2>1. \A i \in 1 .. n : f[i] # 1 /\ f[i] \in 1 .. Len(q)
    BY <1>1, <1>2, <1>3
  <2>2. \A i \in 1 .. n : f[i] - 1 \in 1 .. Len(q) - 1 /\ (f[i] - 1) + 1 = f[i]
    BY <1>2, <2>1
  <2>3. g \in [1 .. n -> 1 .. Len(p)] /\ \A i \in 1 .. n : g[i] = f[i] - 1
    BY <1>2, <2>2
  <2> HIDE DEF g
  <2>4. \A i \in 1 .. n : p[g[i]].kind = "connected"
    BY <1>1, <1>2, <2>2, <2>3
  <2>5. \A i, j \in 1 .. n : i < j => g[i] < g[j]
    BY <1>1, <2>1, <2>3
  <2> QED BY <2>3, <2>4, <2>5 DEF Confirms
<1>4. ASSUME n > 0 PROVE Confirms(p, n - 1)
  <2> DEFINE g == [i \in 1 .. n - 1 |-> f[i + 1] - 1]
  <2>1. \A i \in 1 .. n - 1 : i + 1 \in 1 .. n /\ 1 \in 1 .. n /\ 1 < i + 1
    BY <1>4
  <2>2. \A i \in 1 .. n - 1 : f[1] < f[i + 1] /\ f[1] \in 1 .. Len(q) /\ f[i + 1] \in 1 .. Len(q)
    BY <1>1, <2>1
  <2>3. \A i \in 1 .. n - 1 : f[i + 1] - 1 \in 1 .. Len(q) - 1 /\ (f[i + 1] - 1) + 1 = f[i + 1]
    BY <1>2, <2>2
  <2>4. g \in [1 .. n - 1 -> 1 .. Len(p)] /\ \A i \in 1 .. n - 1 : g[i] = f[i + 1] - 1
    BY <1>2, <2>3
  <2> HIDE DEF g
  <2>5. \A i \in 1 .. n - 1 : p[g[i]].kind = "connected"
    <3> TAKE i \in 1 .. n - 1
    <3>1. p[g[i]] = q[f[i + 1]]
      BY <1>2, <2>3, <2>4
    <3>2. i + 1 \in 1 .. n
      BY <2>1
    <3> QED BY <1>1, <3>1, <3>2
  <2>6. ASSUME NEW i \in 1 .. n - 1, NEW j \in 1 .. n - 1, i < j PROVE g[i] < g[j]
    <3>1. i + 1 \in 1 .. n /\ j + 1 \in 1 .. n /\ i + 1 < j + 1
      BY <2>1, <2>6
    <3>2. f[i + 1] < f[j + 1] /\ f[i + 1] \in 1 .. Len(q) /\ f[j + 1] \in 1 .. Len(q)
      BY <1>1, <3>1
    <3> QED BY <1>2, <2>4, <3>2
  <2>7. \A i, j \in 1 .. n - 1 : i < j => g[i] < g[j]
    BY <2>6
  <2> QED BY <2>4, <2>5, <2>7 DEF Confirms
<1> QED BY <1>3, <1>4 DEF p

\* Nothing is to come.
LEMMA ConfirmsNothing ==
    ASSUME NEW q
    PROVE  Confirms(q, 0)
<1> DEFINE f == [i \in {} |-> 0]
<1>1. 1 .. 0 = {}
  OBVIOUS
<1>2. f \in [1 .. 0 -> 1 .. Len(q)]
  BY <1>1
<1> HIDE DEF f
<1>3. (\A i \in 1 .. 0 : q[f[i]].kind = "connected") /\ \A i, j \in 1 .. 0 : i < j => f[i] < f[j]
  BY <1>1
<1> QED BY <1>2, <1>3, Zenon DEF Confirms

\* An event is taken: what it leaves still says that the link is lost, or it was the last to say so.
LEMMA LostOn ==
    ASSUME NEW q \in Seq(Evs), q # <<>>, Lost(q)
    PROVE  /\ Head(q).kind # "disconnected" => Lost(Tail(q))
           /\ Lost(Tail(q)) \/ (NoneConnected(q) /\ NoneConnected(Tail(q)))
<1> DEFINE p == Tail(q)
<1>1. Len(q) \in Nat /\ Len(q) >= 1 /\ Len(p) = Len(q) - 1 /\ Head(q) = q[1] /\ \A i \in 1 .. Len(q) - 1 : p[i] = q[i + 1]
  OBVIOUS
<1>2. PICK i \in 1 .. Len(q) :
          q[i].kind = "disconnected" /\ \A j \in 1 .. Len(q) : j > i => q[j].kind # "connected"
  BY DEF Lost
<1> HIDE DEF p
<1>3. CASE i = 1
  <2>1. \A j \in 1 .. Len(q) : j = 1 \/ j > 1
    BY <1>1
  <2>2. NoneConnected(q)
    BY <1>2, <1>3, <2>1 DEF NoneConnected
  <2>3. \A j \in 1 .. Len(p) : j + 1 \in 1 .. Len(q) /\ p[j] = q[j + 1]
    BY <1>1
  <2>4. NoneConnected(p)
    BY <2>2, <2>3 DEF NoneConnected
  <2> QED BY <1>1, <1>2, <1>3, <2>2, <2>4 DEF p
<1>4. CASE i # 1
  <2>1. i - 1 \in 1 .. Len(p) /\ (i - 1) + 1 = i
    BY <1>1, <1>4
  <2>2. p[i - 1].kind = "disconnected"
    BY <1>1, <1>2, <2>1
  <2>3. ASSUME NEW j \in 1 .. Len(p), j > i - 1 PROVE p[j].kind # "connected"
    <3>1. j + 1 \in 1 .. Len(q) /\ j + 1 > i /\ p[j] = q[j + 1]
      BY <1>1, <2>3
    <3> QED BY <1>2, <3>1
  <2>4. Lost(p)
    BY <2>1, <2>2, <2>3 DEF Lost
  <2> QED BY <2>4 DEF p
<1> QED BY <1>3, <1>4

\* While a Connected event is to come, what is lost is said behind it.
LEMMA LostBehind ==
    ASSUME NEW q \in Seq(Evs), q # <<>>, Lost(q), NEW n \in Nat, n > 0, Confirms(q, n)
    PROVE  Lost(Tail(q))
<1>1. ~NoneConnected(q)
  <2>1. PICK f \in [1 .. n -> 1 .. Len(q)] : \A i \in 1 .. n : q[f[i]].kind = "connected"
    BY DEF Confirms
  <2>2. 1 \in 1 .. n
    OBVIOUS
  <2>3. f[1] \in 1 .. Len(q) /\ q[f[1]].kind = "connected"
    BY <2>1, <2>2
  <2> QED BY <2>3 DEF NoneConnected
<1> QED BY <1>1, LostOn

\* An event is taken from a stream without Connected.
LEMMA NoneConnectedOn ==
    ASSUME NEW q \in Seq(Evs), q # <<>>, NoneConnected(q)
    PROVE  NoneConnected(Tail(q)) /\ Head(q).kind # "connected"
<1> DEFINE p == Tail(q)
<1>1. Len(q) \in Nat /\ Len(q) >= 1 /\ Len(p) = Len(q) - 1 /\ Head(q) = q[1] /\ \A i \in 1 .. Len(q) - 1 : p[i] = q[i + 1]
  OBVIOUS
<1> HIDE DEF p
<1>2. \A j \in 1 .. Len(p) : j + 1 \in 1 .. Len(q) /\ p[j] = q[j + 1]
  BY <1>1
<1>3. 1 \in 1 .. Len(q)
  BY <1>1
<1> QED BY <1>1, <1>2, <1>3 DEF NoneConnected, p

\* broadcast::Sender::send
LEMMA PublishIs ==
    ASSUME StreamOK, NEW new \in Seq(Evs), Publish(new)
    PROVE  /\ events' \in Seq(Evs) /\ Len(events') <= Capacity /\ lagged' \in BOOLEAN
           /\ lagged => lagged'
           /\ new # <<>> => events' # <<>> /\ events'[Len(events')] = new[Len(new)]
           /\ ~lagged' => Len(events') = Len(events) + Len(new) /\ \A i \in 1 .. Len(events) : events'[i] = events[i]
           /\ new = <<>> => events' = events /\ lagged' = lagged
<1> DEFINE all == events \o new
           over == IF Len(all) > Capacity THEN Len(all) - Capacity ELSE 0
           q == SubSeq(all, over + 1, Len(all))
<1>1. events' = q /\ lagged' = (lagged \/ over > 0)
  BY DEF Publish, Push
<1>2. events \in Seq(Evs) /\ Len(events) \in Nat /\ Len(events) <= Capacity /\ lagged \in BOOLEAN /\ Len(new) \in Nat
  BY DEF StreamOK
<1>3. Capacity \in Nat /\ Capacity > 0
  BY LiveAssumption
<1>4. /\ all \in Seq(Evs) /\ Len(all) = Len(events) + Len(new)
      /\ \A i \in 1 .. Len(events) : all[i] = events[i]
      /\ \A i \in Len(events) + 1 .. Len(events) + Len(new) : all[i] = new[i - Len(events)]
  BY <1>2
<1> HIDE DEF all
<1>5. over \in Nat /\ over <= Len(all) /\ Len(all) - over <= Capacity /\ (Len(all) <= Capacity => over = 0)
      /\ (Len(all) > Capacity => Len(all) - over = Capacity)
  BY <1>2, <1>3, <1>4
<1> HIDE DEF over
<1>6. Len(all) \in Nat
  BY <1>4
<1>7. q \in Seq(Evs) /\ Len(q) = Len(all) - over /\ \A i \in 1 .. Len(all) - over : q[i] = all[over + i]
  BY <1>4, <1>5, <1>6
<1> HIDE DEF q
<1>8. new # <<>> => q # <<>> /\ q[Len(q)] = new[Len(new)]
  <2> HAVE new # <<>>
  <2>1. Len(new) > 0
    BY <1>2
  <2>2. Len(q) \in 1 .. Len(all) - over /\ over + Len(q) = Len(events) + Len(new)
    <3>1. Len(all) = Len(events) + Len(new) /\ Len(q) = Len(all) - over
      BY <1>4, <1>7
    <3>2. Len(all) - over > 0
      <4>1. Len(all) > 0
        BY <1>2, <2>1, <3>1
      <4>2. CASE Len(all) <= Capacity
        BY <1>5, <1>6, <4>1, <4>2
      <4>3. CASE Len(all) > Capacity
        BY <1>3, <1>5, <1>6, <4>3
      <4> QED BY <1>3, <1>6, <4>2, <4>3
    <3>3. over \in Nat
      BY <1>5
    <3> QED BY <1>2, <1>6, <3>1, <3>2, <3>3
  <2>3. /\ Len(events) + Len(new) \in Len(events) + 1 .. Len(events) + Len(new)
        /\ (Len(events) + Len(new)) - Len(events) = Len(new)
    BY <1>2, <2>1
  <2>4. q[Len(q)] = new[Len(new)]
    BY <1>4, <1>7, <2>2, <2>3
  <2>5. q # <<>>
    BY <2>2
  <2> QED BY <2>4, <2>5
<1>9. over = 0 => Len(q) = Len(events) + Len(new) /\ \A i \in 1 .. Len(events) : q[i] = events[i]
  <2> HAVE over = 0
  <2>1. \A i \in 1 .. Len(events) : i \in 1 .. Len(all) - over /\ over + i = i
    BY <1>2, <1>4
  <2> QED BY <1>2, <1>4, <1>7, <2>1
<1>10. new = <<>> => q = events /\ over = 0
  <2> HAVE new = <<>>
  <2>1. Len(new) = 0
    OBVIOUS
  <2>2. over = 0
    BY <1>2, <1>4, <1>5, <2>1
  <2>3. Len(q) = Len(events) /\ \A i \in 1 .. Len(events) : q[i] = events[i]
    BY <1>2, <1>9, <2>1, <2>2
  <2> QED BY <1>2, <1>7, <2>2, <2>3
<1>11. Len(q) <= Capacity
  BY <1>5, <1>7
<1>12. lagged' \in BOOLEAN /\ (lagged => lagged') /\ (~lagged' => over = 0) /\ (over = 0 => lagged' = lagged)
  <2>1. CASE over = 0 /\ lagged = FALSE
    <3>1. ~(over > 0)
      BY <2>1
    <3>2. lagged' = FALSE
      BY <1>1, <2>1, <3>1, Zenon
    <3> QED BY <2>1, <3>2
  <2>2. CASE over = 0 /\ lagged = TRUE
    <3>1. lagged' = TRUE
      BY <1>1, <2>2
    <3> QED BY <2>2, <3>1
  <2>3. CASE over # 0
    <3>1. over > 0
      BY <1>5, <2>3
    <3>2. lagged' = TRUE
      BY <1>1, <3>1
    <3> QED BY <2>3, <3>2
  <2> QED BY <1>2, <2>1, <2>2, <2>3
<1> QED BY <1>1, <1>7, <1>8, <1>9, <1>10, <1>11, <1>12

-----------------------------------------------------------------------------
(* Steps of the command's state.                                           *)

\* v is u up to the fields in S.
Same(u, v, S) ==
    DOMAIN v = UiFields /\ v = [f \in UiFields |-> v[f]] /\ \A f \in UiFields \ S : v[f] = u[f]

\* The fields the session does not depend on.
Details == {"target", "sendTo", "draftTo", "record", "recordTo", "unstored", "correlated", "post", "again",
            "emitted", "limit", "filter"}

\* A step that leaves the link, the stream and the hooks alone.
UiStep(u, v) ==
    /\ UiOK(v) /\ v.believes = u.believes
    /\ (u.at \in Working /\ v.at \in Working) \/ v.at \in {"cleanup", "unhook"}
    /\ v.at # "cleanup" => Expects(v) <= Expects(u)

\* The state of the command has its fields and values.
LEMMA UiOKIs ==
    ASSUME NEW u, UiOK(u)
    PROVE  UiBase(u) /\ Expects(u) \in Nat /\ u.confirm + u.flow <= Expects(u)
<1>1. UiBase(u)
  BY DEF UiOK
<1>2. u.confirm \in Nat /\ u.flow \in Nat
  BY <1>1 DEF UiBase
<1>3. Pending(u) \in {0, 1}
  BY DEF Pending
<1> QED BY <1>1, <1>2, <1>3 DEF Expects

\* A change of details.
LEMMA SameBase ==
    ASSUME NEW u, UiBase(u), NEW v, Same(u, v, Details \cup {"at", "back", "purpose", "error"})
    PROVE  /\ UiBase(v) /\ v.mode = u.mode /\ v.believes = u.believes /\ v.active = u.active
           /\ v.confirm = u.confirm /\ v.flow = u.flow /\ v.held = u.held /\ v.tries = u.tries
           /\ v.draft = u.draft /\ v.message = u.message
<1>1. /\ v.mode = u.mode /\ v.believes = u.believes /\ v.active = u.active
      /\ v.confirm = u.confirm /\ v.flow = u.flow /\ v.held = u.held /\ v.tries = u.tries
      /\ v.draft = u.draft /\ v.message = u.message
  BY DEF Same, UiFields, Details
<1>2. DOMAIN v = UiFields /\ v = [f \in UiFields |-> v[f]]
  BY DEF Same
<1>3. UiBase(v)
  BY <1>1, <1>2 DEF UiBase
<1> QED BY <1>1, <1>3

\* The command fails.
LEMMA FailIs ==
    ASSUME NEW u, UiBase(u), NEW e, e # "none"
    PROVE  /\ UiOK(Fail(u, e)) /\ Fail(u, e).at = "cleanup" /\ Fail(u, e).believes = u.believes
<1> DEFINE v == Fail(u, e)
<1>1. Status(e) # "none"
  BY DEF Status
<1>2. v = [u EXCEPT !.at = "cleanup", !.error = Status(e)]
  BY DEF Fail
<1>3. DOMAIN u = UiFields /\ u = [f \in UiFields |-> u[f]] /\ "at" \in UiFields /\ "error" \in UiFields
  BY DEF UiBase, UiFields
<1>4. DOMAIN v = UiFields /\ v = [f \in UiFields |-> v[f]]
  BY <1>2, <1>3
<1>5. v.at = "cleanup" /\ v.error = Status(e) /\ \A f \in UiFields \ {"at", "error"} : v[f] = u[f]
  BY <1>2, <1>3
<1> HIDE DEF v
<1>6. Same(u, v, Details \cup {"at", "back", "purpose", "error"})
  BY <1>4, <1>5 DEF Same
<1>7. UiBase(v) /\ v.believes = u.believes
  BY <1>6, SameBase
<1>8. v.flow <= FlowMax(v)
  BY <1>5, <1>7 DEF UiBase, FlowMax, Away
<1>9. UiOK(v)
  BY <1>1, <1>5, <1>7, <1>8 DEF UiOK, Starting, Lists, Working, Away, Places
<1> QED BY <1>5, <1>7, <1>9 DEF v

\* ... and no step is in its way.
LEMMA FailStep ==
    ASSUME NEW u, NEW w, UiBase(w), w.believes = u.believes, NEW e, e # "none"
    PROVE  UiStep(u, Fail(w, e))
BY FailIs DEF UiStep

\* What a step leads to may fail instead.
LEMMA StepFails ==
    ASSUME NEW u, NEW w, UiStep(u, w), NEW e, e # "none"
    PROVE  UiStep(u, Fail(w, e))
BY FailStep, UiOKIs DEF UiStep

\* Printing may fail.
LEMMA PrintedStep ==
    ASSUME NEW u, NEW w, UiStep(u, w), NEW v \in Printed(w)
    PROVE  UiStep(u, v)
BY StepFails DEF Printed

\* Nothing happens.
LEMMA NoStep ==
    ASSUME NEW u, UiOK(u), u.at \in Working
    PROVE  UiStep(u, u)
BY UiOKIs DEF UiStep

\* The places without a condition of their own.
PlainPlaces == {"idle", "lineDone", "prepare", "begin", "send", "sent", "ack"}

\* The command goes on.
LEMMA PlainStep ==
    ASSUME NEW u, u.at \in Working, u.believes = TRUE, NEW w, UiBase(w), w.at \in PlainPlaces, w.believes = TRUE,
           w.flow <= FlowMax(w), w.confirm + w.flow <= Expects(u)
    PROVE  UiStep(u, w)
<1>1. w.at \in Working /\ w.at \in Places /\ w.at \notin Away /\ w.at \notin {"connect", "sync", "drain", "list", "cleanup", "attempt", "activate"}
  BY DEF PlainPlaces, Working, Places, Away
<1>2. ~Starting(w) /\ ~Lists(w)
  BY <1>1 DEF Starting, Lists
<1>3. Expects(w) = w.confirm + w.flow
  <2>1. Pending(w) = 0
    BY <1>1 DEF Pending, Away
  <2>2. w.confirm \in Nat /\ w.flow \in Nat
    BY DEF UiBase
  <2> QED BY <2>1, <2>2 DEF Expects
<1>4. UiOK(w)
  BY <1>1, <1>2 DEF UiOK
<1> QED BY <1>1, <1>3, <1>4 DEF UiStep

\* reconnect_chat_session begins.
LEMMA ReconnectStep ==
    ASSUME NEW u, NEW w, UiBase(w), w.believes = u.believes, w.confirm + w.flow <= Expects(u),
           NEW back \in {"idle", "retain", "acked", "poll", "relist"},
           back \notin {"retain", "acked"} => w.flow = 0, back \in {"retain", "acked"} => w.flow <= 1,
           back = "poll" => w.confirm = 0,
           back = "relist" => /\ w.purpose \in {"target", "contacts", "to", "message"}
                              /\ w.purpose = "target" => w.confirm = 0
    PROVE  UiStep(u, StartReconnect(w, back))
<1> DEFINE v == StartReconnect(w, back)
<1>1. v = [w EXCEPT !.at = "unhook", !.back = back, !.tries = 0]
  BY DEF StartReconnect
<1>2. DOMAIN w = UiFields /\ w = [f \in UiFields |-> w[f]] /\ {"at", "back", "tries"} \subseteq UiFields
  BY DEF UiBase, UiFields
<1>3. DOMAIN v = UiFields /\ v = [f \in UiFields |-> v[f]]
  BY <1>1, <1>2
<1>4. v.at = "unhook" /\ v.back = back /\ v.tries = 0 /\ \A f \in UiFields \ {"at", "back", "tries"} : v[f] = w[f]
  BY <1>1, <1>2
<1> HIDE DEF v
<1>5. /\ v.mode = w.mode /\ v.believes = w.believes /\ v.active = w.active
      /\ v.confirm = w.confirm /\ v.flow = w.flow /\ v.held = w.held
      /\ v.draft = w.draft /\ v.message = w.message /\ v.purpose = w.purpose
  BY <1>4 DEF UiFields
<1>6. UiBase(v)
  BY <1>3, <1>4, <1>5, LiveAssumption DEF UiBase
<1>7. v.flow <= FlowMax(v)
  BY <1>4, <1>5 DEF FlowMax, Away, UiBase
<1>8. Starting(v) => v.confirm = 0
  BY <1>4, <1>5 DEF Starting, Lists, Away
<1>9. Lists(v) => v.purpose \in {"target", "contacts", "to", "message"}
  BY <1>4, <1>5 DEF Lists, Away
<1>10. UiOK(v)
  BY <1>4, <1>6, <1>7, <1>8, <1>9 DEF UiOK, Working, Away, Places
<1>11. Expects(v) = w.confirm + w.flow
  <2>1. Pending(v) = 0
    BY <1>4 DEF Pending
  <2>2. w.confirm \in Nat /\ w.flow \in Nat
    BY DEF UiBase
  <2> QED BY <1>5, <2>1, <2>2 DEF Expects
<1> QED BY <1>4, <1>5, <1>10, <1>11 DEF UiStep, v

\* A step that leaves the link, the stream and the hooks alone keeps everything.
LEMMA QuietKeeps ==
    ASSUME IInv, Listening, UiStep(ui, ui'), UNCHANGED <<link, events, lagged, hooked>>, StreamOK'
    PROVE  IInv'
<1>1. UiOK(ui') /\ ui'.believes = ui.believes /\ ui.at # "exit" /\ UiOK(ui)
  BY DEF IInv, UiStep, Listening
<1>2. ui'.at \in Working \cup {"cleanup", "unhook"} /\ (ui'.at \in Working => ui.at \in Working)
  BY DEF UiStep, Working
<1>3. ui'.at \notin {"connect", "exit", "activate", "drain"} /\ ui.at \notin {"cleanup", "exit"}
  BY <1>2 DEF Working, Listening
<1>4. HooksOK'
  BY <1>1, <1>3 DEF IInv, HooksOK
<1>5. LinkOK'
  BY <1>2, <1>3 DEF IInv, LinkOK
<1>6. ExpectsOK'
  <2> SUFFICES ASSUME ~lagged, ui'.at # "cleanup" PROVE Confirms(events, Expects(ui'))
    BY DEF ExpectsOK, Listening
  <2>1. Confirms(events, Expects(ui))
    BY DEF IInv, ExpectsOK
  <2>2. Expects(ui') \in Nat /\ Expects(ui) \in Nat
    <3>1. \A u : UiOK(u) => Expects(u) \in Nat
      BY UiOKIs
    <3> QED BY <1>1, <3>1
  <2>3. Expects(ui') <= Expects(ui)
    BY DEF UiStep
  <2> QED BY <2>1, <2>2, <2>3, ConfirmsLess
<1> QED BY <1>1, <1>4, <1>5, <1>6 DEF IInv

\* Nothing of the stream, the tracker and the input is touched.
LEMMA StreamStays ==
    ASSUME IInv, UNCHANGED <<stream, input, tracker>>
    PROVE  StreamOK' /\ UNCHANGED <<link, events, lagged>>
BY DEF IInv, StreamOK, stream

-----------------------------------------------------------------------------
(* The steps of the command that leave the link, the stream and the hooks alone. *)

\* The command moves on.
LEMMA AtIs ==
    ASSUME NEW u, UiBase(u), NEW p, NEW v, v = [u EXCEPT !.at = p]
    PROVE  /\ UiBase(v) /\ v.at = p /\ v.mode = u.mode /\ v.believes = u.believes /\ v.active = u.active
           /\ v.confirm = u.confirm /\ v.flow = u.flow /\ v.held = u.held /\ v.tries = u.tries
           /\ v.draft = u.draft /\ v.message = u.message
           /\ v.back = u.back /\ v.purpose = u.purpose /\ v.error = u.error /\ v.sendTo = u.sendTo
           /\ v.post = u.post /\ v.target = u.target
<1> DEFINE w == [u EXCEPT !.at = p]
<1>1a. DOMAIN u = UiFields /\ u = [f \in UiFields |-> u[f]] /\ {"at"} \subseteq UiFields
  BY DEF UiBase, UiFields
<1>1b. DOMAIN w = UiFields /\ w = [f \in UiFields |-> w[f]]
  BY <1>1a DEF w
<1>1c. w.at = p /\ \A f \in UiFields \ {"at"} : w[f] = u[f]
  BY <1>1a DEF w
<1> HIDE DEF w
<1>1d. /\ w.mode = u.mode /\ w.believes = u.believes /\ w.active = u.active /\ w.confirm = u.confirm
       /\ w.flow = u.flow /\ w.held = u.held /\ w.tries = u.tries /\ w.draft = u.draft /\ w.message = u.message
       /\ w.back = u.back /\ w.purpose = u.purpose /\ w.error = u.error /\ w.sendTo = u.sendTo /\ w.post = u.post
       /\ w.target = u.target
  BY <1>1c DEF UiFields
<1>2. UiBase(w)
  BY <1>1b, <1>1d DEF UiBase
<1>3. v = w
  BY DEF w
<1> QED BY <1>1c, <1>1d, <1>2, <1>3

\* How often a line may have reconnected, place by place.
LEMMA FlowMaxIs ==
    ASSUME NEW u
    PROVE  /\ u.at \in {"connect", "idle", "sync", "drain", "list", "prepare"} => FlowMax(u) = 0
           /\ u.at \in {"begin", "send", "sent", "ack"} => FlowMax(u) = 1
           /\ u.at \in Away => FlowMax(u) = IF u.back \in {"retain", "acked"} THEN 1 ELSE 0
           /\ u.at \in {"lineDone", "cleanup", "exit"} => FlowMax(u) = 2
BY DEF FlowMax, Away

\* The line ends.
LEMMA LineDoneStep ==
    ASSUME NEW u, u.at \in Working, u.believes = TRUE, NEW w, UiBase(w), w.believes = TRUE,
           w.confirm + w.flow <= Expects(u)
    PROVE  UiStep(u, LineDone(w))
<1> DEFINE v == LineDone(w)
<1>1. v = [w EXCEPT !.at = "lineDone"]
  BY DEF LineDone
<1>2. UiBase(v) /\ v.at = "lineDone" /\ v.believes = TRUE /\ v.confirm = w.confirm /\ v.flow = w.flow
  <2> DEFINE x == [w EXCEPT !.at = "lineDone"]
  <2>1. UiBase(x) /\ x.at = "lineDone" /\ x.believes = w.believes /\ x.confirm = w.confirm /\ x.flow = w.flow
    BY AtIs
  <2> QED BY <1>1, <2>1
<1> HIDE DEF v
<1>3. v.at \in PlainPlaces /\ v.flow <= FlowMax(v)
  <2>1. v.flow \in 0 .. 2
    BY <1>2 DEF UiBase
  <2>2. FlowMax(v) = 2
    BY <1>2, FlowMaxIs
  <2> QED BY <1>2, <2>1, <2>2 DEF PlainPlaces
<1> QED BY <1>2, <1>3, PlainStep DEF v

\* The inbox is asked.
LEMMA SyncStep ==
    ASSUME NEW u, u.at \in Working, u.believes = TRUE, Expects(u) \in Nat, NEW v, UiBase(v), v.at = "sync",
           v.believes = TRUE, v.confirm = 0, v.flow = 0
    PROVE  UiStep(u, v)
<1>1. v.at \in Working /\ v.at \in Places /\ v.at \notin Away /\ v.flow <= FlowMax(v)
  <2>1. FlowMax(v) = 0
    BY FlowMaxIs
  <2>2. v.flow <= FlowMax(v)
    BY <2>1
  <2> QED BY <2>2 DEF Working, Places, Away
<1>2. ~Lists(v)
  BY <1>1 DEF Lists
<1>3. UiOK(v)
  BY <1>1, <1>2 DEF UiOK
<1>4. Expects(v) = 0
  <2>1. Pending(v) = 0
    BY DEF Pending
  <2> QED BY <2>1 DEF Expects
<1>5. Expects(v) <= Expects(u)
  BY <1>4
<1> QED BY <1>1, <1>3, <1>5 DEF UiStep

\* What follows a listing of the contacts.
LEMMA AfterListStep ==
    ASSUME NEW u, UiOK(u), u.at \in Working, NEW w, UiBase(w), w.believes = TRUE, w.flow <= 1,
           w.confirm + w.flow <= Expects(u), w.purpose \in {"target", "contacts", "to", "message"},
           w.purpose = "target" => w.confirm = 0 /\ w.flow = 0,
           NEW v \in AfterList(w)
    PROVE  UiStep(u, v)
<1>1. u.believes = TRUE /\ Expects(u) \in Nat
  BY UiOKIs DEF UiOK
<1>2. CASE w.purpose = "target"
  <2> DEFINE x == [w EXCEPT !.at = "sync"]
  <2>1. v \in Printed(x) \/ v = Fail(w, "notFound")
    BY <1>2 DEF AfterList
  <2>2. UiBase(x) /\ x.at = "sync" /\ x.believes = TRUE /\ x.confirm = 0 /\ x.flow = 0
    BY <1>2, AtIs
  <2> HIDE DEF x
  <2>3. UiStep(u, x)
    BY <1>1, <2>2, SyncStep
  <2>4. UiStep(u, Fail(w, "notFound"))
    BY <1>1, FailStep
  <2> QED BY <2>1, <2>3, <2>4, PrintedStep
<1>3. CASE w.purpose = "contacts"
  <2>1. v \in Printed(LineDone(w))
    BY <1>3 DEF AfterList
  <2> QED BY <1>1, <2>1, LineDoneStep, PrintedStep
<1>4. CASE w.purpose = "to"
  <2> DEFINE x == [w EXCEPT !.target = "direct"]
  <2>1. v \in Printed(LineDone(w)) \/ v \in Printed(LineDone(x))
    BY <1>4 DEF AfterList
  <2>2a. DOMAIN w = UiFields /\ w = [f \in UiFields |-> w[f]] /\ {"target"} \subseteq UiFields
    BY DEF UiBase, UiFields
  <2>2b. DOMAIN x = UiFields /\ x = [f \in UiFields |-> x[f]]
    BY <2>2a DEF x
  <2>2c. x.target = "direct" /\ \A f \in UiFields \ {"target"} : x[f] = w[f]
    BY <2>2a DEF x
  <2> HIDE DEF x
  <2>2d. /\ x.mode = w.mode /\ x.believes = w.believes /\ x.active = w.active /\ x.confirm = w.confirm
         /\ x.flow = w.flow /\ x.held = w.held /\ x.tries = w.tries /\ x.draft = w.draft /\ x.message = w.message
         /\ x.purpose = w.purpose
    BY <2>2c DEF UiFields
  <2>3. UiBase(x) /\ x.believes = TRUE /\ x.confirm = w.confirm /\ x.flow = w.flow
    BY <2>2b, <2>2d DEF UiBase
  <2>4. UiStep(u, LineDone(x)) /\ UiStep(u, LineDone(w))
    BY <1>1, <2>3, LineDoneStep
  <2> QED BY <2>1, <2>4, PrintedStep
<1>5. CASE w.purpose = "message"
  <2> DEFINE x == [w EXCEPT !.at = "begin"]
  <2>1. v = x \/ v = Fail(w, "notFound")
    BY <1>5 DEF AfterList
  <2>2. UiBase(x) /\ x.at = "begin" /\ x.believes = TRUE /\ x.confirm = w.confirm /\ x.flow = w.flow
    BY AtIs
  <2> HIDE DEF x
  <2>3. x.at \in PlainPlaces /\ x.flow <= FlowMax(x)
    BY <2>2 DEF PlainPlaces, FlowMax
  <2>4. UiStep(u, x)
    BY <1>1, <2>2, <2>3, PlainStep
  <2>5. UiStep(u, Fail(w, "notFound"))
    BY <1>1, FailStep
  <2> QED BY <2>1, <2>4, <2>5
<1> QED BY <1>2, <1>3, <1>4, <1>5

\* A reconnect is counted for the line.
LEMMA ReconnectedIs ==
    ASSUME NEW u, UiBase(u), NEW p, u.flow <= 1
    PROVE  LET v == Reconnected(u, p)
           IN /\ UiBase(v) /\ v.at = p /\ v.believes = u.believes /\ v.confirm = u.confirm /\ v.flow = u.flow + 1
              /\ v.purpose = u.purpose /\ v.post = u.post
<1> DEFINE v == Reconnected(u, p)
           w == [u EXCEPT !.at = p, !.back = "none", !.flow = u.flow + 1]
<1>1a. DOMAIN u = UiFields /\ u = [f \in UiFields |-> u[f]] /\ {"at", "back", "flow"} \subseteq UiFields
  BY DEF UiBase, UiFields
<1>1b. DOMAIN w = UiFields /\ w = [f \in UiFields |-> w[f]]
  BY <1>1a DEF w
<1>1c. w.at = p /\ w.back = "none" /\ w.flow = u.flow + 1 /\ \A f \in UiFields \ {"at", "back", "flow"} : w[f] = u[f]
  BY <1>1a DEF w
<1> HIDE DEF w
<1>1d. /\ w.mode = u.mode /\ w.believes = u.believes /\ w.active = u.active /\ w.confirm = u.confirm
       /\ w.held = u.held /\ w.tries = u.tries /\ w.draft = u.draft /\ w.message = u.message
       /\ w.purpose = u.purpose /\ w.post = u.post
  BY <1>1c DEF UiFields
<1>2. u.flow + 1 \in 0 .. 2
  BY DEF UiBase
<1>3. UiBase(w)
  BY <1>1b, <1>1c, <1>1d, <1>2 DEF UiBase
<1>4. v = w
  BY DEF Reconnected, w
<1> QED BY <1>1c, <1>1d, <1>3, <1>4

\* list_chat_contacts_with_reconnect
LEMMA ListContactsStep ==
    ASSUME IInv, ListContacts
    PROVE  UiStep(ui, ui')
<1> DEFINE u == IF ~(ui.at = "resume") THEN ui
                ELSE IF ui.purpose = "target" THEN [ui EXCEPT !.back = "none"] ELSE Reconnected(ui, "list")
<1>1. UiOK(ui) /\ UiBase(ui) /\ Expects(ui) \in Nat /\ ui.confirm \in Nat /\ ui.flow \in 0 .. 2
  BY UiOKIs DEF IInv, UiBase
<1>2. ui.at = "list" \/ (ui.at = "resume" /\ ui.back = "relist")
  BY DEF ListContacts
<1>3. ui.at \in Working /\ ui.believes = TRUE /\ ui.flow = 0 /\ ui.purpose \in {"target", "contacts", "to", "message"}
      /\ (ui.purpose = "target" => ui.confirm = 0)
  <2>1. Lists(ui) /\ ui.at \in Working
    BY <1>2 DEF Lists, Away, Working
  <2>2. FlowMax(ui) = 0
    BY <1>2, FlowMaxIs DEF Away
  <2>3. ui.flow = 0
    BY <1>1, <2>2 DEF UiOK
  <2>4. ui.purpose = "target" => Starting(ui)
    BY <2>1 DEF Starting
  <2> QED BY <1>1, <2>1, <2>3, <2>4 DEF UiOK
<1>4. UiBase(u) /\ u.believes = TRUE /\ u.flow <= 1 /\ u.confirm + u.flow <= Expects(ui) /\ u.purpose = ui.purpose
      /\ (u.purpose = "target" => u.confirm = 0 /\ u.flow = 0)
  <2>1. CASE ui.at # "resume"
    <3>1. u = ui
      BY <2>1
    <3>2. ui.confirm + ui.flow <= Expects(ui)
      BY <1>1, UiOKIs
    <3> HIDE DEF u
    <3> QED BY <1>1, <1>3, <3>1, <3>2
  <2>2. CASE ui.at = "resume" /\ ui.purpose = "target"
    <3> DEFINE x == [ui EXCEPT !.back = "none"]
    <3>1. u = x
      BY <2>2
    <3> HIDE DEF u
    <3>2a. DOMAIN ui = UiFields /\ ui = [f \in UiFields |-> ui[f]] /\ {"back"} \subseteq UiFields
      BY <1>1 DEF UiBase, UiFields
    <3>2b. DOMAIN x = UiFields /\ x = [f \in UiFields |-> x[f]]
      BY <3>2a DEF x
    <3>2c. x.back = "none" /\ \A f \in UiFields \ {"back"} : x[f] = ui[f]
      BY <3>2a DEF x
    <3> HIDE DEF x
    <3>2d. /\ x.mode = ui.mode /\ x.believes = ui.believes /\ x.active = ui.active /\ x.confirm = ui.confirm
           /\ x.flow = ui.flow /\ x.held = ui.held /\ x.tries = ui.tries /\ x.draft = ui.draft
           /\ x.message = ui.message /\ x.purpose = ui.purpose
      BY <3>2c DEF UiFields
    <3>3. UiBase(x)
      BY <1>1, <3>2b, <3>2d DEF UiBase
    <3>4. ui.confirm + ui.flow <= Expects(ui)
      BY <1>1, UiOKIs
    <3> QED BY <1>1, <1>3, <2>2, <3>1, <3>2d, <3>3, <3>4
  <2>3. CASE ui.at = "resume" /\ ui.purpose # "target"
    <3> DEFINE x == Reconnected(ui, "list")
    <3>1. u = x
      BY <2>3
    <3>2. UiBase(x) /\ x.believes = ui.believes /\ x.confirm = ui.confirm /\ x.flow = ui.flow + 1 /\ x.purpose = ui.purpose
      BY <1>1, <1>3, ReconnectedIs
    <3> HIDE DEF x, u
    <3>3. Pending(ui) = 1
      BY <1>2, <2>3 DEF Pending
    <3>4. Expects(ui) = ui.confirm + ui.flow + 1
      BY <3>3 DEF Expects
    <3> QED BY <1>1, <1>3, <2>3, <3>1, <3>2, <3>4
  <2> QED BY <2>1, <2>2, <2>3
<1>5. \/ ui' \in AfterList(u)
      \/ ui' \in {Fail(u, "timeout"), Fail(u, "connection"), Fail(u, "interrupted")}
      \/ ui.at = "list" /\ u = ui /\ ui' = StartReconnect(u, "relist")
  BY <1>2 DEF ListContacts
<1> HIDE DEF u
<1>6. CASE ui' \in AfterList(u)
  BY <1>1, <1>3, <1>4, <1>6, AfterListStep
<1>7. CASE ui' \in {Fail(u, "timeout"), Fail(u, "connection"), Fail(u, "interrupted")}
  BY <1>3, <1>4, <1>7, FailStep
<1>8. CASE ui.at = "list" /\ u = ui /\ ui' = StartReconnect(u, "relist")
  <2>1. ui.confirm + ui.flow <= Expects(ui)
    BY <1>1, UiOKIs
  <2>2. UiStep(ui, StartReconnect(ui, "relist"))
    BY <1>1, <1>3, <2>1, ReconnectStep
  <2> QED BY <1>8, <2>2
<1> QED BY <1>5, <1>6, <1>7, <1>8

\* The inbox is asked again after a reconnect.
LEMMA PollResumeStep ==
    ASSUME IInv, PollResume
    PROVE  UiStep(ui, ui')
<1>1. UiOK(ui) /\ UiBase(ui) /\ Expects(ui) \in Nat /\ ui.at = "resume" /\ ui.back = "poll"
  BY UiOKIs DEF IInv, PollResume
<1>2. ui.at \in Working /\ ui.believes = TRUE /\ ui.flow = 0 /\ ui.confirm = 0
  <2>1. ui.at \in Working /\ Starting(ui)
    BY <1>1 DEF Starting, Away, Working
  <2>2. FlowMax(ui) = 0 /\ ui.flow \in 0 .. 2
    BY <1>1, FlowMaxIs DEF Away, UiBase
  <2>3. ui.flow = 0
    BY <1>1, <2>2 DEF UiOK
  <2> QED BY <1>1, <2>1, <2>3 DEF UiOK
<1> DEFINE x == [ui EXCEPT !.at = "sync", !.back = "none", !.again = TRUE]
<1>3. ui' \in Printed(x)
  BY DEF PollResume
<1>4a. DOMAIN ui = UiFields /\ ui = [f \in UiFields |-> ui[f]] /\ {"at", "back", "again"} \subseteq UiFields
  BY <1>1 DEF UiBase, UiFields
<1>4b. DOMAIN x = UiFields /\ x = [f \in UiFields |-> x[f]]
  BY <1>4a DEF x
<1>4c. x.at = "sync" /\ x.back = "none" /\ x.again = TRUE /\ \A f \in UiFields \ {"at", "back", "again"} : x[f] = ui[f]
  BY <1>4a DEF x
<1> HIDE DEF x
<1>4d. /\ x.mode = ui.mode /\ x.believes = ui.believes /\ x.active = ui.active /\ x.confirm = ui.confirm
       /\ x.flow = ui.flow /\ x.held = ui.held /\ x.tries = ui.tries /\ x.draft = ui.draft
       /\ x.message = ui.message
  BY <1>4c DEF UiFields
<1>5. UiBase(x)
  BY <1>1, <1>4b, <1>4d DEF UiBase
<1>6. UiStep(ui, x)
  BY <1>1, <1>2, <1>4c, <1>4d, <1>5, SyncStep
<1> QED BY <1>3, <1>6, PrintedStep

\* The loop waits again after a reconnect.
LEMMA IdleResumeStep ==
    ASSUME IInv, IdleResume
    PROVE  UiStep(ui, ui')
<1>1. UiOK(ui) /\ UiBase(ui) /\ Expects(ui) \in Nat /\ ui.at = "resume" /\ ui.back = "idle" /\ ui.confirm \in Nat
  BY UiOKIs DEF IInv, IdleResume, UiBase
<1>2. ui.at \in Working /\ ui.believes = TRUE /\ ui.flow = 0 /\ Expects(ui) = ui.confirm + 1
  <2>1. ui.at \in Working
    BY <1>1 DEF Working
  <2>2. FlowMax(ui) = 0 /\ ui.flow \in 0 .. 2 /\ Pending(ui) = 1
    BY <1>1, FlowMaxIs DEF Away, UiBase, Pending
  <2>3. ui.flow = 0
    BY <1>1, <2>2 DEF UiOK
  <2>4. Expects(ui) = ui.confirm + 1
    BY <1>1, <2>2, <2>3 DEF Expects
  <2> QED BY <1>1, <2>1, <2>3, <2>4 DEF UiOK
<1> DEFINE x == [ui EXCEPT !.at = "idle", !.back = "none", !.confirm = ui.confirm + 1]
<1>3. ui' \in Printed(x)
  BY DEF IdleResume
<1>4a. DOMAIN ui = UiFields /\ ui = [f \in UiFields |-> ui[f]] /\ {"at", "back", "confirm"} \subseteq UiFields
  BY <1>1 DEF UiBase, UiFields
<1>4b. DOMAIN x = UiFields /\ x = [f \in UiFields |-> x[f]]
  BY <1>4a DEF x
<1>4c. x.at = "idle" /\ x.back = "none" /\ x.confirm = ui.confirm + 1 /\ \A f \in UiFields \ {"at", "back", "confirm"} : x[f] = ui[f]
  BY <1>4a DEF x
<1> HIDE DEF x
<1>4d. /\ x.mode = ui.mode /\ x.believes = ui.believes /\ x.active = ui.active /\ x.flow = ui.flow
       /\ x.held = ui.held /\ x.tries = ui.tries /\ x.draft = ui.draft /\ x.message = ui.message
  BY <1>4c DEF UiFields
<1>5. UiBase(x)
  BY <1>1, <1>4b, <1>4c, <1>4d DEF UiBase
<1>6. FlowMax(x) = 0 /\ x.at \in PlainPlaces
  BY <1>4c, FlowMaxIs DEF PlainPlaces
<1>7. x.flow <= FlowMax(x) /\ x.confirm + x.flow <= Expects(ui) /\ x.believes = TRUE
  BY <1>1, <1>2, <1>4c, <1>4d, <1>6
<1>8. UiStep(ui, x)
  BY <1>2, <1>5, <1>6, <1>7, PlainStep
<1> QED BY <1>3, <1>8, PrintedStep

\* watch waits again after a reconnect.
LEMMA WatchResumeStep ==
    ASSUME IInv, WatchResume
    PROVE  UiStep(ui, ui')
<1>1. UiOK(ui) /\ UiBase(ui) /\ Expects(ui) \in Nat /\ ui.at = "resume" /\ ui.back = "watch" /\ ui.confirm \in Nat
  BY UiOKIs DEF IInv, WatchResume, UiBase
<1>2. ui.at \in Working /\ ui.believes = TRUE /\ ui.flow = 0 /\ Expects(ui) = ui.confirm + 1
  <2>1. ui.at \in Working
    BY <1>1 DEF Working
  <2>2. FlowMax(ui) = 0 /\ ui.flow \in 0 .. 2 /\ Pending(ui) = 1
    BY <1>1, FlowMaxIs DEF Away, UiBase, Pending
  <2>3. ui.flow = 0
    BY <1>1, <2>2 DEF UiOK
  <2>4. Expects(ui) = ui.confirm + 1
    BY <1>1, <2>2, <2>3 DEF Expects
  <2> QED BY <1>1, <2>1, <2>3, <2>4 DEF UiOK
<1> DEFINE x == [ui EXCEPT !.at = "idle", !.back = "none", !.confirm = 1]
<1>3. ui' = x
  BY DEF WatchResume
<1>4a. DOMAIN ui = UiFields /\ ui = [f \in UiFields |-> ui[f]] /\ {"at", "back", "confirm"} \subseteq UiFields
  BY <1>1 DEF UiBase, UiFields
<1>4b. DOMAIN x = UiFields /\ x = [f \in UiFields |-> x[f]]
  BY <1>4a DEF x
<1>4c. x.at = "idle" /\ x.back = "none" /\ x.confirm = 1 /\ \A f \in UiFields \ {"at", "back", "confirm"} : x[f] = ui[f]
  BY <1>4a DEF x
<1> HIDE DEF x
<1>4d. /\ x.mode = ui.mode /\ x.believes = ui.believes /\ x.active = ui.active /\ x.flow = ui.flow
       /\ x.held = ui.held /\ x.tries = ui.tries /\ x.draft = ui.draft /\ x.message = ui.message
  BY <1>4c DEF UiFields
<1>5. UiBase(x)
  BY <1>1, <1>4b, <1>4c, <1>4d DEF UiBase
<1>6. FlowMax(x) = 0 /\ x.at \in PlainPlaces
  BY <1>4c, FlowMaxIs DEF PlainPlaces
<1>7. x.flow <= FlowMax(x) /\ x.confirm + x.flow <= Expects(ui) /\ x.believes = TRUE
  BY <1>1, <1>2, <1>4c, <1>4d, <1>6
<1>8. UiStep(ui, x)
  BY <1>2, <1>5, <1>6, <1>7, PlainStep
<1> QED BY <1>3, <1>8

\* What is known where the command works.
LEMMA WorkingIs ==
    ASSUME NEW u, UiOK(u), u.at \in Working
    PROVE  /\ UiBase(u) /\ u.believes = TRUE /\ Expects(u) \in Nat /\ u.confirm \in Nat /\ u.flow \in 0 .. 2
           /\ u.confirm + u.flow <= Expects(u)
           /\ u.at \in {"idle", "sync", "list", "prepare"} => u.flow = 0
           /\ u.at \in {"begin", "send", "sent", "ack"} => u.flow <= 1
           /\ u.at = "resume" /\ u.back \in {"retain", "acked"} => u.flow <= 1 /\ Expects(u) = u.confirm + u.flow + 1
<1>1. UiBase(u) /\ u.believes = TRUE /\ Expects(u) \in Nat /\ u.confirm + u.flow <= Expects(u)
  BY UiOKIs DEF UiOK
<1>2. u.confirm \in Nat /\ u.flow \in 0 .. 2 /\ u.flow <= FlowMax(u)
  BY <1>1 DEF UiBase, UiOK
<1>3. u.at \in {"idle", "sync", "list", "prepare"} => u.flow = 0
  <2> HAVE u.at \in {"idle", "sync", "list", "prepare"}
  <2>1. FlowMax(u) = 0
    BY FlowMaxIs
  <2> QED BY <1>2, <2>1
<1>4. u.at \in {"begin", "send", "sent", "ack"} => u.flow <= 1
  <2> HAVE u.at \in {"begin", "send", "sent", "ack"}
  <2>1. FlowMax(u) = 1
    BY FlowMaxIs
  <2> QED BY <1>2, <2>1
<1>5. u.at = "resume" /\ u.back \in {"retain", "acked"} => u.flow <= 1 /\ Expects(u) = u.confirm + u.flow + 1
  <2> HAVE u.at = "resume" /\ u.back \in {"retain", "acked"}
  <2>1. FlowMax(u) = 1
    BY FlowMaxIs DEF Away
  <2>2. Pending(u) = 1
    BY DEF Pending
  <2> QED BY <1>2, <2>1, <2>2 DEF Expects
<1> QED BY <1>1, <1>2, <1>3, <1>4, <1>5

\* The command goes on to another place and expects what it expected.
LEMMA OnStep ==
    ASSUME NEW u, UiOK(u), u.at \in Working, NEW w, UiBase(w), w.believes = TRUE, w.confirm = u.confirm,
           w.flow = u.flow, w.at \in PlainPlaces,
           w.at \in {"idle", "prepare"} => w.flow = 0, w.at \in {"begin", "send", "sent", "ack"} => w.flow <= 1
    PROVE  UiStep(u, w)
<1>1. u.believes = TRUE /\ w.flow \in 0 .. 2 /\ w.confirm + w.flow <= Expects(u)
  BY WorkingIs
<1>2. w.flow <= FlowMax(w)
  <2>1. CASE w.at \in {"idle", "prepare"}
    <3>1. FlowMax(w) = 0
      BY <2>1, FlowMaxIs
    <3> QED BY <2>1, <3>1
  <2>2. CASE w.at \in {"begin", "send", "sent", "ack"}
    <3>1. FlowMax(w) = 1
      BY <2>2, FlowMaxIs
    <3> QED BY <2>2, <3>1
  <2>3. CASE w.at = "lineDone"
    <3>1. FlowMax(w) = 2
      BY <2>3, FlowMaxIs
    <3> QED BY <1>1, <3>1
  <2> QED BY <2>1, <2>2, <2>3 DEF PlainPlaces
<1> QED BY <1>1, <1>2, PlainStep

\* The contacts are asked for.
LEMMA ListStep ==
    ASSUME NEW u, UiOK(u), u.at \in Working, NEW w, UiBase(w), w.believes = TRUE, w.confirm = u.confirm, w.flow = 0,
           w.at = "list", w.purpose \in {"contacts", "to", "message"}
    PROVE  UiStep(u, w)
<1>1. u.believes = TRUE /\ u.flow \in 0 .. 2 /\ u.confirm \in Nat /\ u.confirm + u.flow <= Expects(u) /\ Expects(u) \in Nat
  BY WorkingIs
<1>2. w.at \in Working /\ w.at \in Places /\ w.at \notin Away /\ w.flow <= FlowMax(w)
  <2>1. FlowMax(w) = 0
    BY FlowMaxIs
  <2>2. w.flow <= FlowMax(w)
    BY <2>1
  <2> QED BY <2>2 DEF Working, Places, Away
<1>3. ~Starting(w)
  BY <1>2 DEF Starting
<1>4. UiOK(w)
  BY <1>2, <1>3 DEF UiOK
<1>5. Expects(w) <= Expects(u)
  <2>1. Pending(w) = 0
    BY DEF Pending
  <2> QED BY <1>1, <2>1 DEF Expects
<1> QED BY <1>1, <1>2, <1>4, <1>5 DEF UiStep

\* The command ends.
LEMMA EndStep ==
    ASSUME NEW u, UiOK(u), u.at \in Working
    PROVE  UiStep(u, [u EXCEPT !.at = "cleanup"])
<1> DEFINE w == [u EXCEPT !.at = "cleanup"]
<1>1. UiBase(u) /\ u.believes = TRUE /\ u.flow \in 0 .. 2
  BY WorkingIs
<1>2. UiBase(w) /\ w.at = "cleanup" /\ w.believes = TRUE /\ w.flow = u.flow
  BY <1>1, AtIs
<1> HIDE DEF w
<1>3. w.at \in Places /\ w.at \notin Away /\ w.at \notin Working /\ w.flow <= FlowMax(w)
  <2>1. FlowMax(w) = 2
    BY <1>2, FlowMaxIs
  <2>2. w.flow <= FlowMax(w)
    BY <1>1, <1>2, <2>1
  <2> QED BY <1>2, <2>2 DEF Working, Places, Away
<1>4. ~Starting(w) /\ ~Lists(w)
  BY <1>2, <1>3 DEF Starting, Lists
<1>5. UiOK(w)
  BY <1>2, <1>3, <1>4 DEF UiOK
<1> QED BY <1>1, <1>2, <1>5 DEF UiStep, w

\* The interrupt ends the wait.
LEMMA IdleInterruptedStep ==
    ASSUME IInv, IdleInterrupted
    PROVE  UiStep(ui, ui')
<1>1. UiBase(ui) /\ ui' = Fail(ui, "interrupted")
  BY UiOKIs DEF IInv, IdleInterrupted
<1>2. UiStep(ui, Fail(ui, "interrupted"))
  BY <1>1, FailStep
<1> QED BY <1>1, <1>2

\* The line is settled and the loop waits for the next one.
LEMMA EndLineStep ==
    ASSUME IInv, EndLine
    PROVE  UiStep(ui, ui')
<1>1. UiOK(ui) /\ ui.at = "lineDone" /\ ui.at \in Working
  BY DEF IInv, EndLine, Working
<1>2. UiBase(ui) /\ ui.believes = TRUE /\ ui.confirm \in Nat /\ ui.flow \in 0 .. 2 /\ ui.confirm + ui.flow <= Expects(ui)
  BY <1>1, WorkingIs
<1> DEFINE x == [ui EXCEPT !.at = "idle", !.confirm = ui.confirm + ui.flow, !.flow = 0, !.purpose = "none",
                           !.message = NoMessage, !.post = "none", !.correlated = FALSE]
<1>3. ui' = x \/ ui' = Fail(x, "interrupted")
  BY DEF EndLine
<1>4a. DOMAIN ui = UiFields /\ ui = [f \in UiFields |-> ui[f]] /\ {"at", "confirm", "flow", "purpose", "message", "post", "correlated"} \subseteq UiFields
  BY <1>2 DEF UiBase, UiFields
<1>4b. DOMAIN x = UiFields /\ x = [f \in UiFields |-> x[f]]
  BY <1>4a DEF x
<1>4c. x.at = "idle" /\ x.confirm = ui.confirm + ui.flow /\ x.flow = 0 /\ x.message = NoMessage /\ \A f \in UiFields \ {"at", "confirm", "flow", "purpose", "message", "post", "correlated"} : x[f] = ui[f]
  BY <1>4a DEF x
<1> HIDE DEF x
<1>4d. /\ x.mode = ui.mode /\ x.believes = ui.believes /\ x.active = ui.active /\ x.held = ui.held
       /\ x.tries = ui.tries /\ x.draft = ui.draft
  BY <1>4c DEF UiFields
<1>5. ui.confirm + ui.flow \in Nat /\ NoMessage \in 0 .. MaxMessages
  BY <1>2, LiveAssumption DEF NoMessage
<1>6. UiBase(x)
  BY <1>2, <1>4b, <1>4c, <1>4d, <1>5 DEF UiBase
<1>7. x.flow <= FlowMax(x) /\ x.at \in PlainPlaces /\ x.confirm + x.flow <= Expects(ui)
  <2>1. FlowMax(x) = 0
    BY <1>4c, FlowMaxIs
  <2>2. x.confirm + x.flow = ui.confirm + ui.flow
    BY <1>2, <1>4c
  <2> QED BY <1>2, <1>4c, <2>1, <2>2 DEF PlainPlaces
<1>8. UiStep(ui, x)
  BY <1>1, <1>2, <1>4d, <1>6, <1>7, PlainStep
<1> QED BY <1>3, <1>8, StepFails

\* v is u up to what the session does not depend on.
Alike(u, v) ==
    /\ UiBase(v) /\ v.at = u.at /\ v.back = u.back /\ v.believes = u.believes /\ v.confirm = u.confirm /\ v.flow = u.flow
    /\ v.message = u.message

\* A detail is set ...
LEMMA DetailIs ==
    ASSUME NEW u, UiBase(u), NEW f \in Details, NEW x
    PROVE  Alike(u, [u EXCEPT ![f] = x])
<1> DEFINE v == [u EXCEPT ![f] = x]
<1>1. DOMAIN u = UiFields /\ u = [g \in UiFields |-> u[g]] /\ Details \subseteq UiFields
  BY DEF UiBase, UiFields, Details
<1>2. DOMAIN v = UiFields /\ v = [g \in UiFields |-> v[g]]
  BY <1>1
<1>3. \A g \in UiFields \ {f} : v[g] = u[g]
  BY <1>1
<1> HIDE DEF v
<1>4. \A g \in UiFields \ Details : v[g] = u[g]
  BY <1>3
<1>5. /\ v.mode = u.mode /\ v.believes = u.believes /\ v.active = u.active /\ v.confirm = u.confirm
      /\ v.flow = u.flow /\ v.held = u.held /\ v.tries = u.tries /\ v.draft = u.draft /\ v.message = u.message
      /\ v.at = u.at /\ v.back = u.back
  BY <1>4 DEF UiFields, Details
<1>6. UiBase(v)
  BY <1>2, <1>5 DEF UiBase
<1> QED BY <1>5, <1>6 DEF Alike, v

\* ... or two.
LEMMA TwoDetails ==
    ASSUME NEW u, UiBase(u), NEW f \in Details, NEW x, NEW g \in Details, NEW y
    PROVE  Alike(u, [u EXCEPT ![f] = x, ![g] = y])
<1> DEFINE v == [u EXCEPT ![f] = x]
<1>1. Alike(u, v)
  BY DetailIs
<1>2. [u EXCEPT ![f] = x, ![g] = y] = [v EXCEPT ![g] = y]
  OBVIOUS
<1>3. UiBase(v)
  BY <1>1 DEF Alike
<1> HIDE DEF v
<1>4. Alike(v, [v EXCEPT ![g] = y])
  BY <1>3, DetailIs
<1> QED BY <1>1, <1>2, <1>4 DEF Alike

\* The status of the record is written.
LEMMA MarkIs ==
    ASSUME NEW u, UiBase(u), NEW status, NEW v \in Mark(u, status)
    PROVE  Alike(u, v)
<1>1. Alike(u, [u EXCEPT !["record"] = status])
  BY DetailIs DEF Details
<1>2. Alike(u, [u EXCEPT !["unstored"] = TRUE])
  BY DetailIs DEF Details
<1>3. v = [u EXCEPT !["record"] = status] \/ v = [u EXCEPT !["unstored"] = TRUE]
  BY DEF Mark
<1> QED BY <1>1, <1>2, <1>3

\* workflow.sent
LEMMA SentIs ==
    ASSUME NEW u, UiBase(u),
           NEW v \in {[u EXCEPT !.correlated = TRUE], [u EXCEPT !.correlated = TRUE, !.post = "hook"],
                      [u EXCEPT !.unstored = TRUE, !.post = "configuration"]}
    PROVE  Alike(u, v)
<1>1. Alike(u, [u EXCEPT !["correlated"] = TRUE])
  BY DetailIs DEF Details
<1>2. Alike(u, [u EXCEPT !["correlated"] = TRUE, !["post"] = "hook"])
  BY TwoDetails DEF Details
<1>3. Alike(u, [u EXCEPT !["unstored"] = TRUE, !["post"] = "configuration"])
  BY TwoDetails DEF Details
<1> QED BY <1>1, <1>2, <1>3

\* workflow.acknowledged
LEMMA AcknowledgedIs ==
    ASSUME NEW u, UiBase(u), NEW v \in Acknowledged(u)
    PROVE  Alike(u, v)
<1> DEFINE p == IF u.post = "none" THEN "protocol" ELSE u.post
<1>1. Alike(u, [u EXCEPT !["record"] = "acknowledged"])
  BY DetailIs DEF Details
<1>2. Alike(u, [u EXCEPT !["record"] = "acknowledged", !["post"] = "hook"])
  BY TwoDetails DEF Details
<1>3. Alike(u, [u EXCEPT !["unstored"] = TRUE, !["post"] = "configuration"])
  BY TwoDetails DEF Details
<1>4. Alike(u, [u EXCEPT !["post"] = p])
  BY DetailIs DEF Details
<1>5. v \in {[u EXCEPT !["record"] = "acknowledged"], [u EXCEPT !["record"] = "acknowledged", !["post"] = "hook"],
             [u EXCEPT !["unstored"] = TRUE, !["post"] = "configuration"], [u EXCEPT !["post"] = p]}
  BY DEF Acknowledged
<1> QED BY <1>1, <1>2, <1>3, <1>4, <1>5

\* The submission ends, with the error that waited.
LEMMA SubmitDoneStep ==
    ASSUME NEW u, u.at \in Working, u.believes = TRUE, NEW w, UiBase(w), w.believes = TRUE,
           w.confirm + w.flow <= Expects(u)
    PROVE  UiStep(u, SubmitDone(w))
<1>1. CASE w.post = "none"
  <2>1. SubmitDone(w) = LineDone(w)
    BY <1>1 DEF SubmitDone
  <2> QED BY <2>1, LineDoneStep
<1>2. CASE w.post # "none"
  <2>1. SubmitDone(w) = Fail(w, w.post)
    BY <1>2 DEF SubmitDone
  <2> QED BY <1>2, <2>1, FailStep
<1> QED BY <1>1, <1>2

\* prepare_send
LEMMA PrepareSendStep ==
    ASSUME IInv, PrepareSend
    PROVE  UiStep(ui, ui')
<1>1. UiOK(ui) /\ ui.at = "prepare" /\ ui.at \in Working
  BY DEF IInv, PrepareSend, Working
<1>2. UiBase(ui) /\ ui.believes = TRUE /\ ui.flow = 0
  BY <1>1, WorkingIs
<1>3. CASE ui' = Fail(ui, "hook")
  BY <1>2, <1>3, FailStep
<1>4. ASSUME NEW to \in Targets,
             ui' = [ui EXCEPT !.at = IF to = "channel" THEN "begin" ELSE "list", !.purpose = "message", !.sendTo = to]
      PROVE  UiStep(ui, ui')
  <2> DEFINE p == IF to = "channel" THEN "begin" ELSE "list"
             x == [ui EXCEPT !.at = p, !.purpose = "message", !.sendTo = to]
  <2>1. ui' = x /\ p \in {"begin", "list"}
    BY <1>4
  <2> HIDE DEF p
  <2>2a. DOMAIN ui = UiFields /\ ui = [f \in UiFields |-> ui[f]] /\ {"at", "purpose", "sendTo"} \subseteq UiFields
    BY <1>2 DEF UiBase, UiFields
  <2>2b. DOMAIN x = UiFields /\ x = [f \in UiFields |-> x[f]]
    BY <2>2a DEF x
  <2>2c. x.at = p /\ x.purpose = "message" /\ x.sendTo = to /\ \A f \in UiFields \ {"at", "purpose", "sendTo"} : x[f] = ui[f]
    BY <2>2a DEF x
  <2> HIDE DEF x
  <2>2d. /\ x.mode = ui.mode /\ x.believes = ui.believes /\ x.active = ui.active /\ x.confirm = ui.confirm
         /\ x.flow = ui.flow /\ x.held = ui.held /\ x.tries = ui.tries /\ x.draft = ui.draft
         /\ x.message = ui.message
    BY <2>2c DEF UiFields
  <2>3. UiBase(x)
    BY <1>2, <2>2b, <2>2d DEF UiBase
  <2>4. CASE p = "begin"
    <3>1. x.at \in PlainPlaces /\ x.flow <= 1 /\ x.at = "begin"
      BY <1>2, <2>2c, <2>2d, <2>4 DEF PlainPlaces
    <3> QED BY <1>1, <1>2, <2>1, <2>2d, <2>3, <3>1, OnStep
  <2>5. CASE p = "list"
    BY <1>1, <1>2, <2>1, <2>2c, <2>2d, <2>3, <2>5, ListStep
  <2> QED BY <2>1, <2>4, <2>5
<1> QED BY <1>3, <1>4 DEF PrepareSend

\* workflow.begin_outgoing
LEMMA BeginOutgoingStep ==
    ASSUME IInv, BeginOutgoing
    PROVE  UiStep(ui, ui')
<1>1. UiOK(ui) /\ ui.at = "begin" /\ ui.at \in Working
  BY DEF IInv, BeginOutgoing, Working
<1>2. UiBase(ui) /\ ui.believes = TRUE /\ ui.flow <= 1
  BY <1>1, WorkingIs
<1> DEFINE x == [ui EXCEPT !.at = "send", !.record = "pending", !.recordTo = ui.sendTo, !.unstored = FALSE,
                           !.correlated = FALSE]
<1>3. ui' = x \/ ui' = Fail(ui, "configuration")
  BY DEF BeginOutgoing
<1>4a. DOMAIN ui = UiFields /\ ui = [f \in UiFields |-> ui[f]] /\ {"at", "record", "recordTo", "unstored", "correlated"} \subseteq UiFields
  BY <1>2 DEF UiBase, UiFields
<1>4b. DOMAIN x = UiFields /\ x = [f \in UiFields |-> x[f]]
  BY <1>4a DEF x
<1>4c. x.at = "send" /\ \A f \in UiFields \ {"at", "record", "recordTo", "unstored", "correlated"} : x[f] = ui[f]
  BY <1>4a DEF x
<1> HIDE DEF x
<1>4d. /\ x.mode = ui.mode /\ x.believes = ui.believes /\ x.active = ui.active /\ x.confirm = ui.confirm
       /\ x.flow = ui.flow /\ x.held = ui.held /\ x.tries = ui.tries /\ x.draft = ui.draft
       /\ x.message = ui.message
  BY <1>4c DEF UiFields
<1>5. UiBase(x)
  BY <1>2, <1>4b, <1>4d DEF UiBase
<1>6. x.at \in PlainPlaces /\ x.flow <= 1
  BY <1>2, <1>4c, <1>4d DEF PlainPlaces
<1>7. UiStep(ui, x)
  BY <1>1, <1>2, <1>4c, <1>4d, <1>5, <1>6, OnStep
<1>8. UiStep(ui, Fail(ui, "configuration"))
  BY <1>2, FailStep
<1> QED BY <1>3, <1>7, <1>8

\* The device accepts the message.
LEMMA SendAcceptedStep ==
    ASSUME IInv, SendAccepted
    PROVE  UiStep(ui, ui')
<1>1. UiOK(ui) /\ ui.at = "send" /\ ui.at \in Working
  BY DEF IInv, SendAccepted, Working
<1>2. UiBase(ui) /\ ui.believes = TRUE /\ ui.flow <= 1
  BY <1>1, WorkingIs
<1> DEFINE x == [ui EXCEPT !.at = "sent"]
<1>3. ui' = x
  BY DEF SendAccepted
<1>4. UiBase(x) /\ x.at = "sent" /\ x.believes = ui.believes /\ x.confirm = ui.confirm /\ x.flow = ui.flow
  BY <1>2, AtIs
<1> HIDE DEF x
<1>5. x.at \in PlainPlaces /\ x.flow <= 1
  BY <1>2, <1>4 DEF PlainPlaces
<1>6. UiStep(ui, x)
  BY <1>1, <1>2, <1>4, <1>5, OnStep
<1> QED BY <1>3, <1>6

\* The device refuses the message or does not answer.
LEMMA SendFailsStep ==
    ASSUME IInv, SendFails
    PROVE  UiStep(ui, ui')
<1>1. UiBase(ui)
  BY UiOKIs DEF IInv
<1>2. PICK u \in Mark(ui, "failed") : ui' = Fail(u, "timeout")
  BY DEF SendFails
<1>3. Alike(ui, u)
  BY <1>1, MarkIs
<1>4. UiBase(u) /\ u.believes = ui.believes
  BY <1>3 DEF Alike
<1> QED BY <1>2, <1>4, FailStep

\* The message is retained after a reconnect.
LEMMA RetainResumeStep ==
    ASSUME IInv, RetainResume
    PROVE  UiStep(ui, ui')
<1>1. UiOK(ui) /\ ui.at = "resume" /\ ui.back = "retain" /\ ui.at \in Working
  BY DEF IInv, RetainResume, Working
<1>2. /\ UiBase(ui) /\ ui.believes = TRUE /\ ui.flow <= 1 /\ ui.flow \in 0 .. 2 /\ ui.confirm \in Nat
      /\ Expects(ui) = ui.confirm + ui.flow + 1 /\ ui.message \in 0 .. MaxMessages
  BY <1>1, WorkingIs DEF UiBase
<1> DEFINE x == [ui EXCEPT !.draft = ui.message, !.draftTo = ui.sendTo]
           y == Reconnected(x, "lineDone")
<1>3. ui' \in Printed(y)
  BY DEF RetainResume, RetainDraft
<1> HIDE DEF y
<1>4a. DOMAIN ui = UiFields /\ ui = [f \in UiFields |-> ui[f]] /\ {"draft", "draftTo"} \subseteq UiFields
  BY <1>2 DEF UiBase, UiFields
<1>4b. DOMAIN x = UiFields /\ x = [f \in UiFields |-> x[f]]
  BY <1>4a DEF x
<1>4c. x.draft = ui.message /\ \A f \in UiFields \ {"draft", "draftTo"} : x[f] = ui[f]
  BY <1>4a DEF x
<1> HIDE DEF x
<1>4d. /\ x.mode = ui.mode /\ x.believes = ui.believes /\ x.active = ui.active /\ x.confirm = ui.confirm
       /\ x.flow = ui.flow /\ x.held = ui.held /\ x.tries = ui.tries /\ x.message = ui.message
  BY <1>4c DEF UiFields
<1>5. UiBase(x)
  BY <1>2, <1>4b, <1>4c, <1>4d DEF UiBase
<1>6. UiBase(y) /\ y.at = "lineDone" /\ y.believes = TRUE /\ y.confirm = ui.confirm /\ y.flow = ui.flow + 1
  BY <1>2, <1>4d, <1>5, ReconnectedIs DEF y
<1>7. y.flow <= FlowMax(y) /\ y.at \in PlainPlaces /\ y.confirm + y.flow <= Expects(ui)
  <2>1. FlowMax(y) = 2
    BY <1>6, FlowMaxIs
  <2> QED BY <1>2, <1>6, <2>1 DEF PlainPlaces
<1>8. UiStep(ui, y)
  BY <1>1, <1>2, <1>6, <1>7, PlainStep
<1> QED BY <1>3, <1>8, PrintedStep

\* after_send and the wait for the ACK.
LEMMA SentStep ==
    ASSUME IInv, Sent
    PROVE  UiStep(ui, ui')
<1>1. UiOK(ui) /\ ui.at = "sent" /\ ui.at \in Working
  BY DEF IInv, Sent, Working
<1>2. UiBase(ui) /\ ui.believes = TRUE /\ ui.flow <= 1 /\ ui.confirm + ui.flow <= Expects(ui)
  BY <1>1, WorkingIs
<1>3. PICK u \in {[ui EXCEPT !.correlated = TRUE], [ui EXCEPT !.correlated = TRUE, !.post = "hook"],
                  [ui EXCEPT !.unstored = TRUE, !.post = "configuration"]} :
          ui' \in {Fail(u, "interrupted"), Fail(u, "output"), [u EXCEPT !.at = "ack"], SubmitDone(u)}
  BY DEF Sent
<1>4. Alike(ui, u)
  BY <1>2, SentIs
<1>5. UiBase(u) /\ u.believes = TRUE /\ u.confirm = ui.confirm /\ u.flow = ui.flow
  BY <1>2, <1>4 DEF Alike
<1>6. UiStep(ui, Fail(u, "interrupted")) /\ UiStep(ui, Fail(u, "output"))
  BY <1>2, <1>5, FailStep
<1>7. UiStep(ui, SubmitDone(u))
  BY <1>1, <1>2, <1>5, SubmitDoneStep
<1> DEFINE x == [u EXCEPT !.at = "ack"]
<1>8. UiBase(x) /\ x.at = "ack" /\ x.believes = u.believes /\ x.confirm = u.confirm /\ x.flow = u.flow
  BY <1>5, AtIs
<1> HIDE DEF x
<1>9. x.at \in PlainPlaces /\ x.flow <= 1
  BY <1>2, <1>5, <1>8 DEF PlainPlaces
<1>10. UiStep(ui, x)
  BY <1>1, <1>2, <1>5, <1>8, <1>9, OnStep
<1> QED BY <1>3, <1>6, <1>7, <1>10 DEF x

\* wait_for_chat_ack
LEMMA AckSettlesStep ==
    ASSUME IInv, AckSettles
    PROVE  UiStep(ui, ui')
<1>1. UiOK(ui) /\ ui.at = "ack" /\ ui.at \in Working
  BY DEF IInv, AckSettles, Working
<1>2. UiBase(ui) /\ ui.believes = TRUE /\ ui.flow <= 1 /\ ui.confirm + ui.flow <= Expects(ui)
  BY <1>1, WorkingIs
<1>3. \/ \E u \in Acknowledged(ui) \cup Mark(ui, "timedOut") : ui' \in Printed(SubmitDone(u))
      \/ \E u \in Mark(ui, "failed") : ui' = Fail(u, "protocol")
      \/ ui' = Fail(ui, "interrupted")
  <2> DEFINE settled == UNION {Printed(SubmitDone(u)) : u \in Acknowledged(ui) \cup Mark(ui, "timedOut")}
             failed == {Fail(u, "protocol") : u \in Mark(ui, "failed")}
             stopped == IF interrupt THEN {Fail(ui, "interrupted")} ELSE {}
  <2>1. ui' \in settled \cup failed \cup stopped
    BY DEF AckSettles
  <2> HIDE DEF settled, failed, stopped
  <2>2. ui' \in settled \/ ui' \in failed \/ ui' \in stopped
    BY <2>1
  <2>3. ui' \in settled => \E u \in Acknowledged(ui) \cup Mark(ui, "timedOut") : ui' \in Printed(SubmitDone(u))
    BY Zenon DEF settled
  <2>4. ui' \in failed => \E u \in Mark(ui, "failed") : ui' = Fail(u, "protocol")
    BY Zenon DEF failed
  <2>5. ui' \in stopped => ui' = Fail(ui, "interrupted")
    BY DEF stopped
  <2> QED BY <2>2, <2>3, <2>4, <2>5
<1>4. ASSUME NEW u \in Acknowledged(ui) \cup Mark(ui, "timedOut"), ui' \in Printed(SubmitDone(u))
      PROVE  UiStep(ui, ui')
  <2>1. Alike(ui, u)
    BY <1>2, MarkIs, AcknowledgedIs
  <2>2. UiBase(u) /\ u.believes = TRUE /\ u.confirm = ui.confirm /\ u.flow = ui.flow
    BY <1>2, <2>1 DEF Alike
  <2>3. UiStep(ui, SubmitDone(u))
    BY <1>1, <1>2, <2>2, SubmitDoneStep
  <2> QED BY <1>4, <2>3, PrintedStep
<1>5. ASSUME NEW u \in Mark(ui, "failed"), ui' = Fail(u, "protocol")
      PROVE  UiStep(ui, ui')
  <2>1. Alike(ui, u)
    BY <1>2, MarkIs
  <2>2. UiBase(u) /\ u.believes = ui.believes
    BY <2>1 DEF Alike
  <2> QED BY <1>5, <2>2, FailStep
<1>6. CASE ui' = Fail(ui, "interrupted")
  BY <1>2, <1>6, FailStep
<1> QED BY <1>3, <1>4, <1>5, <1>6

\* The link is lost while the ACK is awaited.
LEMMA AckLosesLinkStep ==
    ASSUME IInv, AckLosesLink
    PROVE  UiStep(ui, ui')
<1>1. UiOK(ui) /\ ui.at = "ack" /\ ui.at \in Working
  BY DEF IInv, AckLosesLink, Working
<1>2. UiBase(ui) /\ ui.believes = TRUE /\ ui.flow <= 1 /\ ui.confirm + ui.flow <= Expects(ui)
  BY <1>1, WorkingIs
<1>3. PICK u \in Mark(ui, "failed") : ui' = StartReconnect(u, "acked")
  BY DEF AckLosesLink
<1>4. Alike(ui, u)
  BY <1>2, MarkIs
<1>5. UiBase(u) /\ u.believes = ui.believes /\ u.confirm = ui.confirm /\ u.flow = ui.flow
  BY <1>4 DEF Alike
<1>6. UiStep(ui, StartReconnect(u, "acked"))
  BY <1>2, <1>5, ReconnectStep
<1> QED BY <1>3, <1>6

\* The submission ends after a reconnect.
LEMMA AckResumeStep ==
    ASSUME IInv, AckResume
    PROVE  UiStep(ui, ui')
<1>1. UiOK(ui) /\ ui.at = "resume" /\ ui.back = "acked" /\ ui.at \in Working
  BY DEF IInv, AckResume, Working
<1>2. /\ UiBase(ui) /\ ui.believes = TRUE /\ ui.flow <= 1 /\ ui.flow \in 0 .. 2 /\ ui.confirm \in Nat
      /\ Expects(ui) = ui.confirm + ui.flow + 1
  BY <1>1, WorkingIs
<1> DEFINE y == Reconnected(ui, "lineDone")
<1>3. ui' \in Printed(SubmitDone(y))
  BY DEF AckResume
<1>4. UiBase(y) /\ y.believes = TRUE /\ y.confirm = ui.confirm /\ y.flow = ui.flow + 1
  BY <1>2, ReconnectedIs
<1> HIDE DEF y
<1>5. y.confirm + y.flow <= Expects(ui)
  BY <1>2, <1>4
<1>6. UiStep(ui, SubmitDone(y))
  BY <1>1, <1>2, <1>4, <1>5, SubmitDoneStep
<1> QED BY <1>3, <1>6, PrintedStep

\* handle_chat_line
LEMMA TakeLineStep ==
    ASSUME IInv, TakeLine
    PROVE  UiStep(ui, ui')
<1>1. UiOK(ui) /\ ui.at = "idle" /\ ui.at \in Working
  BY DEF IInv, TakeLine, InIdle, Working
<1>2. /\ UiBase(ui) /\ ui.believes = TRUE /\ ui.flow = 0 /\ ui.confirm + ui.flow <= Expects(ui)
      /\ ui.draft \in 0 .. MaxMessages /\ input.messages \in 0 .. MaxMessages /\ NoMessage \in 0 .. MaxMessages
  <2>1. UiBase(ui) /\ ui.believes = TRUE /\ ui.flow = 0 /\ ui.confirm + ui.flow <= Expects(ui)
    BY <1>1, WorkingIs
  <2>2. ui.draft \in 0 .. MaxMessages
    BY <2>1 DEF UiBase
  <2>3. input.messages \in 0 .. MaxMessages
    BY DEF IInv, StreamOK
  <2>4. NoMessage \in 0 .. MaxMessages
    BY LiveAssumption DEF NoMessage
  <2> QED BY <2>1, <2>2, <2>3, <2>4
<1> DEFINE d == [ui EXCEPT !.draft = NoMessage, !.draftTo = "none"]
           c == [ui EXCEPT !.target = "channel"]
           p == IF ParseChatLine(input.line) = "/to" THEN "to" ELSE "contacts"
           l == [ui EXCEPT !.at = "list", !.purpose = p]
           n == [ui EXCEPT !.at = "prepare", !.message = input.messages]
           b == [d EXCEPT !.at = "begin", !.message = ui.draft, !.sendTo = ui.draftTo]
<1>3. \/ ui' = [ui EXCEPT !.at = "cleanup"] \/ ui' \in Printed(LineDone(ui)) \/ ui' = l \/ ui' \in Printed(LineDone(c))
      \/ ui' = b \/ ui' \in Printed(LineDone(d)) \/ ui' \in Printed(n)
  <2> DEFINE line == ParseChatLine(input.line)
             dropped == d
             retained == ui.draft # NoMessage
             newOne == NewMessage(ui)
             sub == Submit(dropped, ui.draft, ui.draftTo)
  <2>1. newOne = LineDone(ui) \/ newOne = n
    BY DEF NewMessage
  <2>2. sub = b
    BY DEF Submit
  <2>3. ui' \in CASE line \in {"/quit", "eof"} -> {[ui EXCEPT !.at = "cleanup"]}
                  [] line = "/help" -> Printed(LineDone(ui))
                  [] line \in {"/contacts", "/to"} -> {l}
                  [] line = "/channel" -> Printed(LineDone(c))
                  [] line = "/send" -> IF retained THEN {sub} ELSE Printed(LineDone(ui))
                  [] line = "/discard" -> Printed(LineDone(dropped))
                  [] line = "message" -> Printed(newOne)
    BY DEF TakeLine
  <2>4. line \in Lines
    <3>1. input.line \in Lines
      BY DEF IInv, StreamOK, TakeLine
    <3> QED BY <3>1 DEF ParseChatLine, Lines
  <2> HIDE DEF line, newOne, sub, retained, d, c, l, n, b
  <2>5. CASE line \in {"/quit", "eof"}
    BY <2>3, <2>5
  <2>6. CASE line \in {"/help", "/contacts", "/to", "/channel"}
    BY <2>3, <2>6
  <2>7. CASE line = "/send"
    BY <2>2, <2>3, <2>7
  <2>8. CASE line = "/discard"
    BY <2>3, <2>8
  <2>9. CASE line = "message"
    <3>1. ui' \in Printed(newOne)
      BY <2>3, <2>9
    <3> QED BY <2>1, <3>1
  <2> QED BY <2>4, <2>5, <2>6, <2>7, <2>8, <2>9 DEF Lines
<1>4. UiStep(ui, [ui EXCEPT !.at = "cleanup"])
  BY <1>1, EndStep
<1>5. UiStep(ui, LineDone(ui))
  BY <1>1, <1>2, LineDoneStep
<1>6. Alike(ui, c)
  <2>1. Alike(ui, [ui EXCEPT !["target"] = "channel"])
    BY <1>2, DetailIs DEF Details
  <2> QED BY <2>1
<1>7. UiStep(ui, LineDone(c))
  <2> HIDE DEF c
  <2>1. UiBase(c) /\ c.believes = TRUE /\ c.confirm = ui.confirm /\ c.flow = ui.flow
    BY <1>2, <1>6 DEF Alike
  <2> QED BY <1>1, <1>2, <2>1, LineDoneStep
<1>8. UiStep(ui, l)
  <2> HIDE DEF p
  <2>1a. DOMAIN ui = UiFields /\ ui = [f \in UiFields |-> ui[f]] /\ {"at", "purpose"} \subseteq UiFields
    BY <1>2 DEF UiBase, UiFields
  <2>1b. DOMAIN l = UiFields /\ l = [f \in UiFields |-> l[f]]
    BY <2>1a DEF l
  <2>1c. l.at = "list" /\ l.purpose = p /\ \A f \in UiFields \ {"at", "purpose"} : l[f] = ui[f]
    BY <2>1a DEF l
  <2> HIDE DEF l
  <2>1d. /\ l.mode = ui.mode /\ l.believes = ui.believes /\ l.active = ui.active /\ l.confirm = ui.confirm
         /\ l.flow = ui.flow /\ l.held = ui.held /\ l.tries = ui.tries /\ l.draft = ui.draft
         /\ l.message = ui.message
    BY <2>1c DEF UiFields
  <2>2. UiBase(l) /\ p \in {"contacts", "to", "message"}
    BY <1>2, <2>1b, <2>1d DEF UiBase, p
  <2> QED BY <1>1, <1>2, <2>1c, <2>1d, <2>2, ListStep
<1>9. UiStep(ui, n)
  <2>1a. DOMAIN ui = UiFields /\ ui = [f \in UiFields |-> ui[f]] /\ {"at", "message"} \subseteq UiFields
    BY <1>2 DEF UiBase, UiFields
  <2>1b. DOMAIN n = UiFields /\ n = [f \in UiFields |-> n[f]]
    BY <2>1a DEF n
  <2>1c. n.at = "prepare" /\ n.message = input.messages /\ \A f \in UiFields \ {"at", "message"} : n[f] = ui[f]
    BY <2>1a DEF n
  <2> HIDE DEF n
  <2>1d. /\ n.mode = ui.mode /\ n.believes = ui.believes /\ n.active = ui.active /\ n.confirm = ui.confirm
         /\ n.flow = ui.flow /\ n.held = ui.held /\ n.tries = ui.tries /\ n.draft = ui.draft
    BY <2>1c DEF UiFields
  <2>2. UiBase(n) /\ n.at \in PlainPlaces
    BY <1>2, <2>1b, <2>1c, <2>1d DEF UiBase, PlainPlaces
  <2> QED BY <1>1, <1>2, <2>1c, <2>1d, <2>2, OnStep
<1>10. UiBase(d) /\ d.believes = TRUE /\ d.confirm = ui.confirm /\ d.flow = ui.flow
  <2>1a. DOMAIN ui = UiFields /\ ui = [f \in UiFields |-> ui[f]] /\ {"draft", "draftTo"} \subseteq UiFields
    BY <1>2 DEF UiBase, UiFields
  <2>1b. DOMAIN d = UiFields /\ d = [f \in UiFields |-> d[f]]
    BY <2>1a DEF d
  <2>1c. d.draft = NoMessage /\ \A f \in UiFields \ {"draft", "draftTo"} : d[f] = ui[f]
    BY <2>1a DEF d
  <2> HIDE DEF d
  <2>1d. /\ d.mode = ui.mode /\ d.believes = ui.believes /\ d.active = ui.active /\ d.confirm = ui.confirm
         /\ d.flow = ui.flow /\ d.held = ui.held /\ d.tries = ui.tries /\ d.message = ui.message
    BY <2>1c DEF UiFields
  <2>2. UiBase(d)
    BY <1>2, <2>1b, <2>1c, <2>1d DEF UiBase
  <2> QED BY <1>2, <2>1d, <2>2
<1> HIDE DEF d
<1>11. UiStep(ui, LineDone(d))
  BY <1>1, <1>2, <1>10, LineDoneStep
<1>12. UiStep(ui, b)
  <2>1a. DOMAIN d = UiFields /\ d = [f \in UiFields |-> d[f]] /\ {"at", "message", "sendTo"} \subseteq UiFields
    BY <1>10 DEF UiBase, UiFields
  <2>1b. DOMAIN b = UiFields /\ b = [f \in UiFields |-> b[f]]
    BY <2>1a DEF b
  <2>1c. b.at = "begin" /\ b.message = ui.draft /\ \A f \in UiFields \ {"at", "message", "sendTo"} : b[f] = d[f]
    BY <2>1a DEF b
  <2> HIDE DEF b
  <2>1d. /\ b.mode = d.mode /\ b.believes = d.believes /\ b.active = d.active /\ b.confirm = d.confirm
         /\ b.flow = d.flow /\ b.held = d.held /\ b.tries = d.tries /\ b.draft = d.draft
    BY <2>1c DEF UiFields
  <2>2. UiBase(b) /\ b.at \in PlainPlaces /\ b.flow <= 1
    BY <1>2, <1>10, <2>1b, <2>1c, <2>1d DEF UiBase, PlainPlaces
  <2> QED BY <1>1, <1>2, <1>10, <2>1c, <2>1d, <2>2, OnStep
<1> HIDE DEF c, l, n, b
<1> QED BY <1>3, <1>4, <1>5, <1>7, <1>8, <1>9, <1>11, <1>12, PrintedStep

\* The steps of the command that leave the stream, the tracker and the input alone.
LEMMA QuietActions ==
    ASSUME IInv, \/ ListContacts \/ PollResume \/ IdleResume \/ WatchResume \/ IdleInterrupted \/ PrepareSend
                 \/ BeginOutgoing \/ SendAccepted \/ SendFails \/ RetainResume \/ Sent \/ AckSettles
                 \/ AckLosesLink \/ AckResume
    PROVE  IInv'
<1>1. UiStep(ui, ui')
  BY ListContactsStep, PollResumeStep, IdleResumeStep, WatchResumeStep, IdleInterruptedStep, PrepareSendStep,
     BeginOutgoingStep, SendAcceptedStep, SendFailsStep, RetainResumeStep, SentStep, AckSettlesStep,
     AckLosesLinkStep, AckResumeStep
<1>2. UNCHANGED <<stream, input, tracker, hooked>>
  BY DEF ListContacts, PollResume, IdleResume, WatchResume, IdleInterrupted, PrepareSend, BeginOutgoing,
         SendAccepted, SendFails, RetainResume, Sent, AckSettles, AckLosesLink, AckResume, ghosts
<1>3. Listening
  BY DEF ListContacts, PollResume, IdleResume, WatchResume, IdleInterrupted, InIdle, PrepareSend, BeginOutgoing,
         SendAccepted, SendFails, RetainResume, Sent, AckSettles, AckLosesLink, AckResume, Listening
<1>4. StreamOK' /\ UNCHANGED <<link, events, lagged>>
  BY <1>2, StreamStays
<1> QED BY <1>1, <1>2, <1>3, <1>4, QuietKeeps

\* The input thread and its channel.
InputOK(i) ==
    /\ i \in [at : {"none", "reading", "offered", "waiting"}, line : Lines \cup {NoLine}, lines : Nat,
              messages : 0 .. MaxMessages]
    /\ i.at = "offered" => i.line \in Lines

\* Only the input changes.
LEMMA InputStays ==
    ASSUME IInv, UNCHANGED <<stream, tracker>>, InputOK(input')
    PROVE  StreamOK' /\ UNCHANGED <<link, events, lagged>>
BY DEF IInv, StreamOK, InputOK, stream

\* The thread waits or reads.
LEMMA InputAt ==
    ASSUME NEW i, InputOK(i), NEW p \in {"reading", "waiting"}
    PROVE  InputOK([i EXCEPT !.at = p]) /\ InputOK([i EXCEPT !.at = p, !.line = NoLine])
<1> DEFINE j == [i EXCEPT !.at = p]
           k == [i EXCEPT !.at = p, !.line = NoLine]
           T == [at : {"none", "reading", "offered", "waiting"}, line : Lines \cup {NoLine}, lines : Nat,
                 messages : 0 .. MaxMessages]
<1>1. i \in T
  BY DEF InputOK
<1>2. j \in T /\ j.at = p
  BY <1>1
<1>3. k \in T /\ k.at = p
  BY <1>1
<1> HIDE DEF j, k
<1>4. InputOK(j) /\ InputOK(k)
  BY <1>2, <1>3 DEF InputOK
<1> QED BY <1>4 DEF j, k

\* A line is taken, or settled.
LEMMA LineActions ==
    ASSUME IInv, TakeLine \/ EndLine
    PROVE  IInv'
<1>1. UiStep(ui, ui')
  BY TakeLineStep, EndLineStep
<1>2. UNCHANGED <<stream, tracker, hooked>>
  BY DEF TakeLine, EndLine, ghosts
<1>3. Listening
  BY DEF TakeLine, EndLine, InIdle, Listening
<1>4. InputOK(input')
  <2>1. InputOK(input)
    BY DEF IInv, StreamOK, InputOK
  <2>2. InputOK([input EXCEPT !.at = "waiting", !.line = NoLine]) /\ InputOK([input EXCEPT !.at = "reading"])
    BY <2>1, InputAt
  <2>3. input' = [input EXCEPT !.at = "waiting", !.line = NoLine] \/ input' = [input EXCEPT !.at = "reading"] \/ input' = input
    BY DEF TakeLine, EndLine
  <2> QED BY <2>1, <2>2, <2>3
<1>5. StreamOK' /\ UNCHANGED <<link, events, lagged>>
  BY <1>2, <1>4, InputStays
<1> QED BY <1>1, <1>2, <1>3, <1>5, QuietKeeps

\* The session does not change.
LEMMA SessionStays ==
    ASSUME IInv, UNCHANGED <<link, events, lagged, ui, hooked>>, StreamOK'
    PROVE  IInv'
BY DEF IInv, HooksOK, LinkOK, ExpectsOK, Listening

\* The thread reads a line.
LEMMA ReadLineKeeps ==
    ASSUME IInv, ReadLine
    PROVE  IInv'
<1>1. UNCHANGED <<stream, tracker, hooked, ui>>
  BY DEF ReadLine, ghosts
<1>2. PICK line \in Lines :
          /\ line = "message" => input.messages < MaxMessages
          /\ input' = [at |-> "offered", line |-> line, lines |-> input.lines + 1,
                       messages |-> input.messages + (IF line = "message" THEN 1 ELSE 0)]
  BY DEF ReadLine, Lines
<1>3. input.messages \in 0 .. MaxMessages /\ input.lines \in Nat /\ MaxMessages \in Nat
  BY LiveAssumption DEF IInv, StreamOK
<1>4. input.messages + (IF line = "message" THEN 1 ELSE 0) \in 0 .. MaxMessages
  BY <1>2, <1>3
<1>5. InputOK(input')
  BY <1>2, <1>3, <1>4 DEF InputOK
<1>6. StreamOK' /\ UNCHANGED <<link, events, lagged>>
  BY <1>1, <1>5, InputStays
<1> QED BY <1>1, <1>6, SessionStays

\* The signal is noted, and a command that has ended does nothing.
LEMMA OthersKeep ==
    ASSUME IInv, Signal \/ Exited \/ UNCHANGED vars
    PROVE  IInv'
<1>1. UNCHANGED <<stream, tracker, hooked, ui, input>>
  BY DEF Signal, Exited, vars, ghosts
<1>2. StreamOK' /\ UNCHANGED <<link, events, lagged>>
  BY <1>1, StreamStays
<1> QED BY <1>1, <1>2, SessionStays

-----------------------------------------------------------------------------
(* The steps that take an event.                                           *)

\* An occurrence is removed.
LEMMA RemoveAtIs ==
    ASSUME NEW S, NEW q \in Seq(S), NEW i \in 1 .. Len(q)
    PROVE  RemoveAt(q, i) \in Seq(S) /\ Len(RemoveAt(q, i)) <= Len(q)
<1> DEFINE a == SubSeq(q, 1, i - 1)
           b == SubSeq(q, i + 1, Len(q))
<1>1. Len(q) \in Nat /\ i \in Nat /\ i >= 1 /\ i <= Len(q)
  OBVIOUS
<1>2. a \in Seq(S) /\ Len(a) = i - 1
  BY <1>1
<1>3. b \in Seq(S) /\ Len(b) = Len(q) - i
  BY <1>1
<1>4. RemoveAt(q, i) = a \o b
  BY DEF RemoveAt
<1> HIDE DEF a, b
<1>5. a \o b \in Seq(S) /\ Len(a \o b) = Len(a) + Len(b)
  BY <1>2, <1>3
<1> QED BY <1>1, <1>2, <1>3, <1>4, <1>5

\* IncomingTracker::observe keeps its bound.
LEMMA ObserveIs ==
    ASSUME StreamOK, NEW id \in Nat, NEW origin \in {"live", "queue"}
    PROVE  Observe(id, origin).occurrences \in Seq(Occurrences) /\ Len(Observe(id, origin).occurrences) <= TrackerCapacity
<1> DEFINE pairs == {i \in DOMAIN tracker : tracker[i].id = id /\ tracker[i].origin # origin}
           first == CHOOSE i \in pairs : \A j \in pairs : i <= j
           room == IF Len(tracker) = TrackerCapacity THEN Tail(tracker) ELSE tracker
           e == [id |-> id, origin |-> origin]
<1>1. tracker \in Seq(Occurrences) /\ Len(tracker) \in Nat /\ Len(tracker) <= TrackerCapacity /\ TrackerCapacity \in Nat \ {0}
  BY LiveAssumption DEF StreamOK
<1>2. CASE pairs # {}
  <2>1. pairs \subseteq Nat /\ pairs \subseteq 1 .. Len(tracker)
    BY <1>1
  <2>2. \E i \in pairs : \A j \in pairs : i <= j
    BY <1>2, <2>1, LeastIndex
  <2>3. first \in pairs
    BY <2>2
  <2>4. Observe(id, origin).occurrences = RemoveAt(tracker, first)
    BY <1>2 DEF Observe
  <2> HIDE DEF first, pairs
  <2>5. first \in 1 .. Len(tracker)
    BY <2>1, <2>3
  <2>6. RemoveAt(tracker, first) \in Seq(Occurrences) /\ Len(RemoveAt(tracker, first)) <= Len(tracker)
    BY <1>1, <2>5, RemoveAtIs
  <2>7. Len(RemoveAt(tracker, first)) \in Nat
    BY <2>6
  <2> QED BY <1>1, <2>4, <2>6, <2>7
<1>3. CASE pairs = {}
  <2>1. Observe(id, origin).occurrences = Append(room, e)
    BY <1>3 DEF Observe
  <2>2. room \in Seq(Occurrences) /\ Len(room) < TrackerCapacity /\ Len(room) \in Nat
    <3>1. CASE Len(tracker) = TrackerCapacity
      <4>1. tracker # <<>>
        BY <1>1, <3>1
      <4>2. Tail(tracker) \in Seq(Occurrences) /\ Len(Tail(tracker)) = Len(tracker) - 1
        BY <1>1, <4>1
      <4> QED BY <1>1, <3>1, <4>2
    <3>2. CASE Len(tracker) # TrackerCapacity
      BY <1>1, <3>2
    <3> QED BY <3>1, <3>2
  <2>3. e \in Occurrences
    BY DEF Occurrences
  <2> HIDE DEF room, e
  <2>4. Append(room, e) \in Seq(Occurrences) /\ Len(Append(room, e)) = Len(room) + 1
    BY <2>2, <2>3
  <2> QED BY <1>1, <2>1, <2>2, <2>4
<1> QED BY <1>2, <1>3

\* WorkflowServices::incoming
LEMMA IncomingIs ==
    ASSUME StreamOK, NEW id \in Nat, NEW origin \in {"live", "queue"}, NEW next, Incoming(id, origin, next)
    PROVE  /\ tracker' \in Seq(Occurrences) /\ Len(tracker') <= TrackerCapacity
           /\ ui' = next \/ ui' \in {Fail(ui, "hook"), Fail(ui, "output")}
BY ObserveIs DEF Incoming

\* The event that is taken, and the stream behind it.
LEMMA PopIs ==
    ASSUME StreamOK, events # <<>>, PopEvent
    PROVE  /\ Head(events) \in Evs /\ Head(events).kind \in EvKinds /\ Head(events).id \in Nat
           /\ events' = Tail(events) /\ events' \in Seq(Evs) /\ Len(events') <= Capacity
           /\ link' = link /\ lagged' = lagged /\ published' = published
<1>1. events \in Seq(Evs) /\ Len(events) <= Capacity /\ Capacity \in Nat
  BY LiveAssumption DEF StreamOK
<1>2. Head(events) \in Evs /\ Tail(events) \in Seq(Evs) /\ Len(Tail(events)) = Len(events) - 1 /\ Len(events) \in Nat
  BY <1>1
<1>3. Head(events).kind \in EvKinds /\ Head(events).id \in Nat
  BY <1>2 DEF Evs
<1> QED BY <1>1, <1>2, <1>3 DEF PopEvent

\* The stream is as it should be behind an event that is taken.
LEMMA PopStays ==
    ASSUME StreamOK, events # <<>>, PopEvent, UNCHANGED input, tracker' \in Seq(Occurrences), Len(tracker') <= TrackerCapacity
    PROVE  StreamOK'
BY PopIs DEF StreamOK

\* What is lost stays so behind an event that is taken while the command waits.
Still == ~link => Lost(events')

\* An event is taken.
LEMMA PopKeeps ==
    ASSUME IInv, Listening, events # <<>>, ~lagged, PopEvent, StreamOK', UNCHANGED hooked, UiStep(ui, ui'),
           ui'.at # "cleanup" => Confirms(events', Expects(ui')), ui'.at \in Working => Still
    PROVE  IInv'
<1>1. UiOK(ui') /\ ui'.believes = ui.believes /\ ui.at # "exit" /\ UiOK(ui)
  BY DEF IInv, UiStep, Listening
<1>2. ui'.at \in Working \cup {"cleanup", "unhook"} /\ (ui'.at \in Working => ui.at \in Working)
  BY DEF UiStep, Working
<1>3. ui'.at \notin {"connect", "exit", "activate", "drain"}
  BY <1>2 DEF Working
<1>4. HooksOK'
  BY <1>1, <1>3 DEF IInv, HooksOK
<1>5. link' = link /\ lagged' = lagged
  BY DEF PopEvent
<1>6. LinkOK'
  BY <1>2, <1>3, <1>5 DEF IInv, LinkOK, Still
<1>7. ExpectsOK'
  BY <1>5 DEF ExpectsOK, Listening
<1> QED BY <1>1, <1>4, <1>6, <1>7 DEF IInv

\* What is known while the command waits.
LEMMA IdleIs ==
    ASSUME NEW u, UiOK(u), u.at = "idle"
    PROVE  UiBase(u) /\ u.at \in Working /\ u.believes = TRUE /\ u.flow = 0 /\ u.confirm \in Nat /\ Expects(u) = u.confirm
<1>1. u.at \in Working
  BY DEF Working
<1>2. UiBase(u) /\ u.believes = TRUE /\ u.flow = 0 /\ u.confirm \in Nat
  BY <1>1, WorkingIs
<1>3. Pending(u) = 0
  BY DEF Pending
<1> QED BY <1>1, <1>2, <1>3 DEF Expects

\* It waits on, for fewer confirmations.
LEMMA WaitsOn ==
    ASSUME NEW u, UiOK(u), u.at = "idle", NEW w, UiBase(w), w.at = "idle", w.believes = TRUE, w.flow = 0, w.confirm <= u.confirm
    PROVE  UiStep(u, w) /\ Expects(w) = w.confirm
<1>1. u.at \in Working /\ u.believes = TRUE /\ u.confirm \in Nat /\ Expects(u) = u.confirm
  BY IdleIs
<1>2. w.confirm \in Nat
  BY DEF UiBase
<1>3. w.at \in PlainPlaces /\ w.flow <= FlowMax(w) /\ w.confirm + w.flow <= Expects(u)
  <2>1. FlowMax(w) = 0
    BY FlowMaxIs
  <2>2. w.flow <= FlowMax(w) /\ w.confirm + w.flow <= Expects(u)
    BY <1>1, <1>2, <2>1
  <2> QED BY <2>2 DEF PlainPlaces
<1>4. UiStep(u, w)
  BY <1>1, <1>3, PlainStep
<1>5. UiOK(w)
  BY <1>4 DEF UiStep
<1> QED BY <1>4, <1>5, IdleIs

\* The command ends.
LEMMA EndIs ==
    ASSUME NEW w, UiBase(w), w.believes = TRUE \/ w.mode = "watch"
    PROVE  LET v == [w EXCEPT !.at = "cleanup"] IN UiOK(v) /\ v.at = "cleanup" /\ v.believes = w.believes
<1> DEFINE v == [w EXCEPT !.at = "cleanup"]
<1>1. UiBase(v) /\ v.at = "cleanup" /\ v.believes = w.believes /\ v.flow = w.flow /\ v.mode = w.mode
  BY AtIs
<1> HIDE DEF v
<1>2. v.at \in Places /\ v.at \notin Away /\ v.at \notin Working /\ v.flow <= FlowMax(v)
  <2>1. FlowMax(v) = 2 /\ v.flow \in 0 .. 2
    BY <1>1, FlowMaxIs DEF UiBase
  <2>2. v.flow <= FlowMax(v)
    BY <2>1
  <2> QED BY <1>1, <2>2 DEF Working, Places, Away
<1>3. ~Starting(v) /\ ~Lists(v)
  BY <1>1, <1>2 DEF Starting, Lists
<1>4. v.believes = TRUE \/ v.mode # "chat"
  BY <1>1
<1>5. UiOK(v)
  BY <1>1, <1>2, <1>3, <1>4 DEF UiOK
<1> QED BY <1>1, <1>5 DEF v

\* The event is printed and counted.
LEMMA EmitIs ==
    ASSUME NEW w, UiBase(w), w.believes = TRUE \/ w.mode = "watch", NEW kind, NEW v \in Emit(w, kind)
    PROVE  Alike(w, v) \/ (UiOK(v) /\ v.at = "cleanup" /\ v.believes = w.believes)
<1> DEFINE x == [w EXCEPT !.emitted = w.emitted + 1]
<1>1. Alike(w, w)
  BY DEF Alike
<1>2. Alike(w, x)
  <2>1. Alike(w, [w EXCEPT !["emitted"] = w.emitted + 1])
    BY DetailIs DEF Details
  <2> QED BY <2>1
<1>3. v \in {w, x, [x EXCEPT !.at = "cleanup"], Fail(w, "output")}
  BY DEF Emit
<1>4. x.mode = w.mode
  BY DEF UiBase, UiFields
<1> HIDE DEF x
<1>5. UiBase(x) /\ x.believes = w.believes
  BY <1>2 DEF Alike
<1>6. LET y == [x EXCEPT !.at = "cleanup"] IN UiOK(y) /\ y.at = "cleanup" /\ y.believes = w.believes
  BY <1>4, <1>5, EndIs
<1>7. LET y == Fail(w, "output") IN UiOK(y) /\ y.at = "cleanup" /\ y.believes = w.believes
  BY FailIs
<1> QED BY <1>1, <1>2, <1>3, <1>6, <1>7

\* The event is one that says nothing of the link, or a Disconnected before the Connected that is to come.
LEMMA TakesEvent ==
    ASSUME IInv, Receive, PopEvent,
           Head(events).kind # "disconnected" \/ ui.confirm > 0
    PROVE  /\ Still
           /\ Head(events).kind # "connected" => Confirms(events', ui.confirm)
           /\ ui.confirm > 0 => Confirms(events', ui.confirm - 1)
<1>1. UiOK(ui) /\ ui.at = "idle" /\ StreamOK /\ events # <<>> /\ ~lagged /\ events' = Tail(events) /\ events \in Seq(Evs)
  BY DEF IInv, Receive, InIdle, PopEvent, StreamOK
<1>2. ui.at \in Working /\ ui.confirm \in Nat /\ Expects(ui) = ui.confirm
  BY <1>1, IdleIs
<1>3. Confirms(events, ui.confirm)
  BY <1>1, <1>2 DEF IInv, ExpectsOK, Listening
<1>4. Still
  <2> SUFFICES ASSUME ~link PROVE Lost(Tail(events))
    BY <1>1 DEF Still
  <2>1. Lost(events)
    BY <1>2 DEF IInv, LinkOK
  <2>2. CASE Head(events).kind # "disconnected"
    BY <1>1, <2>1, <2>2, LostOn
  <2>3. CASE ui.confirm > 0
    BY <1>1, <1>2, <1>3, <2>1, <2>3, LostBehind
  <2> QED BY <2>2, <2>3
<1>5. /\ Head(events).kind # "connected" => Confirms(Tail(events), ui.confirm)
      /\ ui.confirm > 0 => Confirms(Tail(events), ui.confirm - 1)
  BY <1>1, <1>2, <1>3, ConfirmsOn
<1> QED BY <1>1, <1>4, <1>5

\* The event is taken and nothing awaited changes, or the command ends.
LEMMA TakesEventKeeps ==
    ASSUME IInv, Receive, PopEvent, Head(events).kind # "connected", Head(events).kind # "disconnected" \/ ui.confirm > 0,
           StreamOK', UNCHANGED hooked,
           Alike(ui, ui') \/ (UiOK(ui') /\ ui'.at = "cleanup" /\ ui'.believes = ui.believes)
    PROVE  IInv'
<1>1. UiOK(ui) /\ ui.at = "idle" /\ events # <<>> /\ ~lagged /\ Listening
  BY DEF IInv, Receive, InIdle, Listening
<1>2. UiBase(ui) /\ ui.believes = TRUE /\ ui.flow = 0 /\ ui.confirm \in Nat
  BY <1>1, IdleIs
<1>3. Still /\ Confirms(events', ui.confirm)
  BY TakesEvent
<1>4. CASE Alike(ui, ui')
  <2>1. UiBase(ui') /\ ui'.at = "idle" /\ ui'.believes = TRUE /\ ui'.flow = 0 /\ ui'.confirm = ui.confirm
    BY <1>1, <1>2, <1>4 DEF Alike
  <2>2. ui'.confirm <= ui.confirm
    BY <1>2, <2>1
  <2>3. \A u, w : UiOK(u) /\ u.at = "idle" /\ UiBase(w) /\ w.at = "idle" /\ w.believes = TRUE /\ w.flow = 0 /\ w.confirm <= u.confirm
                  => UiStep(u, w) /\ Expects(w) = w.confirm
    BY WaitsOn
  <2>4. UiStep(ui, ui') /\ Expects(ui') = ui'.confirm
    BY <1>1, <2>1, <2>2, <2>3
  <2> QED BY <1>1, <1>3, <2>1, <2>4, PopKeeps
<1>5. CASE UiOK(ui') /\ ui'.at = "cleanup" /\ ui'.believes = ui.believes
  <2>1. UiStep(ui, ui') /\ ui'.at \notin Working
    BY <1>5 DEF UiStep, Working
  <2> QED BY <1>1, <1>5, <2>1, PopKeeps
<1> QED BY <1>4, <1>5

\* A failure is an end.
LEMMA FailEnds ==
    ASSUME NEW u, UiBase(u), NEW e, e # "none", NEW v, v = Fail(u, e)
    PROVE  UiOK(v) /\ v.at = "cleanup" /\ v.believes = u.believes
BY FailIs

\* watch ignores what its own reconnect published.
LEMMA WatchSkipKeeps ==
    ASSUME IInv, WatchSkip
    PROVE  IInv'
<1>1. /\ Receive /\ PopEvent /\ Head(events).kind = "disconnected" /\ ui.confirm > 0 /\ events # <<>>
      /\ UNCHANGED <<ui, input, tracker, hooked>> /\ StreamOK
  BY DEF WatchSkip, WatchIgnores, Receive, ghosts, IInv
<1>2. tracker' \in Seq(Occurrences) /\ Len(tracker') <= TrackerCapacity
  BY <1>1 DEF StreamOK
<1>3. StreamOK'
  BY <1>1, <1>2, PopStays
<1>4. Alike(ui, ui')
  BY <1>1, UiOKIs DEF IInv, Alike
<1>5. Head(events).kind # "connected"
  BY <1>1
<1> QED BY <1>1, <1>3, <1>4, <1>5, TakesEventKeeps

\* A message is observed, by watch ...
LEMMA WatchMessageKeeps ==
    ASSUME IInv, WatchMessage
    PROVE  IInv'
<1>1. /\ Receive /\ PopEvent /\ Head(events).kind = "message" /\ events # <<>> /\ UNCHANGED <<input, hooked>> /\ StreamOK
      /\ ui.at = "idle"
  BY DEF WatchMessage, Receive, InIdle, IInv
<1>2. UiBase(ui) /\ ui.believes = TRUE
  BY <1>1, IdleIs DEF IInv
<1>3. PICK next \in Emit(ui, "message") : Incoming(Head(events).id, "live", next)
  BY DEF WatchMessage
<1>4. Head(events).id \in Nat
  BY <1>1, PopIs
<1>5. tracker' \in Seq(Occurrences) /\ Len(tracker') <= TrackerCapacity /\ (ui' = next \/ ui' \in {Fail(ui, "hook"), Fail(ui, "output")})
  BY <1>1, <1>3, <1>4, IncomingIs
<1>6. StreamOK'
  BY <1>1, <1>5, PopStays
<1>7. Alike(ui, ui') \/ (UiOK(ui') /\ ui'.at = "cleanup" /\ ui'.believes = ui.believes)
  <2>1. Alike(ui, next) \/ (UiOK(next) /\ next.at = "cleanup" /\ next.believes = ui.believes)
    BY <1>2, <1>3, EmitIs
  <2>2. CASE ui' = next
    BY <2>1, <2>2
  <2>3. CASE ui' \in {Fail(ui, "hook"), Fail(ui, "output")}
    BY <1>2, <2>3, FailEnds
  <2> QED BY <1>5, <2>2, <2>3
<1>8. Head(events).kind # "connected" /\ Head(events).kind # "disconnected"
  BY <1>1
<1> QED BY <1>1, <1>6, <1>7, <1>8, TakesEventKeeps

\* ... and by chat.
LEMMA ChatMessageKeeps ==
    ASSUME IInv, ChatMessage
    PROVE  IInv'
<1>1. /\ Receive /\ PopEvent /\ Head(events).kind = "message" /\ events # <<>> /\ UNCHANGED <<input, hooked>> /\ StreamOK
      /\ ui.at = "idle" /\ Incoming(Head(events).id, "live", ui)
  BY DEF ChatMessage, ChatReceive, Receive, InIdle, IInv
<1>2. UiBase(ui)
  BY <1>1, IdleIs DEF IInv
<1>3. Head(events).id \in Nat
  BY <1>1, PopIs
<1>4. tracker' \in Seq(Occurrences) /\ Len(tracker') <= TrackerCapacity /\ (ui' = ui \/ ui' \in {Fail(ui, "hook"), Fail(ui, "output")})
  BY <1>1, <1>3, IncomingIs
<1>5. StreamOK'
  BY <1>1, <1>4, PopStays
<1>6. Alike(ui, ui') \/ (UiOK(ui') /\ ui'.at = "cleanup" /\ ui'.believes = ui.believes)
  <2>1. CASE ui' = ui
    BY <1>2, <2>1 DEF Alike
  <2>2. CASE ui' \in {Fail(ui, "hook"), Fail(ui, "output")}
    BY <1>2, <2>2, FailEnds
  <2> QED BY <1>4, <2>1, <2>2
<1>7. Head(events).kind # "connected" /\ Head(events).kind # "disconnected"
  BY <1>1
<1> QED BY <1>1, <1>5, <1>6, <1>7, TakesEventKeeps

\* A Connected event confirms a reconnect, for watch all of them.
LEMMA ConfirmKeeps ==
    ASSUME IInv, Receive, PopEvent, Head(events).kind = "connected", StreamOK', UNCHANGED hooked,
           NEW w, UiBase(w), w.at = "idle", w.believes = TRUE, w.flow = 0,
           w.confirm = 0 \/ (ui.confirm > 0 /\ w.confirm = ui.confirm - 1),
           Alike(w, ui') \/ (UiOK(ui') /\ ui'.at = "cleanup" /\ ui'.believes = TRUE)
    PROVE  IInv'
<1>1. UiOK(ui) /\ ui.at = "idle" /\ events # <<>> /\ ~lagged /\ Listening /\ Head(events).kind # "disconnected"
  BY DEF IInv, Receive, InIdle, Listening
<1>2. UiBase(ui) /\ ui.believes = TRUE /\ ui.flow = 0 /\ ui.confirm \in Nat
  BY <1>1, IdleIs
<1>3. Still /\ (ui.confirm > 0 => Confirms(events', ui.confirm - 1))
  BY <1>1, TakesEvent
<1>4. Confirms(events', w.confirm)
  BY <1>3, ConfirmsNothing
<1>5. CASE Alike(w, ui')
  <2>1. UiBase(ui') /\ ui'.at = "idle" /\ ui'.believes = TRUE /\ ui'.flow = 0 /\ ui'.confirm = w.confirm
    BY <1>5 DEF Alike
  <2>2. ui'.confirm <= ui.confirm
    BY <1>2, <2>1
  <2>3. \A u, x : UiOK(u) /\ u.at = "idle" /\ UiBase(x) /\ x.at = "idle" /\ x.believes = TRUE /\ x.flow = 0 /\ x.confirm <= u.confirm
                  => UiStep(u, x) /\ Expects(x) = x.confirm
    BY WaitsOn
  <2>4. UiStep(ui, ui') /\ Expects(ui') = ui'.confirm
    BY <1>1, <2>1, <2>2, <2>3
  <2> QED BY <1>1, <1>3, <1>4, <2>1, <2>4, PopKeeps
<1>6. CASE UiOK(ui') /\ ui'.at = "cleanup" /\ ui'.believes = TRUE
  <2>1. UiStep(ui, ui') /\ ui'.at \notin Working
    BY <1>2, <1>6 DEF UiStep, Working
  <2> QED BY <1>1, <1>6, <2>1, PopKeeps
<1> QED BY <1>5, <1>6

\* The command waits for other confirmations.
LEMMA ConfirmIs ==
    ASSUME NEW u, UiBase(u), NEW n \in Nat
    PROVE  LET w == [u EXCEPT !.confirm = n]
           IN UiBase(w) /\ w.at = u.at /\ w.believes = u.believes /\ w.flow = u.flow /\ w.confirm = n /\ w.mode = u.mode
<1> DEFINE w == [u EXCEPT !.confirm = n]
<1>1a. DOMAIN u = UiFields /\ u = [f \in UiFields |-> u[f]] /\ {"confirm"} \subseteq UiFields
  BY DEF UiBase, UiFields
<1>1b. DOMAIN w = UiFields /\ w = [f \in UiFields |-> w[f]]
  BY <1>1a DEF w
<1>1c. w.confirm = n /\ \A f \in UiFields \ {"confirm"} : w[f] = u[f]
  BY <1>1a DEF w
<1> HIDE DEF w
<1>1d. /\ w.mode = u.mode /\ w.believes = u.believes /\ w.active = u.active /\ w.flow = u.flow /\ w.held = u.held
       /\ w.tries = u.tries /\ w.draft = u.draft /\ w.message = u.message /\ w.at = u.at
  BY <1>1c DEF UiFields
<1>2. UiBase(w)
  BY <1>1b, <1>1c, <1>1d DEF UiBase
<1> QED BY <1>1c, <1>1d, <1>2 DEF w

\* watch is told that the link is up, or of an error.
LEMMA WatchOtherKeeps ==
    ASSUME IInv, WatchOther
    PROVE  IInv'
<1>1. /\ Receive /\ PopEvent /\ Head(events).kind \in {"connected", "error"} /\ events # <<>>
      /\ UNCHANGED <<input, tracker, hooked>> /\ StreamOK /\ ui.at = "idle" /\ UiOK(ui)
  BY DEF WatchOther, Receive, InIdle, IInv, ghosts
<1>2. UiBase(ui) /\ ui.believes = TRUE /\ ui.flow = 0 /\ ui.confirm \in Nat
  BY <1>1, IdleIs
<1>3. tracker' \in Seq(Occurrences) /\ Len(tracker') <= TrackerCapacity
  BY <1>1 DEF StreamOK
<1>4. StreamOK'
  BY <1>1, <1>3, PopStays
<1> DEFINE n == IF Head(events).kind = "connected" THEN 0 ELSE ui.confirm
           w == [ui EXCEPT !.confirm = n]
<1>5. ui' \in Emit(w, Head(events).kind) \/ ui' = Fail(w, "hook")
  BY DEF WatchOther
<1>6. n \in Nat
  BY <1>2
<1> HIDE DEF n
<1>7. UiBase(w) /\ w.at = "idle" /\ w.believes = TRUE /\ w.flow = 0 /\ w.confirm = n
  BY <1>1, <1>2, <1>6, ConfirmIs
<1> HIDE DEF w
<1>8. Alike(w, ui') \/ (UiOK(ui') /\ ui'.at = "cleanup" /\ ui'.believes = TRUE)
  <2>1. \A v, k : v \in Emit(w, k) => Alike(w, v) \/ (UiOK(v) /\ v.at = "cleanup" /\ v.believes = w.believes)
    BY <1>7, EmitIs
  <2>2. CASE ui' \in Emit(w, Head(events).kind)
    BY <1>7, <2>1, <2>2
  <2>3. CASE ui' = Fail(w, "hook")
    BY <1>7, <2>3, FailEnds
  <2> QED BY <1>5, <2>2, <2>3
<1>9. CASE Head(events).kind = "connected"
  <2>1. w.confirm = 0
    BY <1>7, <1>9 DEF n
  <2> QED BY <1>1, <1>4, <1>7, <1>8, <1>9, <2>1, ConfirmKeeps
<1>10. CASE Head(events).kind = "error"
  <2>1. w.confirm = ui.confirm
    BY <1>7, <1>10 DEF n
  <2>2. w.back = ui.back /\ w.message = ui.message
    BY <1>2 DEF w, UiBase, UiFields
  <2>3. Alike(w, ui') => Alike(ui, ui')
    BY <1>1, <1>2, <1>7, <2>1, <2>2 DEF Alike
  <2>4. Alike(ui, ui') \/ (UiOK(ui') /\ ui'.at = "cleanup" /\ ui'.believes = ui.believes)
    BY <1>2, <1>8, <2>3
  <2>5. Head(events).kind # "connected" /\ Head(events).kind # "disconnected"
    BY <1>10
  <2> QED BY <1>1, <1>4, <2>4, <2>5, TakesEventKeeps
<1> QED BY <1>1, <1>9, <1>10

\* chat is told of the link, or of an error.
LEMMA ChatLifecycleKeeps ==
    ASSUME IInv, ChatLifecycle
    PROVE  IInv'
<1>1. /\ Receive /\ PopEvent /\ Head(events).kind \in {"connected", "disconnected", "error"} /\ events # <<>>
      /\ UNCHANGED <<input, tracker, hooked>> /\ StreamOK /\ ui.at = "idle" /\ UiOK(ui) /\ ~lagged /\ Listening
  BY DEF ChatLifecycle, ChatReceive, Receive, InIdle, IInv, ghosts, Listening
<1>2. UiBase(ui) /\ ui.believes = TRUE /\ ui.flow = 0 /\ ui.confirm \in Nat /\ Expects(ui) = ui.confirm
  BY <1>1, IdleIs
<1>3. tracker' \in Seq(Occurrences) /\ Len(tracker') <= TrackerCapacity
  BY <1>1 DEF StreamOK
<1>4. StreamOK'
  BY <1>1, <1>3, PopStays
<1>5. CASE Head(events).kind = "connected"
  <2> DEFINE n == IF ui.confirm > 0 THEN ui.confirm - 1 ELSE 0
             w == [ui EXCEPT !.confirm = n]
  <2>1. ui' = w
    BY <1>5 DEF ChatLifecycle
  <2>2. n \in Nat /\ (n = 0 \/ (ui.confirm > 0 /\ n = ui.confirm - 1))
    BY <1>2
  <2> HIDE DEF n
  <2>3. UiBase(w) /\ w.at = "idle" /\ w.believes = TRUE /\ w.flow = 0 /\ w.confirm = n
    BY <1>1, <1>2, <2>2, ConfirmIs
  <2> HIDE DEF w
  <2>4. Alike(w, ui')
    BY <2>1, <2>3 DEF Alike
  <2> QED BY <1>1, <1>4, <1>5, <2>2, <2>3, <2>4, ConfirmKeeps
<1>6. CASE Head(events).kind = "disconnected" /\ ui.confirm > 0
  <2>1. ui' = ui
    BY <1>6 DEF ChatLifecycle
  <2>2. Alike(ui, ui')
    BY <1>2, <2>1 DEF Alike
  <2>3. Head(events).kind # "connected"
    BY <1>6
  <2> QED BY <1>1, <1>4, <1>6, <2>2, <2>3, TakesEventKeeps
<1>7. CASE Head(events).kind = "disconnected" /\ ~(ui.confirm > 0)
  <2>1. ui' = StartReconnect(ui, "idle")
    BY <1>7 DEF ChatLifecycle
  <2>2. ui.confirm = 0 /\ ui.confirm + ui.flow <= Expects(ui)
    BY <1>2, <1>7
  <2>3. UiStep(ui, StartReconnect(ui, "idle"))
    BY <1>2, <2>2, ReconnectStep
  <2>4. UiStep(ui, ui') /\ ui'.at = "unhook" /\ ui'.at \notin Working
    <3>1. "at" \in DOMAIN ui /\ DOMAIN ui = UiFields
      BY <1>2 DEF UiBase, UiFields
    <3>2. StartReconnect(ui, "idle").at = "unhook"
      BY <3>1 DEF StartReconnect
    <3> QED BY <2>1, <2>3, <3>2 DEF Working
  <2>5. Expects(ui') = 0
    <3>1. \A u : UiOK(u) => Expects(u) \in Nat
      BY UiOKIs
    <3>2. UiOK(ui') /\ Expects(ui') <= Expects(ui)
      BY <2>4 DEF UiStep
    <3> QED BY <1>2, <2>2, <3>1, <3>2
  <2>6. Confirms(events', Expects(ui'))
    BY <2>5, ConfirmsNothing
  <2> QED BY <1>1, <1>4, <2>4, <2>6, PopKeeps
<1>8. CASE Head(events).kind = "error"
  <2>1. ui' = ui \/ ui' = Fail(ui, "hook")
    BY <1>8 DEF ChatLifecycle
  <2>2. Alike(ui, ui') \/ (UiOK(ui') /\ ui'.at = "cleanup" /\ ui'.believes = ui.believes)
    <3>1. CASE ui' = ui
      BY <1>2, <3>1 DEF Alike
    <3>2. CASE ui' = Fail(ui, "hook")
      BY <1>2, <3>2, FailEnds
    <3> QED BY <2>1, <3>1, <3>2
  <2>3. Head(events).kind # "connected" /\ Head(events).kind # "disconnected"
    BY <1>8
  <2> QED BY <1>1, <1>4, <2>2, <2>3, TakesEventKeeps
<1> QED BY <1>1, <1>5, <1>6, <1>7, <1>8

\* After a lag nothing is awaited.
LEMMA LagKeeps ==
    ASSUME IInv, Lag
    PROVE  IInv'
<1>1. /\ UNCHANGED <<link, events, published, input, tracker, hooked>> /\ lagged' = FALSE /\ ui.at = "idle" /\ UiOK(ui)
      /\ StreamOK
  BY DEF Lag, InIdle, IInv, ghosts
<1>2. UiBase(ui) /\ ui.at \in Working /\ ui.believes = TRUE /\ ui.flow = 0 /\ ui.confirm \in Nat
  BY <1>1, IdleIs
<1>3. StreamOK'
  BY <1>1 DEF StreamOK
<1>4. hooked' = 1
  BY <1>1, <1>2 DEF IInv, HooksOK
<1> DEFINE w == [ui EXCEPT !.confirm = 0]
<1>5. ui' = w \/ ui' = Fail(ui, "output")
  BY DEF Lag
<1>6. UiBase(w) /\ w.at = "idle" /\ w.believes = TRUE /\ w.flow = 0 /\ w.confirm = 0
  BY <1>1, <1>2, ConfirmIs
<1> HIDE DEF w
<1>7. CASE ui' = w
  <2>1. UiStep(ui, w) /\ Expects(w) = 0
    <3>1. w.confirm <= ui.confirm
      BY <1>2, <1>6
    <3> QED BY <1>1, <1>6, <3>1, WaitsOn
  <2>2. UiOK(ui') /\ ui'.at = "idle" /\ ui'.believes = TRUE /\ Expects(ui') = 0
    BY <1>6, <1>7, <2>1 DEF UiStep
  <2>3. HooksOK'
    BY <1>4, <2>2 DEF HooksOK
  <2>4. LinkOK'
    BY <1>1, <1>2, <2>2 DEF IInv, LinkOK
  <2>5. ExpectsOK'
    BY <2>2, ConfirmsNothing DEF ExpectsOK
  <2> QED BY <1>3, <2>2, <2>3, <2>4, <2>5 DEF IInv
<1>8. CASE ui' = Fail(ui, "output")
  <2>1. UiOK(ui') /\ ui'.at = "cleanup" /\ ui'.believes = TRUE
    BY <1>2, <1>8, FailEnds
  <2>2. HooksOK'
    BY <1>4, <2>1 DEF HooksOK
  <2>3. LinkOK'
    BY <2>1 DEF LinkOK, Working
  <2>4. ExpectsOK'
    BY <2>1 DEF ExpectsOK, Listening
  <2> QED BY <1>3, <2>1, <2>2, <2>3, <2>4 DEF IInv
<1> QED BY <1>5, <1>7, <1>8

\* watch takes the session back and turns to its reconnect.
LEMMA WatchDisconnectedKeeps ==
    ASSUME IInv, WatchDisconnected
    PROVE  IInv'
<1>1. /\ Receive /\ PopEvent /\ events # <<>> /\ UNCHANGED <<input, tracker>> /\ StreamOK /\ ui.at = "idle" /\ UiOK(ui)
      /\ ui.mode = "watch" /\ ~(ui.confirm > 0) /\ hooked' = hooked - (IF ui.believes THEN 1 ELSE 0)
  BY DEF WatchDisconnected, WatchIgnores, Receive, InIdle, IInv
<1>2. UiBase(ui) /\ ui.believes = TRUE /\ ui.flow = 0 /\ ui.confirm = 0
  <2>1. UiBase(ui) /\ ui.believes = TRUE /\ ui.flow = 0 /\ ui.confirm \in Nat
    BY <1>1, IdleIs
  <2> QED BY <1>1, <2>1
<1>3. StreamOK'
  BY <1>1, PopStays DEF StreamOK
<1>4. hooked' = 0
  BY <1>1, <1>2 DEF IInv, HooksOK
<1> DEFINE w == [ui EXCEPT !.believes = FALSE]
<1>5. ui' = Fail(w, "hook") \/ \E e \in Emit(w, "disconnected") :
          ui' = IF e.at = "idle" THEN [e EXCEPT !.at = "attempt", !.back = "watch", !.tries = 0] ELSE e
  BY DEF WatchDisconnected
<1>6a. DOMAIN ui = UiFields /\ ui = [f \in UiFields |-> ui[f]] /\ {"believes"} \subseteq UiFields
  BY <1>2 DEF UiBase, UiFields
<1>6b. DOMAIN w = UiFields /\ w = [f \in UiFields |-> w[f]]
  BY <1>6a DEF w
<1>6c. w.believes = FALSE /\ \A f \in UiFields \ {"believes"} : w[f] = ui[f]
  BY <1>6a DEF w
<1> HIDE DEF w
<1>6d. /\ w.mode = ui.mode /\ w.active = ui.active /\ w.confirm = ui.confirm /\ w.flow = ui.flow
       /\ w.held = ui.held /\ w.tries = ui.tries /\ w.draft = ui.draft /\ w.message = ui.message /\ w.at = ui.at
  BY <1>6c DEF UiFields
<1>7. UiBase(w) /\ w.at = "idle" /\ w.believes = FALSE /\ w.flow = 0 /\ w.confirm = 0 /\ w.mode = "watch"
  BY <1>1, <1>2, <1>6b, <1>6c, <1>6d DEF UiBase
<1>8. ui'.at = "cleanup" /\ UiOK(ui') /\ ui'.believes = FALSE => IInv'
  <2> HAVE ui'.at = "cleanup" /\ UiOK(ui') /\ ui'.believes = FALSE
  <2>1. HooksOK'
    BY <1>4 DEF HooksOK
  <2>2. LinkOK'
    BY DEF LinkOK, Working
  <2>3. ExpectsOK'
    BY DEF ExpectsOK, Listening
  <2> QED BY <1>3, <2>1, <2>2, <2>3 DEF IInv
<1>9. CASE ui' = Fail(w, "hook")
  <2>1. UiOK(ui') /\ ui'.at = "cleanup" /\ ui'.believes = FALSE
    BY <1>7, <1>9, FailEnds
  <2> QED BY <1>8, <2>1
<1>10. ASSUME NEW e \in Emit(w, "disconnected"), ui' = IF e.at = "idle" THEN [e EXCEPT !.at = "attempt", !.back = "watch", !.tries = 0] ELSE e
       PROVE  IInv'
  <2>1. Alike(w, e) \/ (UiOK(e) /\ e.at = "cleanup" /\ e.believes = FALSE)
    BY <1>7, EmitIs
  <2>2. CASE UiOK(e) /\ e.at = "cleanup" /\ e.believes = FALSE
    <3>1. ui' = e
      BY <1>10, <2>2
    <3> QED BY <1>8, <2>2, <3>1
  <2>3. CASE Alike(w, e)
    <3>1. UiBase(e) /\ e.at = "idle" /\ e.believes = FALSE /\ e.flow = 0 /\ e.confirm = 0
      BY <1>7, <2>3 DEF Alike
    <3> DEFINE v == [e EXCEPT !.at = "attempt", !.back = "watch", !.tries = 0]
    <3>2. ui' = v
      BY <1>10, <3>1
    <3>3a. DOMAIN e = UiFields /\ e = [f \in UiFields |-> e[f]] /\ {"at", "back", "tries"} \subseteq UiFields
      BY <3>1 DEF UiBase, UiFields
    <3>3b. DOMAIN v = UiFields /\ v = [f \in UiFields |-> v[f]]
      BY <3>3a DEF v
    <3>3c. v.at = "attempt" /\ v.back = "watch" /\ v.tries = 0 /\ \A f \in UiFields \ {"at", "back", "tries"} : v[f] = e[f]
      BY <3>3a DEF v
    <3> HIDE DEF v
    <3>3d. /\ v.mode = e.mode /\ v.believes = e.believes /\ v.active = e.active /\ v.confirm = e.confirm
           /\ v.flow = e.flow /\ v.held = e.held /\ v.draft = e.draft /\ v.message = e.message
      BY <3>3c DEF UiFields
    <3>4. UiBase(v)
      BY <3>1, <3>3b, <3>3c, <3>3d, LiveAssumption DEF UiBase
    <3>5. v.flow <= FlowMax(v)
      <4>1. FlowMax(v) = 0
        BY <3>3c, FlowMaxIs DEF Away
      <4> QED BY <3>1, <3>3d, <4>1
    <3>6. ~Lists(v) /\ ~Starting(v) /\ v.at \in Places /\ v.at \notin Working
      BY <3>3c DEF Lists, Starting, Places, Away, Working
    <3>7. UiOK(v)
      BY <3>1, <3>3c, <3>3d, <3>4, <3>5, <3>6 DEF UiOK
    <3>8. Expects(v) = 0
      <4>1. Pending(v) = 0
        BY <3>3c DEF Pending
      <4> QED BY <3>1, <3>3d, <4>1 DEF Expects
    <3>9. HooksOK'
      BY <1>4, <3>1, <3>2, <3>3d DEF HooksOK
    <3>10. LinkOK'
      BY <3>2, <3>3c, <3>6 DEF LinkOK
    <3>11. ExpectsOK'
      BY <3>2, <3>8, ConfirmsNothing DEF ExpectsOK
    <3> QED BY <1>3, <3>2, <3>7, <3>9, <3>10, <3>11 DEF IInv
  <2> QED BY <2>1, <2>2, <2>3
<1> QED BY <1>5, <1>9, <1>10

-----------------------------------------------------------------------------
(* The queued inbox.                                                       *)

\* What is known while the inbox is read.
LEMMA StartIs ==
    ASSUME NEW u, UiOK(u), u.at \in {"sync", "drain"}
    PROVE  UiBase(u) /\ u.believes = TRUE /\ u.flow = 0 /\ u.confirm = 0 /\ Expects(u) = 0
<1>1. UiBase(u) /\ u.confirm \in Nat /\ u.flow \in 0 .. 2 /\ u.flow <= FlowMax(u)
  BY UiOKIs DEF UiOK, UiBase
<1>2. FlowMax(u) = 0 /\ Pending(u) = 0
  BY FlowMaxIs DEF Pending
<1>3. u.flow = 0
  BY <1>1, <1>2
<1>4. u.believes = TRUE /\ u.confirm = 0
  BY DEF UiOK, Working, Starting
<1> QED BY <1>1, <1>2, <1>3, <1>4 DEF Expects

\* The inbox is read on.
LEMMA StartsOn ==
    ASSUME NEW v, UiBase(v), v.at \in {"sync", "drain", "idle"}, v.believes = TRUE, v.flow = 0, v.confirm = 0
    PROVE  UiOK(v) /\ Expects(v) = 0
<1>1. v.at \in Places /\ v.at \notin Away /\ v.flow <= FlowMax(v)
  <2>1. FlowMax(v) = 0
    BY FlowMaxIs
  <2>2. v.flow <= FlowMax(v)
    BY <2>1
  <2> QED BY <2>2 DEF Working, Places, Away
<1>2. ~Lists(v)
  BY <1>1 DEF Lists
<1>3. UiOK(v)
  BY <1>1, <1>2 DEF UiOK
<1>4. Pending(v) = 0
  BY DEF Pending
<1> QED BY <1>3, <1>4 DEF Expects

\* Nothing is expected.
LEMMA FreshKeeps ==
    ASSUME StreamOK', UiOK(ui'), HooksOK', LinkOK', Expects(ui') = 0
    PROVE  IInv'
BY ConfirmsNothing DEF IInv, ExpectsOK

\* The command is at its end.
LEMMA EndKeeps ==
    ASSUME StreamOK', UiOK(ui'), HooksOK', ui'.at = "cleanup"
    PROVE  IInv'
BY DEF IInv, ExpectsOK, LinkOK, Listening, Working

\* A connection error is forgiven once.
LEMMA PollFailedStep ==
    ASSUME NEW u, NEW w, UiBase(w), w.believes = u.believes, w.flow = 0, w.confirm = 0, Expects(u) \in Nat
    PROVE  UiStep(u, PollFailed(w)) /\ PollFailed(w).at \in {"cleanup", "unhook"}
<1>1. UiStep(u, Fail(w, "connection"))
  BY FailStep
<1>2. w.confirm + w.flow <= Expects(u)
  OBVIOUS
<1>3. UiStep(u, StartReconnect(w, "poll"))
  BY <1>2, ReconnectStep
<1>4. DOMAIN w = UiFields /\ {"at", "back", "tries", "error"} \subseteq UiFields
  BY DEF UiBase, UiFields
<1>5. Fail(w, "connection").at = "cleanup" /\ StartReconnect(w, "poll").at = "unhook"
  BY <1>4 DEF Fail, StartReconnect
<1> QED BY <1>1, <1>3, <1>5 DEF PollFailed

\* A message of the stream has its type.
LEMMA EvIs ==
    ASSUME NEW kind \in EvKinds, NEW id \in Nat
    PROVE  <<Ev(kind, id)>> \in Seq(Evs) /\ <<Ev(kind, id)>>[1] = Ev(kind, id) /\ Ev(kind, id).kind = kind
           /\ Len(<<Ev(kind, id)>>) = 1 /\ <<Ev(kind, id)>> # <<>>
<1>1. Ev(kind, id) \in Evs /\ Ev(kind, id).kind = kind
  BY DEF Ev, Evs
<1> DEFINE e == Ev(kind, id)
<1> HIDE DEF e
<1>2. e \in Evs => <<e>> \in Seq(Evs) /\ <<e>>[1] = e /\ Len(<<e>>) = 1 /\ <<e>> # <<>>
  OBVIOUS
<1> QED BY <1>1, <1>2 DEF e

\* sync_next_message
LEMMA SyncNextMessageKeeps ==
    ASSUME IInv, SyncNextMessage
    PROVE  IInv'
<1>1. UiOK(ui) /\ ui.at = "sync" /\ StreamOK /\ UNCHANGED <<link, input, tracker, hooked>> /\ ui.at \in Working /\ Listening
  BY DEF IInv, SyncNextMessage, Working, Listening
<1>2. UiBase(ui) /\ ui.believes = TRUE /\ ui.flow = 0 /\ ui.confirm = 0 /\ Expects(ui) = 0 /\ hooked = 1
  <2>1. UiBase(ui) /\ ui.believes = TRUE /\ ui.flow = 0 /\ ui.confirm = 0 /\ Expects(ui) = 0
    BY <1>1, StartIs
  <2> QED BY <1>1, <2>1 DEF IInv, HooksOK
<1>3. ASSUME NEW h \in Nat, ui' = [ui EXCEPT !.at = "drain", !.held = h], link = TRUE, StreamOK'
      PROVE  IInv'
  <2> DEFINE v == [ui EXCEPT !.at = "drain", !.held = h]
  <2>1. ui' = v
    BY <1>3
  <2>2a. DOMAIN ui = UiFields /\ ui = [f \in UiFields |-> ui[f]] /\ {"at", "held"} \subseteq UiFields
    BY <1>2 DEF UiBase, UiFields
  <2>2b. DOMAIN v = UiFields /\ v = [f \in UiFields |-> v[f]]
    BY <2>2a DEF v
  <2>2c. v.at = "drain" /\ v.held = h /\ \A f \in UiFields \ {"at", "held"} : v[f] = ui[f]
    BY <2>2a DEF v
  <2> HIDE DEF v
  <2>2d. /\ v.mode = ui.mode /\ v.believes = ui.believes /\ v.active = ui.active /\ v.confirm = ui.confirm
         /\ v.flow = ui.flow /\ v.tries = ui.tries /\ v.draft = ui.draft /\ v.message = ui.message
    BY <2>2c DEF UiFields
  <2>3. UiBase(v)
    BY <1>2, <2>2b, <2>2c, <2>2d DEF UiBase
  <2>4. UiOK(v) /\ Expects(v) = 0
    BY <1>2, <2>2c, <2>2d, <2>3, StartsOn
  <2>5. HooksOK'
    BY <1>1, <1>2, <2>1, <2>2c, <2>2d DEF HooksOK
  <2>6. LinkOK'
    BY <1>1, <1>3, <2>1, <2>2c DEF LinkOK
  <2> QED BY <1>3, <2>1, <2>4, <2>5, <2>6, FreshKeeps
<1>4. CASE /\ link /\ mail > 0 /\ published < MaxMail
           /\ mail' = mail - 1 /\ published' = published + 1
           /\ Publish(<<Ev("message", published + 1)>>)
           /\ recorded' = Append(recorded, 0)
           /\ ui' = [ui EXCEPT !.at = "drain", !.held = published + 1]
  <2>1. published \in Nat /\ published + 1 \in Nat
    BY <1>1 DEF StreamOK
  <2> DEFINE new == <<Ev("message", published + 1)>>
  <2>2. new \in Seq(Evs)
    BY <2>1, EvIs DEF EvKinds
  <2>3. Publish(new)
    BY <1>4
  <2> HIDE DEF new
  <2>4. events' \in Seq(Evs) /\ Len(events') <= Capacity /\ lagged' \in BOOLEAN
    BY <1>1, <2>2, <2>3, PublishIs
  <2>5. StreamOK'
    BY <1>1, <1>4, <2>1, <2>4 DEF StreamOK
  <2>6. link = TRUE
    BY <1>1, <1>4 DEF StreamOK
  <2> QED BY <1>3, <1>4, <2>1, <2>5, <2>6
<1>5. CASE /\ ui' \in (IF ~link THEN {PollFailed(ui)}
                       ELSE {Fail(ui, "timeout")} \cup
                            (IF mail = 0 THEN {[ui EXCEPT !.at = "drain", !.held = NoMessage]} ELSE {}))
                      \cup (IF interrupt THEN {Fail(ui, "interrupted")} ELSE {})
           /\ UNCHANGED <<events, lagged, everLagged, mail, published, recorded>>
  <2>1. StreamOK'
    BY <1>1, <1>5 DEF StreamOK
  <2>2. \/ ui' \in {PollFailed(ui), Fail(ui, "timeout"), Fail(ui, "interrupted")}
        \/ link = TRUE /\ ui' = [ui EXCEPT !.at = "drain", !.held = 0]
    BY <1>1, <1>5 DEF NoMessage, StreamOK
  <2>3. CASE ui' \in {PollFailed(ui), Fail(ui, "timeout"), Fail(ui, "interrupted")}
    <3>1. UiStep(ui, PollFailed(ui)) /\ UiStep(ui, Fail(ui, "timeout")) /\ UiStep(ui, Fail(ui, "interrupted"))
      BY <1>2, PollFailedStep, FailStep
    <3>2. UiStep(ui, ui')
      BY <2>3, <3>1
    <3> QED BY <1>1, <1>5, <2>1, <3>2, QuietKeeps
  <2>4. CASE link = TRUE /\ ui' = [ui EXCEPT !.at = "drain", !.held = 0]
    BY <1>3, <2>1, <2>4
  <2> QED BY <2>2, <2>3, <2>4
<1> QED BY <1>4, <1>5 DEF SyncNextMessage

\* poll_chat_incoming: an event before the message that was returned.
LEMMA DrainEventKeeps ==
    ASSUME IInv, DrainEvent
    PROVE  IInv'
<1>1. UiOK(ui) /\ ui.at = "drain" /\ StreamOK /\ UNCHANGED <<input, hooked>> /\ Listening /\ (lagged \/ events # <<>>)
  BY DEF IInv, DrainEvent, Listening
<1>2. UiBase(ui) /\ ui.believes = TRUE /\ ui.flow = 0 /\ ui.confirm = 0 /\ Expects(ui) = 0 /\ hooked = 1
  <2>1. UiBase(ui) /\ ui.believes = TRUE /\ ui.flow = 0 /\ ui.confirm = 0 /\ Expects(ui) = 0
    BY <1>1, StartIs
  <2> QED BY <1>1, <2>1 DEF IInv, HooksOK
<1>3. ASSUME NEW e, e # "none", ui' = Fail(ui, e), StreamOK' PROVE IInv'
  <2>1. UiOK(ui') /\ ui'.at = "cleanup" /\ ui'.believes = TRUE
    BY <1>2, <1>3, FailEnds
  <2>2. HooksOK'
    BY <1>1, <1>2, <2>1 DEF HooksOK
  <2> QED BY <1>3, <2>1, <2>2, EndKeeps
<1>4. CASE lagged
  <2>1. ui' = Fail(ui, "protocol") /\ UNCHANGED <<stream, tracker>>
    BY <1>4 DEF DrainEvent
  <2>2. StreamOK'
    BY <1>1, <2>1, StreamStays
  <2> QED BY <1>3, <2>1, <2>2
<1>5. CASE ~lagged
  <2> DEFINE e == Head(events)
  <2>1. /\ PopEvent /\ events # <<>>
        /\ CASE e.kind = "message" -> Incoming(e.id, "live", ui)
             [] e.kind = "error" -> ui' \in {ui, Fail(ui, "hook")} /\ UNCHANGED <<tracker, recorded>>
             [] OTHER -> /\ ui' = [ui EXCEPT !.active = e.kind = "connected"]
                         /\ UNCHANGED <<tracker, recorded>>
    BY <1>1, <1>5 DEF DrainEvent
  <2>2. /\ e.kind \in EvKinds /\ e.id \in Nat /\ events' = Tail(events) /\ link' = link /\ events \in Seq(Evs)
    BY <1>1, <2>1, PopIs DEF StreamOK
  <2> HIDE DEF e
  <2>3. ~link => Lost(events) \/ (~ui.active /\ NoneConnected(events))
    BY <1>1 DEF IInv, LinkOK
  <2>4. tracker \in Seq(Occurrences) /\ Len(tracker) <= TrackerCapacity
    BY <1>1 DEF StreamOK
  <2>5. CASE e.kind \in {"message", "error"}
    <3>1. tracker' \in Seq(Occurrences) /\ Len(tracker') <= TrackerCapacity /\ ui' \in {ui, Fail(ui, "hook"), Fail(ui, "output")}
      <4>1. CASE e.kind = "message"
        <5>1. Incoming(e.id, "live", ui)
          BY <2>1, <4>1
        <5> QED BY <1>1, <2>2, <5>1, IncomingIs
      <4>2. CASE e.kind = "error"
        BY <2>1, <2>4, <4>2
      <4> QED BY <2>5, <4>1, <4>2
    <3>2. StreamOK'
      BY <1>1, <2>1, <3>1, PopStays
    <3>3. CASE ui' = ui
      <4>1. HooksOK'
        BY <1>1, <3>3 DEF IInv, HooksOK
      <4>2. ~link => Lost(Tail(events)) \/ (~ui.active /\ NoneConnected(Tail(events)))
        BY <2>1, <2>2, <2>3, <2>5, LostOn, NoneConnectedOn DEF e
      <4>3. LinkOK'
        BY <1>1, <2>2, <3>3, <4>2 DEF LinkOK, Working
      <4> QED BY <1>1, <1>2, <3>2, <3>3, <4>1, <4>3, FreshKeeps
    <3> QED BY <1>3, <3>1, <3>2, <3>3
  <2>6. CASE e.kind \in {"connected", "disconnected"}
    <3> DEFINE a == e.kind = "connected"
               v == [ui EXCEPT !.active = a]
    <3>1. ui' = v /\ UNCHANGED <<tracker, recorded>>
      BY <2>1, <2>6
    <3>2. a \in BOOLEAN
      OBVIOUS
    <3> HIDE DEF a
    <3>3a. DOMAIN ui = UiFields /\ ui = [f \in UiFields |-> ui[f]] /\ {"active"} \subseteq UiFields
      BY <1>2 DEF UiBase, UiFields
    <3>3b. DOMAIN v = UiFields /\ v = [f \in UiFields |-> v[f]]
      BY <3>3a DEF v
    <3>3c. v.active = a /\ \A f \in UiFields \ {"active"} : v[f] = ui[f]
      BY <3>3a DEF v
    <3> HIDE DEF v
    <3>3d. /\ v.mode = ui.mode /\ v.believes = ui.believes /\ v.confirm = ui.confirm /\ v.flow = ui.flow
           /\ v.held = ui.held /\ v.tries = ui.tries /\ v.draft = ui.draft /\ v.message = ui.message /\ v.at = ui.at
      BY <3>3c DEF UiFields
    <3>4. UiBase(v)
      BY <1>2, <3>2, <3>3b, <3>3c, <3>3d DEF UiBase
    <3>5. UiOK(v) /\ Expects(v) = 0
      BY <1>1, <1>2, <3>3d, <3>4, StartsOn
    <3>6. StreamOK'
      BY <1>1, <2>1, <2>4, <3>1, PopStays
    <3>7. HooksOK'
      BY <1>1, <1>2, <3>1, <3>3d DEF HooksOK
    <3>8. ~link => Lost(Tail(events)) \/ (~v.active /\ NoneConnected(Tail(events)))
      <4> SUFFICES ASSUME ~link PROVE Lost(Tail(events)) \/ (~v.active /\ NoneConnected(Tail(events)))
        OBVIOUS
      <4>1. CASE e.kind = "connected"
        <5>1. Lost(events)
          BY <2>1, <2>2, <2>3, <4>1, NoneConnectedOn DEF e
        <5> QED BY <2>1, <2>2, <4>1, <5>1, LostOn DEF e
      <4>2. CASE e.kind = "disconnected"
        <5>1. a = FALSE
          BY <4>2 DEF a
        <5>2. v.active = FALSE
          BY <3>3c, <5>1
        <5>3. Lost(Tail(events)) \/ NoneConnected(Tail(events))
          BY <2>1, <2>2, <2>3, LostOn, NoneConnectedOn
        <5> QED BY <5>2, <5>3
      <4> QED BY <2>6, <4>1, <4>2
    <3>9. LinkOK'
      BY <1>1, <2>2, <3>1, <3>3d, <3>8 DEF LinkOK, Working
    <3> QED BY <3>1, <3>5, <3>6, <3>7, <3>9, FreshKeeps
  <2> QED BY <2>2, <2>5, <2>6 DEF EvKinds
<1> QED BY <1>4, <1>5

\* poll_chat_incoming ends with the message that was returned.
LEMMA DrainEndKeeps ==
    ASSUME IInv, DrainEnd
    PROVE  IInv'
<1>1. UiOK(ui) /\ ui.at = "drain" /\ StreamOK /\ UNCHANGED <<stream, hooked>> /\ Listening /\ events = <<>>
  BY DEF IInv, DrainEnd, Listening
<1>2. UiBase(ui) /\ ui.believes = TRUE /\ ui.flow = 0 /\ ui.confirm = 0 /\ Expects(ui) = 0 /\ hooked = 1 /\ ui.held \in Nat
  <2>1. UiBase(ui) /\ ui.believes = TRUE /\ ui.flow = 0 /\ ui.confirm = 0 /\ Expects(ui) = 0
    BY <1>1, StartIs
  <2> QED BY <1>1, <2>1 DEF IInv, HooksOK, UiBase
<1> DEFINE fresh == [ui EXCEPT !.held = NoMessage, !.active = TRUE]
           next == IF ~ui.active THEN PollFailed(fresh)
                   ELSE IF ui.held # NoMessage THEN [fresh EXCEPT !.at = "sync"]
                   ELSE [fresh EXCEPT !.at = "idle"]
<1>3. /\ IF ui.held # NoMessage THEN Incoming(ui.held, "queue", next)
         ELSE ui' = next /\ UNCHANGED <<tracker, recorded>>
      /\ input' = input \/ input' = [input EXCEPT !.at = "reading"]
  BY DEF DrainEnd
<1>4. UiBase(fresh) /\ fresh.believes = TRUE /\ fresh.flow = 0 /\ fresh.confirm = 0
  <2>1a. DOMAIN ui = UiFields /\ ui = [f \in UiFields |-> ui[f]] /\ {"held", "active"} \subseteq UiFields
    BY <1>2 DEF UiBase, UiFields
  <2>1b. DOMAIN fresh = UiFields /\ fresh = [f \in UiFields |-> fresh[f]]
    BY <2>1a DEF fresh
  <2>1c. fresh.held = NoMessage /\ fresh.active = TRUE /\ \A f \in UiFields \ {"held", "active"} : fresh[f] = ui[f]
    BY <2>1a DEF fresh
  <2> HIDE DEF fresh
  <2>1d. /\ fresh.mode = ui.mode /\ fresh.believes = ui.believes /\ fresh.confirm = ui.confirm
         /\ fresh.flow = ui.flow /\ fresh.tries = ui.tries /\ fresh.draft = ui.draft /\ fresh.message = ui.message
    BY <2>1c DEF UiFields
  <2>2. UiBase(fresh)
    BY <1>2, <2>1b, <2>1c, <2>1d DEF UiBase, NoMessage
  <2> QED BY <1>2, <2>1d, <2>2
<1>5. ~link => ~ui.active
  <2>1. ~Lost(events)
    <3>1. Len(events) = 0
      BY <1>1
    <3> QED BY <3>1 DEF Lost
  <2> QED BY <1>1, <2>1 DEF IInv, LinkOK
<1> HIDE DEF fresh
<1>6. \/ UiOK(next) /\ next.at \in {"cleanup", "unhook"} /\ next.believes = TRUE /\ (next.at = "unhook" => Expects(next) = 0)
      \/ UiOK(next) /\ next.at \in {"sync", "idle"} /\ next.believes = TRUE /\ Expects(next) = 0 /\ link
  <2>1. CASE ~ui.active
    <3>1. next = PollFailed(fresh)
      BY <2>1
    <3> HIDE DEF next
    <3>2. UiStep(ui, PollFailed(fresh)) /\ PollFailed(fresh).at \in {"cleanup", "unhook"}
      <4>1. Expects(ui) \in Nat
        BY <1>2
      <4>2. fresh.believes = ui.believes
        BY <1>2, <1>4, Zenon
      <4> QED BY <1>4, <4>1, <4>2, PollFailedStep
    <3>3. UiOK(next) /\ next.believes = TRUE /\ (next.at # "cleanup" => Expects(next) <= 0) /\ next.at \in {"cleanup", "unhook"}
      BY <1>2, <3>1, <3>2 DEF UiStep
    <3>4. Expects(next) \in Nat
      BY <3>3, UiOKIs
    <3>5. next.at = "unhook" => Expects(next) = 0
      BY <3>3, <3>4
    <3> QED BY <3>3, <3>5
  <2>2. CASE ui.active
    <3>1. PICK p \in {"sync", "idle"} : next = [fresh EXCEPT !.at = p]
      BY <2>2
    <3> HIDE DEF next
    <3> DEFINE v == [fresh EXCEPT !.at = p]
    <3>2. UiBase(v) /\ v.at = p /\ v.believes = fresh.believes /\ v.confirm = fresh.confirm /\ v.flow = fresh.flow
      BY <1>4, AtIs
    <3> HIDE DEF v
    <3>3. UiOK(v) /\ Expects(v) = 0
      BY <1>4, <3>2, StartsOn
    <3>4. next = v
      BY <3>1 DEF v
    <3> QED BY <1>4, <1>5, <2>2, <3>2, <3>3, <3>4
  <2> QED BY <2>1, <2>2
<1> HIDE DEF next
<1>7. tracker' \in Seq(Occurrences) /\ Len(tracker') <= TrackerCapacity /\ ui' \in {next, Fail(ui, "hook"), Fail(ui, "output")}
  <2>1. CASE ui.held # NoMessage
    <3>1. Incoming(ui.held, "queue", next)
      BY <1>3, <2>1
    <3> QED BY <1>1, <1>2, <3>1, IncomingIs
  <2>2. CASE ui.held = NoMessage
    BY <1>1, <1>3, <2>2 DEF StreamOK
  <2> QED BY <2>1, <2>2
<1>8. StreamOK'
  <2>1. InputOK(input)
    BY <1>1 DEF StreamOK, InputOK
  <2>2. InputOK([input EXCEPT !.at = "reading"])
    BY <2>1, InputAt
  <2>3. InputOK(input')
    BY <1>3, <2>1, <2>2
  <2> QED BY <1>1, <1>7, <2>3 DEF StreamOK, InputOK, stream
<1>9. link' = link
  BY <1>1 DEF stream
<1>10. CASE ui' \in {Fail(ui, "hook"), Fail(ui, "output")}
  <2>1. UiOK(ui') /\ ui'.at = "cleanup" /\ ui'.believes = TRUE
    BY <1>2, <1>10, FailEnds
  <2>2. HooksOK'
    BY <1>1, <1>2, <2>1 DEF HooksOK
  <2> QED BY <1>8, <2>1, <2>2, EndKeeps
<1>11. CASE ui' = next
  <2>1. UiOK(ui') /\ ui'.believes = TRUE /\ ui'.at \in {"cleanup", "unhook", "sync", "idle"}
    BY <1>6, <1>11
  <2>2. HooksOK'
    BY <1>1, <1>2, <2>1 DEF HooksOK
  <2>3. CASE ui'.at = "cleanup"
    BY <1>8, <2>1, <2>2, <2>3, EndKeeps
  <2>4. CASE ui'.at # "cleanup"
    <3>1. Expects(ui') = 0 /\ (ui'.at \in Working => link)
      BY <1>6, <1>11, <2>4 DEF Working
    <3>2. LinkOK'
      BY <1>9, <2>1, <3>1 DEF LinkOK
    <3> QED BY <1>8, <2>1, <2>2, <3>1, <3>2, FreshKeeps
  <2> QED BY <2>3, <2>4
<1> QED BY <1>7, <1>10, <1>11

-----------------------------------------------------------------------------
(* The steps that lose the link or find it.                                *)

\* What is published keeps what is to come, and a Connected event adds one.
LEMMA PublishConfirms ==
    ASSUME StreamOK, NEW new \in Seq(Evs), Publish(new), NEW n \in Nat, ~lagged => Confirms(events, n), ~lagged'
    PROVE  /\ Confirms(events', n)
           /\ new # <<>> /\ new[Len(new)].kind = "connected" => Confirms(events', n + 1)
<1>1. events \in Seq(Evs) /\ Len(events) \in Nat /\ Len(new) \in Nat
  BY DEF StreamOK
<1>2. /\ events' \in Seq(Evs) /\ (lagged => lagged')
      /\ (new # <<>> => events' # <<>> /\ events'[Len(events')] = new[Len(new)])
      /\ Len(events') = Len(events) + Len(new) /\ \A i \in 1 .. Len(events) : events'[i] = events[i]
  BY PublishIs
<1>3. Confirms(events, n)
  BY <1>2
<1>4. Len(events) <= Len(events')
  BY <1>1, <1>2
<1>5. \A q, p \in Seq(Evs) : /\ Confirms(q, n) /\ Len(q) <= Len(p) /\ (\A i \in 1 .. Len(q) : p[i] = q[i])
                             => Confirms(p, n)
  BY ConfirmsStill
<1>6. Confirms(events', n)
  BY <1>1, <1>2, <1>3, <1>4, <1>5
<1>7. ASSUME new # <<>>, new[Len(new)].kind = "connected" PROVE Confirms(events', n + 1)
  <2>1. Len(new) > 0
    BY <1>1, <1>7
  <2>2. Len(events) < Len(events') /\ events'[Len(events')].kind = "connected"
    BY <1>1, <1>2, <1>7, <2>1
  <2>3. \A q, p \in Seq(Evs) : /\ Confirms(q, n) /\ Len(q) < Len(p) /\ (\A i \in 1 .. Len(q) : p[i] = q[i])
                               /\ p[Len(p)].kind = "connected"
                               => Confirms(p, n + 1)
    BY ConfirmsMore
  <2> QED BY <1>1, <1>2, <1>3, <2>2, <2>3
<1> QED BY <1>6, <1>7

\* mark_disconnected
LEMMA DroppedIs ==
    ASSUME link \in BOOLEAN
    PROVE  /\ Dropped \in Seq(Evs) /\ \A e \in Evs : Dropped \o <<e>> \in Seq(Evs) /\ Dropped \o <<e>> # <<>>
                                        /\ (Dropped \o <<e>>)[Len(Dropped \o <<e>>)] = e
           /\ link => Dropped # <<>> /\ Dropped[Len(Dropped)].kind = "disconnected"
<1>1. <<Ev("disconnected", 0)>> \in Seq(Evs) /\ <<Ev("disconnected", 0)>>[1].kind = "disconnected"
      /\ Len(<<Ev("disconnected", 0)>>) = 1 /\ <<Ev("disconnected", 0)>> # <<>>
  BY EvIs DEF EvKinds
<1>2. <<>> \in Seq(Evs)
  OBVIOUS
<1>3. Dropped = <<Ev("disconnected", 0)>> \/ Dropped = <<>>
  BY DEF Dropped
<1>4. link => Dropped = <<Ev("disconnected", 0)>>
  BY DEF Dropped
<1>5. Dropped \in Seq(Evs)
  BY <1>1, <1>2, <1>3
<1>6. \A d \in Seq(Evs) : \A e \in Evs : d \o <<e>> \in Seq(Evs) /\ d \o <<e>> # <<>> /\ (d \o <<e>>)[Len(d \o <<e>>)] = e
  OBVIOUS
<1>7. \A e \in Evs : Dropped \o <<e>> \in Seq(Evs) /\ Dropped \o <<e>> # <<>> /\ (Dropped \o <<e>>)[Len(Dropped \o <<e>>)] = e
  BY <1>5, <1>6
<1>8. link => Dropped # <<>> /\ Dropped[Len(Dropped)].kind = "disconnected"
  BY <1>1, <1>4
<1> QED BY <1>5, <1>7, <1>8

\* The stream is as it should be after a publication.
LEMMA PublishStays ==
    ASSUME StreamOK, NEW new \in Seq(Evs), Publish(new), link' \in BOOLEAN, published' \in Nat, UNCHANGED <<input, tracker>>
    PROVE  StreamOK'
BY PublishIs DEF StreamOK

\* The link goes while the command does something.
LEMMA LoseLinkKeeps ==
    ASSUME IInv, LoseLink
    PROVE  IInv'
<1>1. /\ StreamOK /\ UiOK(ui) /\ link = TRUE /\ Listening /\ ui.at # "connect" /\ link' = FALSE /\ Publish(Dropped)
      /\ UNCHANGED <<published, ui, input, tracker, hooked>>
  BY DEF IInv, LoseLink, StreamOK
<1>2. Dropped \in Seq(Evs) /\ Dropped # <<>> /\ Dropped[Len(Dropped)].kind = "disconnected"
  BY <1>1, DroppedIs
<1>3. StreamOK'
  BY <1>1, <1>2, PublishStays DEF StreamOK
<1>4. HooksOK'
  BY <1>1 DEF IInv, HooksOK
<1>5. Lost(events')
  <2>1. events' \in Seq(Evs) /\ events' # <<>> /\ events'[Len(events')].kind = "disconnected"
    BY <1>1, <1>2, PublishIs
  <2>2. \A q \in Seq(Evs) : q # <<>> => Len(q) \in 1 .. Len(q) /\ \A j \in 1 .. Len(q) : ~(j > Len(q))
    OBVIOUS
  <2> QED BY <2>1, <2>2 DEF Lost
<1>6. LinkOK'
  BY <1>1, <1>5 DEF LinkOK, Listening
<1>7. ExpectsOK'
  <2> SUFFICES ASSUME ~lagged' PROVE Confirms(events', Expects(ui))
    BY <1>1 DEF ExpectsOK
  <2>1. Expects(ui) \in Nat /\ (~lagged => Confirms(events, Expects(ui)))
    BY <1>1, UiOKIs DEF IInv, ExpectsOK
  <2> QED BY <1>1, <1>2, <2>1, PublishConfirms
<1> QED BY <1>1, <1>3, <1>4, <1>6, <1>7 DEF IInv

\* An event arrives that nobody asked for.
LEMMA ArriveKeeps ==
    ASSUME IInv, Arrive
    PROVE  IInv'
<1>1. /\ StreamOK /\ UiOK(ui) /\ link = TRUE /\ Listening /\ ui.at # "connect" /\ published' = published + 1
      /\ UNCHANGED <<link, ui, input, tracker, hooked>> /\ published \in Nat
  BY DEF IInv, Arrive, StreamOK
<1>2. PICK kind \in {"message", "error"} : Publish(<<Ev(kind, published + 1)>>)
  BY DEF Arrive
<1> DEFINE new == <<Ev(kind, published + 1)>>
<1>3. kind \in EvKinds /\ published + 1 \in Nat
  BY <1>1 DEF EvKinds
<1>4. new \in Seq(Evs)
  BY <1>3, EvIs
<1>5. Publish(new)
  BY <1>2
<1> HIDE DEF new
<1>6. StreamOK'
  BY <1>1, <1>3, <1>4, <1>5, PublishStays DEF StreamOK
<1>7. HooksOK'
  BY <1>1 DEF IInv, HooksOK
<1>8. LinkOK'
  BY <1>1 DEF LinkOK, Listening
<1>9. ExpectsOK'
  <2> SUFFICES ASSUME ~lagged' PROVE Confirms(events', Expects(ui))
    BY <1>1 DEF ExpectsOK
  <2>1. Expects(ui) \in Nat /\ (~lagged => Confirms(events, Expects(ui)))
    BY <1>1, UiOKIs DEF IInv, ExpectsOK
  <2> QED BY <1>4, <1>5, <1>1, <2>1, PublishConfirms
<1> QED BY <1>1, <1>6, <1>7, <1>8, <1>9 DEF IInv

\* The link goes during a send, or was gone before.
LEMMA SendLosesLinkKeeps ==
    ASSUME IInv, SendLosesLink
    PROVE  IInv'
<1>1. /\ StreamOK /\ UiOK(ui) /\ ui.at = "send" /\ ui.at \in Working /\ link' = FALSE /\ Publish(Dropped) /\ Listening
      /\ UNCHANGED <<published, input, tracker, hooked>> /\ link \in BOOLEAN /\ published \in Nat
  BY DEF IInv, SendLosesLink, StreamOK, Working, Listening
<1>2. /\ UiBase(ui) /\ ui.believes = TRUE /\ ui.flow <= 1 /\ ui.confirm + ui.flow <= Expects(ui) /\ Expects(ui) \in Nat
      /\ hooked = 1
  <2>1. UiBase(ui) /\ ui.believes = TRUE /\ ui.flow <= 1 /\ ui.confirm + ui.flow <= Expects(ui) /\ Expects(ui) \in Nat
    BY <1>1, WorkingIs
  <2> QED BY <1>1, <2>1 DEF IInv, HooksOK
<1>3. Dropped \in Seq(Evs)
  BY <1>1, DroppedIs
<1>4. StreamOK'
  BY <1>1, <1>3, PublishStays
<1>5. PICK u \in Mark(ui, "failed") : ui' = Fail(u, "interrupted") \/ ui' = StartReconnect(u, "retain")
  BY DEF SendLosesLink
<1>6. UiBase(u) /\ u.believes = TRUE /\ u.confirm = ui.confirm /\ u.flow = ui.flow
  <2>1. Alike(ui, u)
    BY <1>2, MarkIs
  <2> QED BY <1>2, <2>1 DEF Alike
<1>7. CASE ui' = Fail(u, "interrupted")
  <2>1. UiOK(ui') /\ ui'.at = "cleanup" /\ ui'.believes = TRUE
    BY <1>6, <1>7, FailEnds
  <2>2. HooksOK'
    BY <1>1, <1>2, <2>1 DEF HooksOK
  <2> QED BY <1>4, <2>1, <2>2, EndKeeps
<1>8. CASE ui' = StartReconnect(u, "retain")
  <2>1. UiStep(ui, StartReconnect(u, "retain"))
    BY <1>2, <1>6, ReconnectStep
  <2>2. ui'.at = "unhook"
    <3>1. "at" \in DOMAIN u
      BY <1>6 DEF UiBase, UiFields
    <3> QED BY <1>8, <3>1 DEF StartReconnect
  <2>3. UiOK(ui') /\ ui'.believes = TRUE /\ Expects(ui') <= Expects(ui)
    BY <1>2, <1>8, <2>1, <2>2 DEF UiStep
  <2>4. HooksOK'
    BY <1>1, <1>2, <2>2, <2>3 DEF HooksOK
  <2>5. LinkOK'
    BY <2>2 DEF LinkOK, Working
  <2>6. ExpectsOK'
    <3> SUFFICES ASSUME ~lagged' PROVE Confirms(events', Expects(ui'))
      BY DEF ExpectsOK
    <3>1. ~lagged => Confirms(events, Expects(ui))
      BY <1>1 DEF IInv, ExpectsOK
    <3>2. Confirms(events', Expects(ui))
      BY <1>1, <1>2, <1>3, <3>1, PublishConfirms
    <3>3. Expects(ui') \in Nat
      <4>1. \A x : UiOK(x) => Expects(x) \in Nat
        BY UiOKIs
      <4> QED BY <2>3, <4>1
    <3>4. \A q : \A n, m \in Nat : m <= n /\ Confirms(q, n) => Confirms(q, m)
      BY ConfirmsLess
    <3> QED BY <1>2, <2>3, <3>2, <3>3, <3>4
  <2> QED BY <1>4, <2>3, <2>4, <2>5, <2>6 DEF IInv
<1> QED BY <1>5, <1>7, <1>8

\* A reconnect goes on.
LEMMA AwayOn ==
    ASSUME NEW u, UiOK(u), u.at \in Away, u.back # "start", NEW v, UiBase(v), v.at \in Away, v.back = u.back,
           v.purpose = u.purpose, v.confirm = u.confirm, v.flow = u.flow,
           v.at = "resume" => v.believes = TRUE, v.at \in {"attempt", "activate"} => v.believes = FALSE
    PROVE  UiOK(v)
<1>1. FlowMax(v) = FlowMax(u)
  BY FlowMaxIs
<1>2. v.flow <= FlowMax(v)
  BY <1>1 DEF UiOK
<1>3. v.at \in Places /\ v.at \notin {"connect", "sync", "drain", "list", "cleanup"}
  BY DEF Away, Places
<1>4. (Lists(v) => Lists(u)) /\ (Starting(v) => Starting(u))
  BY <1>3 DEF Lists, Starting
<1>5. v.at \in Working \cup {"drain"} => v.believes = TRUE
  BY DEF Away, Working
<1> QED BY <1>2, <1>3, <1>4, <1>5 DEF UiOK

\* client.connect
LEMMA ConnectKeeps ==
    ASSUME IInv, Connect
    PROVE  IInv'
<1>1. /\ StreamOK /\ UiOK(ui) /\ ui.at = "connect" /\ UNCHANGED <<published, input, tracker, hooked>> /\ link = FALSE
      /\ published \in Nat /\ ui.back = "start" /\ ui.believes = FALSE
  BY DEF IInv, Connect, StreamOK, LinkOK, UiOK
<1>2. UiBase(ui) /\ hooked = 0 /\ ui.confirm = 0 /\ ui.purpose \in {"target", "contacts", "to", "message"}
  <2>1. Starting(ui) /\ Lists(ui)
    BY <1>1 DEF Starting, Lists
  <2> QED BY <1>1, <2>1 DEF IInv, HooksOK, UiOK
<1>3. ui.flow = 0
  <2>1. FlowMax(ui) = 0 /\ ui.flow \in 0 .. 2
    BY <1>1, <1>2, FlowMaxIs DEF UiBase
  <2> QED BY <1>1, <2>1 DEF UiOK
<1>4. CASE link' = TRUE /\ Publish(<<Ev("connected", 0)>>) /\ ui' = [ui EXCEPT !.at = "activate"]
  <2> DEFINE v == [ui EXCEPT !.at = "activate"]
             new == <<Ev("connected", 0)>>
  <2>1. new \in Seq(Evs)
    BY EvIs DEF EvKinds
  <2>2. Publish(new)
    BY <1>4
  <2> HIDE DEF new
  <2>3. StreamOK'
    BY <1>1, <1>4, <2>1, <2>2, PublishStays
  <2>4. /\ UiBase(v) /\ v.at = "activate" /\ v.back = ui.back /\ v.purpose = ui.purpose /\ v.believes = ui.believes
        /\ v.confirm = ui.confirm /\ v.flow = ui.flow
    BY <1>2, AtIs
  <2>5. ui' = v
    BY <1>4
  <2> HIDE DEF v
  <2>6. v.at \in Places /\ v.at \notin Working /\ v.flow <= FlowMax(v)
    <3>1. FlowMax(v) = 0
      BY <1>1, <2>4, FlowMaxIs DEF Away
    <3>2. v.flow <= FlowMax(v)
      BY <1>3, <2>4, <3>1
    <3> QED BY <2>4, <3>2 DEF Places, Away, Working
  <2>7. UiOK(v)
    BY <1>1, <1>2, <2>4, <2>6 DEF UiOK
  <2>8. Expects(v) = 0
    <3>1. Pending(v) = 0
      BY <1>1, <2>4 DEF Pending
    <3> QED BY <1>2, <1>3, <2>4, <3>1 DEF Expects
  <2>9. HooksOK'
    BY <1>1, <1>2, <2>4, <2>5 DEF HooksOK
  <2>10. LinkOK'
    BY <1>4, <2>4, <2>5 DEF LinkOK
  <2> QED BY <2>3, <2>5, <2>7, <2>8, <2>9, <2>10, FreshKeeps
<1>5. CASE ui' = [ui EXCEPT !.at = "exit", !.error = IF interrupt THEN "interrupted" ELSE "failed"] /\ UNCHANGED <<link, events, lagged>>
  <2> DEFINE e == IF interrupt THEN "interrupted" ELSE "failed"
             v == [ui EXCEPT !.at = "exit", !.error = e]
  <2>1. ui' = v
    BY <1>5
  <2> HIDE DEF e
  <2>2a. DOMAIN ui = UiFields /\ ui = [f \in UiFields |-> ui[f]] /\ {"at", "error"} \subseteq UiFields
    BY <1>2 DEF UiBase, UiFields
  <2>2b. DOMAIN v = UiFields /\ v = [f \in UiFields |-> v[f]]
    BY <2>2a DEF v
  <2>2c. v.at = "exit" /\ v.error = e /\ \A f \in UiFields \ {"at", "error"} : v[f] = ui[f]
    BY <2>2a DEF v
  <2> HIDE DEF v
  <2>2d. /\ v.mode = ui.mode /\ v.believes = ui.believes /\ v.active = ui.active /\ v.confirm = ui.confirm
         /\ v.flow = ui.flow /\ v.held = ui.held /\ v.tries = ui.tries /\ v.draft = ui.draft
         /\ v.message = ui.message
    BY <2>2c DEF UiFields
  <2>3. UiBase(v)
    BY <1>2, <2>2b, <2>2d DEF UiBase
  <2>4. UiOK(v)
    <3>1. v.at \in Places /\ v.at \notin Away /\ v.at \notin Working
      BY <2>2c DEF Places, Away, Working
    <3>2. FlowMax(v) = 2
      BY <2>2c, FlowMaxIs
    <3>3. v.flow <= FlowMax(v)
      BY <1>3, <2>2d, <3>2
    <3>4. ~Starting(v) /\ ~Lists(v)
      BY <2>2c, <3>1 DEF Starting, Lists
    <3> QED BY <2>2c, <2>3, <3>1, <3>3, <3>4 DEF UiOK
  <2>5. StreamOK'
    BY <1>1, <1>5 DEF StreamOK
  <2>6. HooksOK'
    BY <1>1, <1>2, <2>1, <2>2c DEF HooksOK
  <2>7. LinkOK'
    BY <1>1, <1>5, <2>1, <2>2c DEF LinkOK, Working
  <2>8. ExpectsOK'
    BY <2>1, <2>2c DEF ExpectsOK, Listening
  <2> QED BY <2>1, <2>4, <2>5, <2>6, <2>7, <2>8 DEF IInv
<1> QED BY <1>4, <1>5 DEF Connect

\* activate_workflow
LEMMA ActivateKeeps ==
    ASSUME IInv, Activate
    PROVE  IInv'
<1>1. /\ StreamOK /\ UiOK(ui) /\ ui.at = "activate" /\ UNCHANGED <<stream, input>> /\ tracker' = <<>> /\ ui.believes = FALSE
      /\ Listening
  BY DEF IInv, Activate, UiOK, Listening
<1>2. UiBase(ui) /\ hooked = 0 /\ Expects(ui) \in Nat
  BY <1>1, UiOKIs DEF IInv, HooksOK
<1>3. StreamOK' /\ UNCHANGED <<link, events, lagged>>
  <2>1. <<>> \in Seq(Occurrences)
    OBVIOUS
  <2>2. Len(<<>>) <= TrackerCapacity
    BY LiveAssumption
  <2>3. tracker' \in Seq(Occurrences) /\ Len(tracker') <= TrackerCapacity
    BY <1>1, <2>1, <2>2
  <2> QED BY <1>1, <2>3 DEF StreamOK, stream
<1>4. ~link => Lost(events)
  BY <1>1 DEF IInv, LinkOK
<1>5. ~lagged => Confirms(events, Expects(ui))
  BY <1>1 DEF IInv, ExpectsOK
<1>6. CASE hooked' = hooked /\ ui' = ActivateFails(ui)
  <2> DEFINE w == [ui EXCEPT !.believes = FALSE]
  <2>1. ui' = Fail(w, "hook")
    BY <1>6 DEF ActivateFails
  <2>2a. DOMAIN ui = UiFields /\ ui = [f \in UiFields |-> ui[f]] /\ {"believes"} \subseteq UiFields
    BY <1>2 DEF UiBase, UiFields
  <2>2b. DOMAIN w = UiFields /\ w = [f \in UiFields |-> w[f]]
    BY <2>2a DEF w
  <2>2c. w.believes = FALSE /\ \A f \in UiFields \ {"believes"} : w[f] = ui[f]
    BY <2>2a DEF w
  <2> HIDE DEF w
  <2>2d. /\ w.mode = ui.mode /\ w.active = ui.active /\ w.confirm = ui.confirm /\ w.flow = ui.flow
         /\ w.held = ui.held /\ w.tries = ui.tries /\ w.draft = ui.draft /\ w.message = ui.message
    BY <2>2c DEF UiFields
  <2>3. UiBase(w)
    BY <1>2, <2>2b, <2>2c, <2>2d DEF UiBase
  <2>4. UiOK(ui') /\ ui'.at = "cleanup" /\ ui'.believes = FALSE
    BY <2>1, <2>2c, <2>3, FailEnds
  <2>5. HooksOK'
    BY <1>2, <1>6, <2>4 DEF HooksOK
  <2> QED BY <1>3, <2>4, <2>5, EndKeeps
<1>7. CASE hooked' = hooked + 1 /\ ui' = Resume(ui) /\ ui.back = "start"
  <2> DEFINE p == IF ui.mode = "watch" THEN "idle" ELSE IF ui.target = "channel" THEN "sync" ELSE "list"
             v == [ui EXCEPT !.at = p, !.believes = TRUE, !.back = "none"]
  <2>1. ui' = v /\ p \in {"idle", "sync", "list"}
    BY <1>7 DEF Resume
  <2> HIDE DEF p
  <2>2a. DOMAIN ui = UiFields /\ ui = [f \in UiFields |-> ui[f]] /\ {"at", "believes", "back"} \subseteq UiFields
    BY <1>2 DEF UiBase, UiFields
  <2>2b. DOMAIN v = UiFields /\ v = [f \in UiFields |-> v[f]]
    BY <2>2a DEF v
  <2>2c. v.at = p /\ v.believes = TRUE /\ v.back = "none" /\ \A f \in UiFields \ {"at", "believes", "back"} : v[f] = ui[f]
    BY <2>2a DEF v
  <2> HIDE DEF v
  <2>2d. /\ v.mode = ui.mode /\ v.active = ui.active /\ v.confirm = ui.confirm /\ v.flow = ui.flow
         /\ v.held = ui.held /\ v.tries = ui.tries /\ v.draft = ui.draft /\ v.message = ui.message
         /\ v.purpose = ui.purpose
    BY <2>2c DEF UiFields
  <2>3. UiBase(v)
    BY <1>2, <2>2b, <2>2c, <2>2d DEF UiBase
  <2>4. ui.confirm = 0 /\ ui.purpose \in {"target", "contacts", "to", "message"}
    <3>1. Starting(ui) /\ Lists(ui)
      BY <1>1, <1>7 DEF Starting, Lists
    <3> QED BY <1>1, <3>1 DEF UiOK
  <2>5. ui.flow = 0
    <3>1. FlowMax(ui) = 0 /\ ui.flow \in 0 .. 2
      BY <1>1, <1>2, <1>7, FlowMaxIs DEF UiBase, Away
    <3> QED BY <1>1, <3>1 DEF UiOK
  <2>6. v.at \in Working /\ v.at \in Places /\ v.at \notin Away /\ v.at \notin {"connect", "attempt", "activate", "cleanup"}
    BY <2>1, <2>2c DEF Working, Places, Away
  <2>7. v.flow <= FlowMax(v)
    <3>1. FlowMax(v) = 0
      BY <2>1, <2>2c, FlowMaxIs
    <3> QED BY <2>2d, <2>5, <3>1
  <2>8. UiOK(v)
    BY <2>2c, <2>2d, <2>3, <2>4, <2>6, <2>7 DEF UiOK
  <2>9. Expects(v) = 0
    <3>1. Pending(v) = 0
      BY <2>1, <2>2c DEF Pending
    <3> QED BY <2>2d, <2>4, <2>5, <3>1 DEF Expects
  <2>10. HooksOK'
    BY <1>2, <1>7, <2>1, <2>2c, <2>6 DEF HooksOK, Places
  <2>11. LinkOK'
    BY <1>3, <1>4, <2>1, <2>2c, <2>6 DEF LinkOK
  <2> QED BY <1>3, <2>1, <2>8, <2>9, <2>10, <2>11, FreshKeeps
<1>8. CASE hooked' = hooked + 1 /\ ui' = Resume(ui) /\ ui.back # "start"
  <2> DEFINE v == [ui EXCEPT !.at = "resume", !.believes = TRUE]
  <2>1. ui' = v
    BY <1>8 DEF Resume
  <2>2a. DOMAIN ui = UiFields /\ ui = [f \in UiFields |-> ui[f]] /\ {"at", "believes"} \subseteq UiFields
    BY <1>2 DEF UiBase, UiFields
  <2>2b. DOMAIN v = UiFields /\ v = [f \in UiFields |-> v[f]]
    BY <2>2a DEF v
  <2>2c. v.at = "resume" /\ v.believes = TRUE /\ \A f \in UiFields \ {"at", "believes"} : v[f] = ui[f]
    BY <2>2a DEF v
  <2> HIDE DEF v
  <2>2d. /\ v.mode = ui.mode /\ v.active = ui.active /\ v.confirm = ui.confirm /\ v.flow = ui.flow
         /\ v.held = ui.held /\ v.tries = ui.tries /\ v.draft = ui.draft /\ v.message = ui.message
         /\ v.purpose = ui.purpose /\ v.back = ui.back
    BY <2>2c DEF UiFields
  <2>3. UiBase(v)
    BY <1>2, <2>2b, <2>2c, <2>2d DEF UiBase
  <2>4. v.at \in Away /\ ui.at \in Away
    BY <1>1, <2>2c DEF Away
  <2>5. UiOK(v)
    BY <1>1, <1>8, <2>2c, <2>2d, <2>3, <2>4, AwayOn
  <2>6. Expects(v) = Expects(ui)
    <3>1. Pending(v) = Pending(ui)
      BY <1>1, <2>2c, <2>2d DEF Pending
    <3> QED BY <2>2d, <3>1 DEF Expects
  <2>7. HooksOK'
    BY <1>2, <1>8, <2>1, <2>2c DEF HooksOK
  <2>8. LinkOK'
    BY <1>3, <1>4, <2>1, <2>2c DEF LinkOK
  <2>9. ExpectsOK'
    BY <1>3, <1>5, <2>1, <2>6 DEF ExpectsOK
  <2> QED BY <1>3, <2>1, <2>5, <2>7, <2>8, <2>9 DEF IInv
<1> QED BY <1>6, <1>7, <1>8 DEF Activate

\* finish_workflow and cleanup_chat_workflow
LEMMA CleanupKeeps ==
    ASSUME IInv, Cleanup
    PROVE  IInv'
<1>1. /\ StreamOK /\ UiOK(ui) /\ ui.at = "cleanup" /\ hooked' = hooked - CleanupHooks(ui) /\ UNCHANGED <<published, input>>
      /\ link' = FALSE /\ events' = <<>> /\ lagged' = FALSE /\ tracker' = <<>>
  BY DEF IInv, Cleanup
<1>2. UiBase(ui) /\ ui.believes \in BOOLEAN
  BY <1>1, UiOKIs DEF UiBase
<1>3. hooked' = 0
  <2>1. CASE ui.believes = TRUE
    <3>1. hooked = 1 /\ CleanupHooks(ui) = 1
      BY <1>1, <2>1 DEF IInv, HooksOK, CleanupHooks
    <3> QED BY <1>1, <3>1
  <2>2. CASE ui.believes = FALSE
    <3>1. ~(ui.error = "none" /\ ui.mode = "chat")
      BY <1>1, <2>2 DEF UiOK
    <3>2. hooked = 0 /\ CleanupHooks(ui) = 0
      BY <1>1, <2>2, <3>1 DEF IInv, HooksOK, CleanupHooks
    <3> QED BY <1>1, <3>2
  <2> QED BY <1>2, <2>1, <2>2
<1>4. StreamOK'
  <2>1. <<>> \in Seq(Occurrences) /\ <<>> \in Seq(Evs) /\ Len(<<>>) = 0
    OBVIOUS
  <2>2. Len(<<>>) <= TrackerCapacity /\ Len(<<>>) <= Capacity
    BY <2>1, LiveAssumption
  <2>3. tracker' \in Seq(Occurrences) /\ Len(tracker') <= TrackerCapacity /\ events' \in Seq(Evs) /\ Len(events') <= Capacity
    BY <1>1, <2>1, <2>2
  <2> QED BY <1>1, <2>3 DEF StreamOK
<1>5. PICK e : ui' = [ui EXCEPT !.at = "exit", !.error = e]
  <2>1. ui' = [ui EXCEPT !.at = "exit"] \/ ui' = [ui EXCEPT !.at = "exit", !.error = "failed"]
    BY DEF Cleanup
  <2>2. [ui EXCEPT !.at = "exit"] = [ui EXCEPT !.at = "exit", !.error = ui.error]
    BY <1>2 DEF UiBase, UiFields
  <2> QED BY <2>1, <2>2
<1> DEFINE v == [ui EXCEPT !.at = "exit", !.error = e]
<1>6. ui' = v
  BY <1>5
<1>7a. DOMAIN ui = UiFields /\ ui = [f \in UiFields |-> ui[f]] /\ {"at", "error"} \subseteq UiFields
  BY <1>2 DEF UiBase, UiFields
<1>7b. DOMAIN v = UiFields /\ v = [f \in UiFields |-> v[f]]
  BY <1>7a DEF v
<1>7c. v.at = "exit" /\ v.error = e /\ \A f \in UiFields \ {"at", "error"} : v[f] = ui[f]
  BY <1>7a DEF v
<1> HIDE DEF v
<1>7d. /\ v.mode = ui.mode /\ v.believes = ui.believes /\ v.active = ui.active /\ v.confirm = ui.confirm
       /\ v.flow = ui.flow /\ v.held = ui.held /\ v.tries = ui.tries /\ v.draft = ui.draft
       /\ v.message = ui.message
  BY <1>7c DEF UiFields
<1>8. UiBase(v)
  BY <1>2, <1>7b, <1>7d DEF UiBase
<1>9. UiOK(v)
  <2>1. v.at \in Places /\ v.at \notin Away /\ v.at \notin Working
    BY <1>7c DEF Places, Away, Working
  <2>2. FlowMax(v) = 2 /\ v.flow \in 0 .. 2
    BY <1>7c, <1>8, FlowMaxIs DEF UiBase
  <2>3. v.flow <= FlowMax(v)
    BY <2>2
  <2>4. ~Starting(v) /\ ~Lists(v)
    BY <1>7c, <2>1 DEF Starting, Lists
  <2> QED BY <1>7c, <1>8, <2>1, <2>3, <2>4 DEF UiOK
<1>10. HooksOK'
  BY <1>3, <1>6, <1>7c DEF HooksOK
<1>11. LinkOK'
  BY <1>1, <1>6, <1>7c DEF LinkOK, Working
<1>12. ExpectsOK'
  BY <1>6, <1>7c DEF ExpectsOK, Listening
<1> QED BY <1>4, <1>6, <1>9, <1>10, <1>11, <1>12 DEF IInv

\* The session is taken back before a reconnect.
LEMMA UnhookKeeps ==
    ASSUME IInv, Unhook
    PROVE  IInv'
<1>1. /\ StreamOK /\ UiOK(ui) /\ ui.at = "unhook" /\ UNCHANGED <<stream, input, tracker>> /\ Listening
      /\ hooked' = hooked - (IF ui.believes THEN 1 ELSE 0)
  BY DEF IInv, Unhook, Listening
<1>2. UiBase(ui) /\ ui.believes \in BOOLEAN /\ Expects(ui) \in Nat /\ ui.at \in Away /\ ui.back # "start"
  BY <1>1, UiOKIs DEF UiBase, UiOK, Away
<1>3. hooked' = 0
  <2>1. CASE ui.believes = TRUE
    BY <1>1, <2>1 DEF IInv, HooksOK
  <2>2. CASE ui.believes = FALSE
    BY <1>1, <2>2 DEF IInv, HooksOK
  <2> QED BY <1>2, <2>1, <2>2
<1>4. StreamOK' /\ UNCHANGED <<link, events, lagged>>
  BY <1>1, StreamStays
<1> DEFINE w == [ui EXCEPT !.believes = FALSE]
<1>5. ui' = [w EXCEPT !.at = "attempt"] \/ ui' = Fail(w, "hook")
  BY DEF Unhook
<1>6a. DOMAIN ui = UiFields /\ ui = [f \in UiFields |-> ui[f]] /\ {"believes"} \subseteq UiFields
  BY <1>2 DEF UiBase, UiFields
<1>6b. DOMAIN w = UiFields /\ w = [f \in UiFields |-> w[f]]
  BY <1>6a DEF w
<1>6c. w.believes = FALSE /\ \A f \in UiFields \ {"believes"} : w[f] = ui[f]
  BY <1>6a DEF w
<1> HIDE DEF w
<1>6d. /\ w.mode = ui.mode /\ w.active = ui.active /\ w.confirm = ui.confirm /\ w.flow = ui.flow
       /\ w.held = ui.held /\ w.tries = ui.tries /\ w.draft = ui.draft /\ w.message = ui.message /\ w.at = ui.at
       /\ w.back = ui.back /\ w.purpose = ui.purpose
  BY <1>6c DEF UiFields
<1>7. UiBase(w)
  BY <1>2, <1>6b, <1>6c, <1>6d DEF UiBase
<1>8. CASE ui' = Fail(w, "hook")
  <2>1. UiOK(ui') /\ ui'.at = "cleanup" /\ ui'.believes = FALSE
    BY <1>6c, <1>7, <1>8, FailEnds
  <2>2. HooksOK'
    BY <1>3, <2>1 DEF HooksOK
  <2> QED BY <1>4, <2>1, <2>2, EndKeeps
<1>9. CASE ui' = [w EXCEPT !.at = "attempt"]
  <2> DEFINE v == [w EXCEPT !.at = "attempt"]
  <2>1. ui' = v
    BY <1>9
  <2>2. /\ UiBase(v) /\ v.at = "attempt" /\ v.believes = w.believes /\ v.confirm = w.confirm /\ v.flow = w.flow
        /\ v.back = w.back /\ v.purpose = w.purpose
    BY <1>7, AtIs
  <2> HIDE DEF v
  <2>3. v.at \in Away /\ v.believes = FALSE /\ v.confirm = ui.confirm /\ v.flow = ui.flow /\ v.back = ui.back /\ v.purpose = ui.purpose
    BY <1>6c, <1>6d, <2>2 DEF Away
  <2>4. UiOK(v)
    BY <1>1, <1>2, <2>2, <2>3, AwayOn
  <2>5. Expects(v) = Expects(ui)
    <3>1. Pending(v) = 0 /\ Pending(ui) = 0
      BY <1>1, <2>2 DEF Pending
    <3> QED BY <2>3, <3>1 DEF Expects
  <2>6. HooksOK'
    BY <1>3, <2>1, <2>3 DEF HooksOK
  <2>7. LinkOK'
    BY <2>1, <2>2 DEF LinkOK, Working
  <2>8. ExpectsOK'
    BY <1>1, <1>4, <2>1, <2>5 DEF IInv, ExpectsOK
  <2> QED BY <1>4, <2>1, <2>4, <2>6, <2>7, <2>8 DEF IInv
<1> QED BY <1>5, <1>8, <1>9

\* The token is cancelled during an attempt.
LEMMA AttemptInterruptedKeeps ==
    ASSUME IInv, AttemptInterrupted
    PROVE  IInv'
<1>1. /\ StreamOK /\ UiOK(ui) /\ ui.at = "attempt" /\ UNCHANGED <<published, input, tracker, hooked>> /\ link' = FALSE
      /\ Publish(Dropped) /\ ui' = Fail(ui, "interrupted") /\ link \in BOOLEAN /\ published \in Nat
  BY DEF IInv, AttemptInterrupted, StreamOK
<1>2. UiBase(ui) /\ ui.believes = FALSE /\ hooked = 0
  BY <1>1, UiOKIs DEF UiOK, IInv, HooksOK
<1>3. StreamOK'
  BY <1>1, DroppedIs, PublishStays
<1>4. UiOK(ui') /\ ui'.at = "cleanup" /\ ui'.believes = FALSE
  BY <1>1, <1>2, FailEnds
<1>5. HooksOK'
  BY <1>1, <1>2, <1>4 DEF HooksOK
<1> QED BY <1>3, <1>4, <1>5, EndKeeps

\* One call of Client::reconnect.
LEMMA AttemptKeeps ==
    ASSUME IInv, Attempt
    PROVE  IInv'
<1>1. /\ StreamOK /\ UiOK(ui) /\ ui.at = "attempt" /\ UNCHANGED <<published, input, tracker, hooked>>
      /\ link \in BOOLEAN /\ published \in Nat /\ Listening
  BY DEF IInv, Attempt, StreamOK, Listening
<1>2. UiBase(ui) /\ ui.believes = FALSE /\ hooked = 0 /\ Expects(ui) \in Nat /\ ui.at \in Away /\ ui.back # "start"
      /\ ui.tries \in Nat
  BY <1>1, UiOKIs DEF UiOK, IInv, HooksOK, Away, UiBase
<1>3. ~lagged => Confirms(events, Expects(ui))
  BY <1>1 DEF IInv, ExpectsOK
<1>4. Expects(ui) = ui.confirm + ui.flow /\ ui.confirm \in Nat /\ ui.flow \in Nat
  <2>1. Pending(ui) = 0
    BY <1>1 DEF Pending
  <2>2. ui.confirm \in Nat /\ ui.flow \in Nat
    BY <1>2 DEF UiBase
  <2> QED BY <2>1, <2>2 DEF Expects
<1>5. CASE link' = TRUE /\ Publish(Dropped \o <<Ev("connected", 0)>>) /\ ui' = [ui EXCEPT !.at = "activate"]
  <2> DEFINE v == [ui EXCEPT !.at = "activate"]
             new == Dropped \o <<Ev("connected", 0)>>
  <2>1. new \in Seq(Evs) /\ new # <<>> /\ new[Len(new)].kind = "connected"
    <3>1. Ev("connected", 0) \in Evs /\ Ev("connected", 0).kind = "connected"
      BY DEF Ev, Evs, EvKinds
    <3> QED BY <1>1, <3>1, DroppedIs
  <2>2. Publish(new)
    BY <1>5
  <2> HIDE DEF new
  <2>3. StreamOK'
    BY <1>1, <1>5, <2>1, <2>2, PublishStays
  <2>4. /\ UiBase(v) /\ v.at = "activate" /\ v.back = ui.back /\ v.purpose = ui.purpose /\ v.believes = ui.believes
        /\ v.confirm = ui.confirm /\ v.flow = ui.flow
    BY <1>2, AtIs
  <2>5. ui' = v
    BY <1>5
  <2> HIDE DEF v
  <2>6. v.at \in Away
    BY <2>4 DEF Away
  <2>7. UiOK(v)
    BY <1>1, <1>2, <2>4, <2>6, AwayOn
  <2>8. Expects(v) \in Nat /\ Expects(v) <= Expects(ui) + 1
    <3>1. Pending(v) \in {0, 1}
      BY DEF Pending
    <3> QED BY <1>4, <2>4, <3>1 DEF Expects
  <2>9. HooksOK'
    BY <1>1, <1>2, <2>4, <2>5 DEF HooksOK
  <2>10. LinkOK'
    BY <1>5, <2>4, <2>5 DEF LinkOK
  <2>11. ExpectsOK'
    <3> SUFFICES ASSUME ~lagged' PROVE Confirms(events', Expects(v))
      BY <2>5 DEF ExpectsOK
    <3>1. Expects(ui) + 1 \in Nat
      BY <1>2
    <3>2. Confirms(events', Expects(ui) + 1)
      BY <1>1, <1>2, <1>3, <2>1, <2>2, PublishConfirms
    <3>3. \A q : \A n, m \in Nat : m <= n /\ Confirms(q, n) => Confirms(q, m)
      BY ConfirmsLess
    <3> QED BY <2>8, <3>1, <3>2, <3>3
  <2> QED BY <2>3, <2>5, <2>7, <2>9, <2>10, <2>11 DEF IInv
<1>6. CASE /\ link' = FALSE
           /\ \E more \in {<<>>, <<Ev("disconnected", 0)>>} : Publish(Dropped \o more)
           /\ ui' \in {Fail(ui, "connection")} \cup (IF MayRetry(ui) THEN {[ui EXCEPT !.tries = @ + 1]} ELSE {})
  <2>1. PICK more \in {<<>>, <<Ev("disconnected", 0)>>} : Publish(Dropped \o more)
    BY <1>6
  <2> DEFINE new == Dropped \o more
  <2>2. new \in Seq(Evs)
    <3>1. <<Ev("disconnected", 0)>> \in Seq(Evs)
      BY EvIs DEF EvKinds
    <3>2. <<>> \in Seq(Evs)
      OBVIOUS
    <3>3. more \in Seq(Evs) /\ Dropped \in Seq(Evs)
      BY <1>1, <3>1, <3>2, DroppedIs
    <3>4. \A a, b \in Seq(Evs) : a \o b \in Seq(Evs)
      OBVIOUS
    <3> QED BY <3>3, <3>4
  <2>3. Publish(new)
    BY <2>1
  <2> HIDE DEF new
  <2>4. StreamOK'
    BY <1>1, <1>6, <2>2, <2>3, PublishStays
  <2>5. CASE ui' = Fail(ui, "connection")
    <3>1. UiOK(ui') /\ ui'.at = "cleanup" /\ ui'.believes = FALSE
      BY <1>2, <2>5, FailEnds
    <3>2. HooksOK'
      BY <1>1, <1>2, <3>1 DEF HooksOK
    <3> QED BY <2>4, <3>1, <3>2, EndKeeps
  <2>6. CASE MayRetry(ui) /\ ui' = [ui EXCEPT !.tries = ui.tries + 1]
    <3> DEFINE v == [ui EXCEPT !.tries = ui.tries + 1]
    <3>1. ui' = v
      BY <2>6
    <3>2a. DOMAIN ui = UiFields /\ ui = [f \in UiFields |-> ui[f]] /\ {"tries"} \subseteq UiFields
      BY <1>2 DEF UiBase, UiFields
    <3>2b. DOMAIN v = UiFields /\ v = [f \in UiFields |-> v[f]]
      BY <3>2a DEF v
    <3>2c. v.tries = ui.tries + 1 /\ \A f \in UiFields \ {"tries"} : v[f] = ui[f]
      BY <3>2a DEF v
    <3> HIDE DEF v
    <3>2d. /\ v.mode = ui.mode /\ v.believes = ui.believes /\ v.active = ui.active /\ v.confirm = ui.confirm
           /\ v.flow = ui.flow /\ v.held = ui.held /\ v.draft = ui.draft /\ v.message = ui.message /\ v.at = ui.at
           /\ v.back = ui.back /\ v.purpose = ui.purpose
      BY <3>2c DEF UiFields
    <3>3. ui.tries + 1 \in Nat /\ ui.tries + 1 < Attempts
      BY <1>2, <2>6 DEF MayRetry
    <3>4. UiBase(v)
      BY <1>2, <3>2b, <3>2c, <3>2d, <3>3 DEF UiBase
    <3>5. v.at = "attempt" /\ v.at \in Away /\ v.believes = FALSE
      BY <1>1, <1>2, <3>2d
    <3>6. UiOK(v)
      BY <1>1, <1>2, <3>2d, <3>4, <3>5, AwayOn
    <3>7. Expects(v) = Expects(ui)
      <4>1. Pending(v) = 0 /\ Pending(ui) = 0
        BY <1>1, <3>5 DEF Pending
      <4> QED BY <3>2d, <4>1 DEF Expects
    <3>8. HooksOK'
      BY <1>1, <1>2, <3>1, <3>5 DEF HooksOK
    <3>9. LinkOK'
      BY <3>1, <3>5 DEF LinkOK, Working
    <3>10. ExpectsOK'
      <4> SUFFICES ASSUME ~lagged' PROVE Confirms(events', Expects(ui))
        BY <3>1, <3>7 DEF ExpectsOK
      <4> QED BY <1>1, <1>2, <1>3, <2>2, <2>3, PublishConfirms
    <3> QED BY <2>4, <3>1, <3>6, <3>8, <3>9, <3>10 DEF IInv
  <2>7. ui' = Fail(ui, "connection") \/ (MayRetry(ui) /\ ui' = [ui EXCEPT !.tries = ui.tries + 1])
    BY <1>6
  <2> QED BY <2>5, <2>6, <2>7
<1> QED BY <1>5, <1>6 DEF Attempt

-----------------------------------------------------------------------------
(* The theorem.                                                            *)

\* The command starts without a link.
LEMMA StartsWell ==
    ASSUME Init
    PROVE  IInv
<1>1. PICK mode \in Modes, target \in Targets, limit \in {0, 2}, filter \in {"all", "message"} :
          ui = [mode |-> mode, at |-> "connect", back |-> "start", tries |-> 0, believes |-> FALSE,
                confirm |-> 0, flow |-> 0, purpose |-> "target", target |-> target, message |-> NoMessage,
                sendTo |-> "none", draft |-> NoMessage, draftTo |-> "none", record |-> "none", recordTo |-> "none",
                unstored |-> FALSE, correlated |-> FALSE, post |-> "none", held |-> NoMessage,
                active |-> TRUE, again |-> FALSE, emitted |-> 0, limit |-> limit, filter |-> filter,
                error |-> "none"]
  BY DEF Init
<1>2. DOMAIN ui = UiFields /\ ui = [f \in UiFields |-> ui[f]]
  BY <1>1 DEF UiFields
<1>3. /\ ui.mode = mode /\ ui.at = "connect" /\ ui.back = "start" /\ ui.tries = 0 /\ ui.believes = FALSE
      /\ ui.confirm = 0 /\ ui.flow = 0 /\ ui.purpose = "target" /\ ui.message = 0 /\ ui.draft = 0 /\ ui.held = 0
      /\ ui.active = TRUE
  BY <1>1 DEF NoMessage
<1>4. mode \in {"chat", "watch"} /\ Attempts > 0 /\ MaxMessages \in Nat /\ Attempts \in Nat /\ Capacity \in Nat /\ TrackerCapacity \in Nat
  BY LiveAssumption
<1>5. UiBase(ui)
  <2>1. 0 \in 0 .. MaxMessages /\ 0 \in 0 .. 2 /\ 0 \in Nat /\ 0 < Attempts
    BY <1>4
  <2>2. ui.mode \in {"chat", "watch"} /\ ui.believes \in BOOLEAN /\ ui.active \in BOOLEAN
    BY <1>3, <1>4
  <2>3. /\ ui.confirm \in Nat /\ ui.flow \in 0 .. 2 /\ ui.held \in Nat /\ ui.tries \in Nat /\ ui.tries < Attempts
        /\ ui.draft \in 0 .. MaxMessages /\ ui.message \in 0 .. MaxMessages
    BY <1>3, <2>1
  <2> QED BY <1>2, <2>2, <2>3 DEF UiBase
<1>6. UiOK(ui)
  <2>1. ui.at \in Places /\ ui.at \notin Away /\ ui.at \notin Working
    BY <1>3 DEF Places, Away, Working
  <2>2. FlowMax(ui) = 0
    BY <1>3, FlowMaxIs
  <2>3. ui.flow <= FlowMax(ui)
    BY <1>3, <2>2
  <2> QED BY <1>3, <1>5, <2>1, <2>3 DEF UiOK
<1>7. StreamOK
  <2>1. <<>> \in Seq(Occurrences) /\ <<>> \in Seq(Evs) /\ Len(<<>>) = 0
    OBVIOUS
  <2>2. events \in Seq(Evs) /\ tracker \in Seq(Occurrences) /\ Len(events) <= Capacity /\ Len(tracker) <= TrackerCapacity
    BY <1>4, <2>1 DEF Init
  <2>3. input = [at |-> "none", line |-> NoLine, lines |-> 0, messages |-> 0]
    BY DEF Init
  <2>4. /\ input \in [at : {"none", "reading", "offered", "waiting"}, line : Lines \cup {NoLine}, lines : Nat,
                      messages : 0 .. MaxMessages]
        /\ input.at # "offered"
    BY <1>4, <2>3
  <2>5. link \in BOOLEAN /\ lagged \in BOOLEAN /\ published \in Nat
    BY DEF Init
  <2> QED BY <2>2, <2>4, <2>5 DEF StreamOK
<1>8. HooksOK
  BY <1>3 DEF Init, HooksOK
<1>9. LinkOK
  BY <1>3 DEF Init, LinkOK, Working
<1>10. ExpectsOK
  <2>1. Pending(ui) = 0
    BY <1>3 DEF Pending
  <2>2. Expects(ui) = 0
    BY <1>3, <2>1 DEF Expects
  <2> QED BY <2>2, ConfirmsNothing DEF ExpectsOK
<1> QED BY <1>6, <1>7, <1>8, <1>9, <1>10 DEF IInv

\* Every step keeps the invariant.
LEMMA StepKeeps ==
    ASSUME IInv, [Next]_vars
    PROVE  IInv'
<1>1. CASE Lifecycle
  BY <1>1, ConnectKeeps, ActivateKeeps, CleanupKeeps, UnhookKeeps, AttemptKeeps, AttemptInterruptedKeeps DEF Lifecycle
<1>2. CASE IdleInterrupted \/ Lag
  BY <1>2, QuietActions, LagKeeps
<1>3. CASE Watch
  BY <1>3, WatchSkipKeeps, WatchMessageKeeps, WatchOtherKeeps, WatchDisconnectedKeeps, QuietActions DEF Watch
<1>4. CASE Chat
  BY <1>4, QuietActions, LineActions, SyncNextMessageKeeps, DrainEventKeeps, DrainEndKeeps, ChatMessageKeeps,
     ChatLifecycleKeeps, SendLosesLinkKeeps DEF Chat
<1>5. CASE LoseLink \/ Arrive \/ ReadLine \/ Signal \/ Exited \/ UNCHANGED vars
  BY <1>5, LoseLinkKeeps, ArriveKeeps, ReadLineKeeps, OthersKeep
<1> QED BY <1>1, <1>2, <1>3, <1>4, <1>5 DEF Next, Command

\* As many Connected events as are to come fit before the loss.
LEMMA EnoughBefore ==
    ASSUME NEW q \in Seq(Evs), NEW n \in Nat, Confirms(q, n), NEW i \in 1 .. Len(q),
           \A j \in 1 .. Len(q) : j > i => q[j].kind # "connected"
    PROVE  n <= Cardinality({j \in 1 .. i : q[j].kind = "connected"})
<1> DEFINE S == {j \in 1 .. i : q[j].kind = "connected"}
<1>1. PICK f \in [1 .. n -> 1 .. Len(q)] :
          (\A k \in 1 .. n : q[f[k]].kind = "connected") /\ \A k, l \in 1 .. n : k < l => f[k] < f[l]
  BY DEF Confirms
<1>2. Len(q) \in Nat /\ i \in Nat
  OBVIOUS
<1>3. \A k \in 1 .. n : f[k] \in S
  <2> TAKE k \in 1 .. n
  <2>1. f[k] \in 1 .. Len(q) /\ q[f[k]].kind = "connected"
    BY <1>1
  <2>2. f[k] \in 1 .. i
    BY <1>2, <2>1
  <2> QED BY <2>1, <2>2
<1>4. f \in [1 .. n -> S]
  BY <1>1, <1>3
<1>5. \A k, l \in 1 .. n : f[k] = f[l] => k = l
  <2> TAKE k, l \in 1 .. n
  <2>1. f[k] \in Nat /\ f[l] \in Nat
    BY <1>1
  <2>2. k < l \/ l < k \/ k = l
    OBVIOUS
  <2> QED BY <1>1, <2>1, <2>2
<1>6. f \in Injection(1 .. n, S)
  BY <1>4, <1>5 DEF Injection, IsInjective
<1>7. IsFiniteSet(S)
  <2>1. IsFiniteSet(1 .. i)
    BY <1>2, FS_Interval
  <2>2. S \subseteq 1 .. i
    OBVIOUS
  <2> QED BY <2>1, <2>2, FS_Subset
<1>8. Cardinality(1 .. n) = n
  BY FS_Interval
<1> HIDE DEF S
<1>9. Cardinality(1 .. n) <= Cardinality(S)
  BY <1>6, <1>7, FS_Injection
<1> QED BY <1>8, <1>9 DEF S

\* The invariant says that the session is followed.
LEMMA InvariantFollows ==
    ASSUME IInv
    PROVE  SessionIsFollowed
<1>1. StreamOK /\ UiOK(ui) /\ UiBase(ui)
  BY UiOKIs DEF IInv
<1>2. TypeOK
  BY <1>1 DEF TypeOK, StreamOK, UiBase
<1>3. HooksBalanced
  <2>1. hooked \in 0 .. 1
    BY DEF IInv, HooksOK
  <2>2. ui.at = "exit" => hooked = 0 /\ ~link
    BY DEF IInv, HooksOK, LinkOK
  <2>3. ui.at = "idle" => hooked = 1
    <3> HAVE ui.at = "idle"
    <3>1. ui.believes = TRUE
      BY <1>1, IdleIs
    <3> QED BY <3>1 DEF IInv, HooksOK
  <2> QED BY <2>1, <2>2, <2>3 DEF HooksBalanced
<1>4. LossIsNoticed
  <2> SUFFICES ASSUME ui.at = "idle", ~link
               PROVE  \E i \in DOMAIN events :
                          /\ events[i].kind = "disconnected"
                          /\ lagged \/ ui.confirm <= Cardinality({j \in 1 .. i : events[j].kind = "connected"})
    BY DEF LossIsNoticed
  <2>1. ui.at \in Working /\ ui.confirm \in Nat /\ Expects(ui) = ui.confirm
    BY <1>1, IdleIs
  <2>2. Lost(events)
    BY <2>1 DEF IInv, LinkOK
  <2>3. PICK i \in 1 .. Len(events) :
            events[i].kind = "disconnected" /\ \A j \in 1 .. Len(events) : j > i => events[j].kind # "connected"
    BY <2>2 DEF Lost
  <2>4. i \in DOMAIN events /\ events \in Seq(Evs)
    BY <1>1 DEF StreamOK
  <2>5. ~lagged => Confirms(events, ui.confirm)
    BY <2>1 DEF IInv, ExpectsOK, Listening
  <2>6. lagged \/ ui.confirm <= Cardinality({j \in 1 .. i : events[j].kind = "connected"})
    BY <2>1, <2>3, <2>4, <2>5, EnoughBefore
  <2> QED BY <2>3, <2>4, <2>6
<1> QED BY <1>2, <1>3, <1>4 DEF SessionIsFollowed

\* chat and watch follow their session: the hooks are balanced through every reconnect, and a link that is down is
\* never overlooked, for any capacity of the event channel and any number of attempts, losses, lines and messages.
THEOREM SessionFollowed == Spec => []SessionIsFollowed
<1>1. Init => IInv
  BY StartsWell
<1>2. IInv /\ [Next]_vars => IInv'
  BY StepKeeps
<1>3. IInv => SessionIsFollowed
  BY InvariantFollows
<1> QED BY <1>1, <1>2, <1>3, PTL DEF Spec

-----------------------------------------------------------------------------
(* The hook runtime.                                                       *)

Outcomes == {"none", "failed", "failed open", "allow", "modify", "reject", "validated", "missing",
             "completed"}
Faults == {"load_error", "not_callable", "no_handlers", "hook_exception", "invalid_result"}
ResultDetails == {"none", "same", "fine", "timeout", "request", "spawn", "stream", "output too large",
            "exit", "malformed output", "invalid modification"} \cup Faults
ResultType == [is : Outcomes, detail : ResultDetails]
Steps == {"idle", "check", "permit", "spawn", "write", "read", "reap", "done", "cancelled"}

\* What a call needs to hold of its own state r; its result is described by Checked.
CallType == [kind : AllKinds, at : Steps, permit : BOOLEAN, input : {"fine", "refused"},
             expired : BOOLEAN, out : {"open", "complete"}, err : {"open", "complete"},
             exit : {"none", "success", "failure"}, result : ResultType]
ChildType == [is : {"none", "running", "exited", "killed", "reaped"}, stdin : {"open", "written"},
              out : {"silent", "response", "flood"}, held : BOOLEAN]

BeforeSpawn == {"idle", "check", "permit", "spawn"}
WithPermit == {"spawn", "write", "read", "reap"}

\* What a result may be: see OnlyCheckedAnswersCount.
Checked(kind, result) ==
    /\ kind = "before_send" /\ policy.before_send = "closed" /\ result.is \in {"allow", "modify"} =>
          /\ script.file = "regular" /\ script.loads /\ script.handler # "invalid"
          /\ script.handler = "valid" => /\ Conduct("before_send") = "returns"
                                         /\ script.result \in {"nothing", "allow", "modify"}
    /\ result.is \in {"modify", "reject"} => result.detail \in {"same", "fine"}
    /\ result.is = "validated" => script.loads /\ script.handler = "valid"

\* A child that has answered is one that answers, and one that leaves a process keeps its pipes open.
Answered(kind, k) ==
    /\ Conduct(kind) \in {"returns", "raises", "exits with an error", "leaves a process"}
    /\ Conduct(kind) = "leaves a process" => k.held

\* A call r and its subprocess k.
CallOK(r, k) ==
    /\ r \in CallType /\ k \in ChildType
    /\ r.permit <=> r.at \in WithPermit
    /\ r.at \in BeforeSpawn => k.is = "none" /\ k.out = "silent"
    /\ k.is = "running" => r.at \in {"write", "read"}
    /\ r.at = "done" => k.is \in {"none", "reaped"}
    /\ r.at \in WithPermit \cup {"permit"} => script.file = "regular"
    /\ r.at \in BeforeSpawn \cup {"write"} => r.exit = "none" /\ r.out = "open"
    /\ k.out = "response" => Answered(r.kind, k)
    /\ r.out = "complete" => k.is = "exited" /\ ~k.held
    /\ r.exit = "success" => Conduct(r.kind) \notin {"exits with an error", "dies"}
    /\ r.at = "reap" => r.result.is = "failed"
    /\ r.at \notin {"reap", "done"} => r.result.is = "none"
    /\ Checked(r.kind, r.result)

Holders == {c \in Calls : call[c].permit}

\* The inductive invariant.
HookInv ==
    /\ script \in Scripts
    /\ policy \in [observe : {"open", "closed"}, before_send : {"open", "closed"}]
    /\ DOMAIN call = Calls /\ DOMAIN child = Calls
    /\ call = [c \in Calls |-> call[c]] /\ child = [c \in Calls |-> child[c]]
    /\ \A c \in Calls : CallOK(call[c], child[c])
    /\ Cardinality(Holders) <= MaxConcurrency

-----------------------------------------------------------------------------
(* Results.                                                                *)

LEMMA FailureType ==
    ASSUME NEW reason \in ResultDetails
    PROVE  Failed(reason) \in ResultType /\ Failed(reason).is = "failed"
BY DEF Failed, ResultType, Outcomes, ResultDetails

LEMMA ValueType ==
    ASSUME NEW i \in Outcomes, NEW d \in ResultDetails, NEW x, x = Value(i, d)
    PROVE  x \in ResultType /\ x.is = i /\ x.detail = d
BY DEF Value, ResultType

\* A failure lets nothing pass that the policy does not let pass.
LEMMA FailureIsChecked ==
    ASSUME HookInv, NEW kind \in AllKinds, NEW result \in ResultType, result.is = "failed"
    PROVE  /\ ApplyFailure(kind, result) \in ResultType
           /\ Checked(kind, ApplyFailure(kind, result))
<1>1. policy.before_send \in {"open", "closed"}
  BY DEF HookInv
<1>2. CASE kind = "observe" /\ policy.observe = "open"
  <2>1. ApplyFailure(kind, result) = Value("failed open", "none")
    BY <1>2 DEF ApplyFailure
  <2>2. ApplyFailure(kind, result) \in ResultType /\ ApplyFailure(kind, result).is = "failed open"
    <3>1. "failed open" \in Outcomes /\ "none" \in ResultDetails
      BY DEF Outcomes, ResultDetails
    <3> QED BY <2>1, <3>1, ValueType
  <2> QED BY <1>2, <2>2 DEF Checked
<1>3. CASE kind = "before_send" /\ policy.before_send = "open"
  <2>1. ApplyFailure(kind, result) = Value("allow", "none")
    BY <1>3 DEF ApplyFailure
  <2>2. ApplyFailure(kind, result) \in ResultType /\ ApplyFailure(kind, result).is = "allow"
    <3>1. "allow" \in Outcomes /\ "none" \in ResultDetails
      BY DEF Outcomes, ResultDetails
    <3> QED BY <2>1, <3>1, ValueType
  <2> QED BY <1>3, <2>2 DEF Checked
<1>4. CASE ~(kind = "observe" /\ policy.observe = "open")
           /\ ~(kind = "before_send" /\ policy.before_send = "open")
  <2>1. ApplyFailure(kind, result) = result
    BY <1>4 DEF ApplyFailure
  <2> QED BY <2>1 DEF Checked
<1> QED BY <1>2, <1>3, <1>4

\* What the bootstrap may answer, and when.
LEMMA BootstrapAnswers ==
    ASSUME HookInv, NEW kind \in AllKinds,
           NEW answer, answer = Bootstrap(kind)
    PROVE  \/ answer.status = "error" /\ answer.detail \in Faults
           \/ /\ script.loads /\ script.handler = "valid" /\ kind = "validate"
              /\ answer = Says("validated", "none")
           \/ /\ script.loads /\ script.handler = "none" /\ kind # "validate"
              /\ answer = Says("missing", "none")
           \/ /\ script.loads /\ script.handler = "valid" /\ kind = "observe"
              /\ answer = Says("invoked", "none")
           \/ /\ script.loads /\ script.handler = "valid" /\ kind = "before_send"
              /\ script.conduct # "raises"
              /\ \/ script.result \in {"nothing", "allow"} /\ answer = Says("invoked", "allow")
                 \/ script.result = "modify" /\ answer = Says("invoked", "modify")
                 \/ script.result = "reject" /\ answer = Says("invoked", "reject")
<1>1. /\ script.loads \in BOOLEAN /\ script.handler \in {"none", "valid", "invalid"}
      /\ script.result \in Results
  BY DEF HookInv, Scripts
<1>2. /\ \A d : Fault(d).status = "error" /\ Fault(d).detail = d
      /\ \A s, d : Says(s, d).status = s
  BY DEF Fault, Says
<1>3. CASE ~script.loads
  BY <1>2, <1>3 DEF Bootstrap, Faults
<1>4. CASE script.loads /\ script.handler = "invalid"
  <2>1. InspectHandlers(kind) = Fault("not_callable")
    BY <1>4 DEF InspectHandlers
  <2> QED BY <1>2, <1>4, <2>1 DEF Bootstrap, Faults
<1>5. CASE script.loads /\ script.handler = "none" /\ kind = "validate"
  <2>1. InspectHandlers(kind) = Fault("no_handlers")
    BY <1>5 DEF InspectHandlers
  <2> QED BY <1>2, <1>5, <2>1 DEF Bootstrap, Faults
<1>6. CASE script.loads /\ script.handler = "none" /\ kind # "validate"
  <2>1. InspectHandlers(kind) = Says("found", "none")
    BY <1>6 DEF InspectHandlers
  <2> QED BY <1>2, <1>6, <2>1 DEF Bootstrap
<1>7. CASE script.loads /\ script.handler = "valid"
  <2>1. InspectHandlers(kind) = Says("found", "valid")
    BY <1>7 DEF InspectHandlers
  <2>2. InspectHandlers(kind).status = "found"
    BY <1>2, <2>1
  <2>3. CASE kind = "validate"
    BY <1>7, <2>2, <2>3 DEF Bootstrap
  <2>4. CASE kind # "validate" /\ script.conduct = "raises"
    BY <1>2, <1>7, <2>2, <2>4 DEF Bootstrap, Faults
  <2>5. CASE kind = "observe" /\ script.conduct # "raises"
    BY <1>7, <2>2, <2>5 DEF Bootstrap
  <2>6. CASE kind = "before_send" /\ script.conduct # "raises"
    <3>1. answer = NormalizeBeforeSend(script.result)
      BY <1>7, <2>2, <2>6 DEF Bootstrap
    <3>2. \/ script.result \in {"nothing", "allow"} /\ answer = Says("invoked", "allow")
          \/ script.result = "modify" /\ answer = Says("invoked", "modify")
          \/ script.result = "reject" /\ answer = Says("invoked", "reject")
          \/ answer = Fault("invalid_result")
      BY <1>1, <3>1 DEF NormalizeBeforeSend, Results
    <3> QED BY <1>2, <1>7, <2>6, <3>2 DEF Faults
  <2> QED BY <2>3, <2>4, <2>5, <2>6 DEF AllKinds
<1> QED BY <1>1, <1>3, <1>4, <1>5, <1>6, <1>7

\* A response of a call that has read everything is interpreted to a result that counts.
LEMMA AnswerIsChecked ==
    ASSUME HookInv, NEW r, NEW k, CallOK(r, k), r.at = "read",
           r.out = "complete", r.exit = "success", k.out = "response",
           NEW result, result = Interpret(r.kind, Bootstrap(r.kind))
    PROVE  result \in ResultType /\ (result.is # "failed" => Checked(r.kind, result))
<1> DEFINE answer == Bootstrap(r.kind)
<1>1. r.kind \in AllKinds
  BY DEF CallOK, CallType
<1>2. Conduct(r.kind) \in {"returns", "raises"}
  BY DEF CallOK, Answered
<1>3. script.file = "regular"
  BY DEF CallOK, WithPermit
<1>4. /\ \A d : Fault(d).status = "error" /\ Fault(d).detail = d
      /\ \A s, d : Says(s, d).status = s /\ Says(s, d).detail = d
      /\ \A i, d : Value(i, d).is = i /\ Value(i, d).detail = d
      /\ \A d : Failed(d).is = "failed"
  BY DEF Fault, Says, Value, Failed
<1> HIDE DEF answer
<1>5. CASE answer.status = "error" /\ answer.detail \in Faults
  <2>1. result = Failed(answer.detail) /\ answer.detail \in ResultDetails
    BY <1>5 DEF Interpret, answer, ResultDetails
  <2> QED BY <2>1, FailureType
<1>6. CASE /\ script.loads /\ script.handler = "valid" /\ r.kind = "validate"
           /\ answer = Says("validated", "none")
  <2>1. result = Value("validated", "none")
    BY <1>4, <1>6 DEF Interpret, answer
  <2>2. result \in ResultType /\ result.is = "validated"
    <3>1. "validated" \in Outcomes /\ "none" \in ResultDetails
      BY DEF Outcomes, ResultDetails
    <3> QED BY <2>1, <3>1, ValueType
  <2> QED BY <1>6, <2>2 DEF Checked
<1>7. CASE /\ script.loads /\ script.handler = "none" /\ r.kind # "validate"
           /\ answer = Says("missing", "none")
  <2>1. result = Value("allow", "none") \/ result = Value("missing", "none")
    BY <1>4, <1>7 DEF Interpret, answer
  <2>2. result \in ResultType /\ result.is \in {"allow", "missing"}
    <3>1. "allow" \in Outcomes /\ "missing" \in Outcomes /\ "none" \in ResultDetails
      BY DEF Outcomes, ResultDetails
    <3> QED BY <2>1, <3>1, ValueType
  <2> QED BY <1>3, <1>7, <2>2 DEF Checked
<1>8. CASE /\ script.loads /\ script.handler = "valid" /\ r.kind = "observe"
           /\ answer = Says("invoked", "none")
  <2>1. result = Value("completed", "none")
    BY <1>4, <1>8 DEF Interpret, answer
  <2>2. result \in ResultType /\ result.is = "completed"
    <3>1. "completed" \in Outcomes /\ "none" \in ResultDetails
      BY DEF Outcomes, ResultDetails
    <3> QED BY <2>1, <3>1, ValueType
  <2> QED BY <1>8, <2>2 DEF Checked
<1>9. CASE /\ script.loads /\ script.handler = "valid" /\ r.kind = "before_send"
            /\ script.conduct # "raises"
            /\ \/ script.result \in {"nothing", "allow"} /\ answer = Says("invoked", "allow")
               \/ script.result = "modify" /\ answer = Says("invoked", "modify")
               \/ script.result = "reject" /\ answer = Says("invoked", "reject")
  <2>1. Conduct("before_send") = "returns"
    BY <1>2, <1>9 DEF Conduct
  <2>2. answer.status = "invoked" /\ answer.detail \in {"allow", "modify", "reject"}
    BY <1>4, <1>9
  <2>3. result = ApplyBeforeSendResult(answer.detail)
    BY <1>9, <2>2 DEF Interpret, answer
  <2>4. CASE answer.detail = "allow"
    <3>1. result = Value("allow", "none") /\ script.result \in {"nothing", "allow"}
      BY <1>4, <1>9, <2>3, <2>4 DEF ApplyBeforeSendResult
    <3>2. result \in ResultType /\ result.is = "allow"
      <4>1. "allow" \in Outcomes /\ "none" \in ResultDetails
        BY DEF Outcomes, ResultDetails
      <4> QED BY <3>1, <4>1, ValueType
    <3> QED BY <1>3, <1>9, <2>1, <3>1, <3>2 DEF Checked
  <2>5. CASE answer.detail \in {"modify", "reject"} /\ ~ValidModifiedString(script.value)
    <3>1. result = Failed("invalid modification")
      BY <2>3, <2>5 DEF ApplyBeforeSendResult
    <3> QED BY <3>1, FailureType DEF ResultDetails
  <2>6. CASE answer.detail \in {"modify", "reject"} /\ ValidModifiedString(script.value)
    <3>1. result = Value(answer.detail, script.value) /\ script.value \in {"same", "fine"}
      BY <2>3, <2>6 DEF ApplyBeforeSendResult, ValidModifiedString
    <3>2. answer.detail = "modify" => script.result = "modify"
      BY <1>4, <1>9
    <3>3. result \in ResultType /\ result.is = answer.detail /\ result.detail = script.value
      <4>1. answer.detail \in Outcomes /\ script.value \in ResultDetails
        BY <2>6, <3>1 DEF Outcomes, ResultDetails
      <4> QED BY <3>1, <4>1, ValueType
    <3> QED BY <1>3, <1>9, <2>1, <2>6, <3>1, <3>2, <3>3 DEF Checked
  <2> QED BY <2>2, <2>4, <2>5, <2>6
<1> QED BY <1>1, <1>5, <1>6, <1>7, <1>8, <1>9, BootstrapAnswers DEF answer

-----------------------------------------------------------------------------
(* One call moves.                                                         *)

\* What a call needs to hold depends on nothing but the call, its child and what never changes.
LEMMA ScriptStays ==
    ASSUME UNCHANGED <<script, policy>>, NEW d \in Calls, CallOK(call'[d], child'[d])
    PROVE  CallOK(call[d], child[d])'
<1>1. Checked(call[d].kind, call[d].result)'
  <2>1. Checked(call'[d].kind, call'[d].result)
    BY DEF CallOK
  <2> QED BY <2>1 DEF Checked, Conduct
<1>2. (child[d].out = "response" => Answered(call[d].kind, child[d]))'
  <2>1. child'[d].out = "response" => Answered(call'[d].kind, child'[d])
    BY DEF CallOK
  <2> QED BY <2>1 DEF Answered, Conduct
<1>3. (call[d].exit = "success" => Conduct(call[d].kind) \notin {"exits with an error", "dies"})'
  <2>1. call'[d].exit = "success" => Conduct(call'[d].kind) \notin {"exits with an error", "dies"}
    BY DEF CallOK
  <2> QED BY <2>1 DEF Conduct
<1> QED BY <1>1, <1>2, <1>3 DEF CallOK

LEMMA OneCallMoves ==
    ASSUME HookInv, NEW c \in Calls, NEW R, NEW K, CallOK(R, K),
           call' = [call EXCEPT ![c] = R], child' = [child EXCEPT ![c] = K],
           UNCHANGED <<script, policy>>,
           R.permit => call[c].permit \/ Permits > 0
    PROVE  HookInv'
<1>1. /\ DOMAIN call' = Calls /\ DOMAIN child' = Calls
      /\ call'[c] = R /\ child'[c] = K
      /\ \A d \in Calls \ {c} : call'[d] = call[d] /\ child'[d] = child[d]
      /\ call' = [d \in Calls |-> call'[d]] /\ child' = [d \in Calls |-> child'[d]]
  BY DEF HookInv
<1>2. ASSUME NEW d \in Calls PROVE CallOK(call[d], child[d])'
  <2>1. CallOK(call'[d], child'[d])
    <3>1. CASE d = c
      BY <1>1, <3>1
    <3>2. CASE d # c
      BY <1>1, <3>2 DEF HookInv
    <3> QED BY <3>1, <3>2
  <2> QED BY <2>1, ScriptStays
<1>3. IsFiniteSet(Calls) /\ MaxConcurrency \in Nat
  BY ValidateConfig
<1>4. Holders \subseteq Calls /\ Holders' \subseteq Calls
  BY DEF Holders
<1>5. /\ IsFiniteSet(Holders) /\ Cardinality(Holders) \in Nat
      /\ IsFiniteSet(Holders') /\ Cardinality(Holders') \in Nat
  BY <1>3, <1>4, FS_Subset, FS_CardinalityType
<1>6. Cardinality(Holders) <= MaxConcurrency
  BY DEF HookInv
<1>7. CASE Holders' \subseteq Holders
  <2>1. Cardinality(Holders') <= Cardinality(Holders)
    BY <1>5, <1>7, FS_Subset
  <2> QED BY <1>1, <1>2, <1>3, <1>5, <1>6, <2>1 DEF HookInv
<1>8. CASE ~(Holders' \subseteq Holders)
  <2>1. Holders' \subseteq Holders \cup {c}
    BY <1>1 DEF Holders
  <2>2. R.permit /\ ~call[c].permit
    BY <1>1, <1>8 DEF Holders
  <2>3. c \notin Holders /\ Cardinality(Holders) < MaxConcurrency
    <3>1. Permits > 0 /\ Permits = MaxConcurrency - Cardinality(Holders)
      BY <2>2 DEF Permits, Holders
    <3> QED BY <1>3, <1>5, <2>2, <3>1 DEF Holders
  <2>4. IsFiniteSet(Holders \cup {c}) /\ Cardinality(Holders \cup {c}) = Cardinality(Holders) + 1
    BY <1>5, <2>3, FS_AddElement
  <2>5. Cardinality(Holders') <= Cardinality(Holders \cup {c})
    BY <2>1, <2>4, FS_Subset
  <2>6. Cardinality(Holders') <= MaxConcurrency
    BY <1>3, <1>5, <2>3, <2>4, <2>5
  <2> QED BY <1>1, <1>2, <2>6 DEF HookInv
<1> QED BY <1>7, <1>8

\* A call that returns gives its permit back, and its result is one that counts.
LEMMA CallReturns ==
    ASSUME HookInv, NEW c \in Calls, NEW result \in ResultType, Return(c, result),
           result.is # "failed" => Checked(call[c].kind, result),
           NEW K \in ChildType, K.is \in {"none", "reaped"}, K.out = "silent",
           child' = [child EXCEPT ![c] = K], UNCHANGED <<script, policy>>
    PROVE  HookInv'
<1> DEFINE kind == call[c].kind
           final == IF result.is = "failed" THEN ApplyFailure(kind, result) ELSE result
           R == [NoCall EXCEPT !.kind = kind, !.at = "done", !.result = final]
<1>1. call' = [call EXCEPT ![c] = R]
  BY DEF Return
<1>2. kind \in AllKinds
  BY DEF HookInv, CallOK, CallType
<1>3. final \in ResultType /\ Checked(kind, final)
  BY <1>2, FailureIsChecked
<1> HIDE DEF final, kind
<1>4. /\ R \in CallType /\ R.permit = FALSE /\ R.at = "done" /\ R.kind = kind /\ R.result = final
      /\ R.out = "open" /\ R.exit = "none"
  BY <1>2, <1>3 DEF NoCall, CallType, Steps
<1> HIDE DEF R
<1>5. CallOK(R, K)
  BY <1>3, <1>4 DEF CallOK, WithPermit, BeforeSpawn
<1> QED BY <1>1, <1>4, <1>5, OneCallMoves

\* Reaping leaves an empty child.
LEMMA ReapedChild ==
    ASSUME NEW is \in {"none", "running", "exited", "killed", "reaped"},
           NEW K, K = [NoChild EXCEPT !.is = is]
    PROVE  K \in ChildType /\ K.is = is /\ K.out = "silent" /\ K.held = FALSE
BY DEF NoChild, ChildType

\* A call that fails before it has a child.
LEMMA CallFails ==
    ASSUME HookInv, NEW c \in Calls, call[c].at \in BeforeSpawn, NEW reason \in ResultDetails,
           Return(c, Failed(reason)), UNCHANGED <<script, policy, child>>
    PROVE  HookInv'
<1>1. CallOK(call[c], child[c])
  BY DEF HookInv
<1>2. child[c] \in ChildType /\ child[c].is = "none" /\ child[c].out = "silent"
  BY <1>1 DEF CallOK
<1>3. child' = [child EXCEPT ![c] = child[c]]
  BY DEF HookInv
<1> QED BY <1>2, <1>3, FailureType, CallReturns

\* terminate: the child is killed unless it has ended by itself.
LEMMA CallTerminates ==
    ASSUME HookInv, NEW c \in Calls, call[c].at \in {"write", "read"}, NEW reason \in ResultDetails,
           Terminate(c, Failed(reason)), UNCHANGED <<script, policy>>
    PROVE  HookInv'
<1> DEFINE r == call[c]
           k == child[c]
           R == [r EXCEPT !.at = "reap", !.result = Failed(reason)]
           is == IF k.is = "running" THEN "killed" ELSE k.is
           K == [k EXCEPT !.is = is]
<1>1. CallOK(r, k)
  BY DEF HookInv
<1>2. call' = [call EXCEPT ![c] = R] /\ child' = [child EXCEPT ![c] = K]
  BY DEF Terminate, HookInv
<1>3. Failed(reason) \in ResultType /\ Failed(reason).is = "failed"
  BY FailureType
<1>4. r \in CallType /\ k \in ChildType /\ r.permit /\ script.file = "regular"
  BY <1>1 DEF CallOK, WithPermit
<1>5. is \in {"none", "exited", "killed", "reaped"}
  BY <1>4 DEF ChildType
<1> HIDE DEF is, r, k
<1>6. /\ R \in CallType /\ R.permit = r.permit /\ R.at = "reap" /\ R.kind = r.kind
      /\ R.result = Failed(reason) /\ R.out = r.out /\ R.exit = r.exit
  BY <1>3, <1>4 DEF CallType, Steps
<1>7. K \in ChildType /\ K.is = is /\ K.out = k.out /\ K.held = k.held
  BY <1>4, <1>5 DEF ChildType
<1>8. k.is = "exited" => is = "exited"
  BY DEF is
<1> HIDE DEF R, K
<1>9. Checked(R.kind, R.result)
  BY <1>3, <1>6 DEF Checked
<1>10. CallOK(R, K)
  BY <1>1, <1>3, <1>4, <1>5, <1>6, <1>7, <1>8, <1>9 DEF CallOK, WithPermit, BeforeSpawn, Answered
<1> QED BY <1>2, <1>4, <1>6, <1>10, OneCallMoves DEF r

-----------------------------------------------------------------------------
(* The invariant.                                                          *)

LEMMA InitHookInv == HookInit => HookInv
<1> SUFFICES ASSUME HookInit PROVE HookInv
  OBVIOUS
<1>1. script \in Scripts /\ policy \in [observe : {"open", "closed"}, before_send : {"open", "closed"}]
  BY DEF HookInit
<1>2. /\ DOMAIN call = Calls /\ DOMAIN child = Calls
      /\ call = [c \in Calls |-> call[c]] /\ child = [c \in Calls |-> child[c]]
      /\ \A c \in Calls : call[c] = NoCall /\ child[c] = NoChild
  BY DEF HookInit
<1>3. NoChild \in ChildType /\ NoChild.is = "none" /\ NoChild.out = "silent"
  BY DEF NoChild, ChildType
<1>4. NoResult \in ResultType /\ NoResult.is = "none"
  BY DEF NoResult, Value, ResultType, Outcomes, ResultDetails
<1>5. /\ NoCall \in CallType /\ NoCall.at = "idle" /\ NoCall.permit = FALSE /\ NoCall.kind = "observe"
      /\ NoCall.exit = "none" /\ NoCall.out = "open" /\ NoCall.result = NoResult
  BY <1>4 DEF NoCall, CallType, Steps, AllKinds
<1>6. Checked(NoCall.kind, NoCall.result)
  BY <1>4, <1>5 DEF Checked
<1>7. CallOK(NoCall, NoChild)
  BY <1>3, <1>4, <1>5, <1>6 DEF CallOK, WithPermit, BeforeSpawn
<1>8. Holders = {}
  BY <1>2, <1>5 DEF Holders
<1>9. Cardinality(Holders) <= MaxConcurrency
  BY <1>8, FS_EmptySet, ValidateConfig
<1> QED BY <1>1, <1>2, <1>7, <1>9 DEF HookInv

\* The steps of a call that only move it on, or record what it read.
LEMMA CallMovesOn ==
    ASSUME HookInv, NEW c \in Calls,
           StartCall(c) \/ Expire(c) \/ WaitExit(c)
    PROVE  HookInv'
<1> DEFINE r == call[c]
           k == child[c]
<1>1. CallOK(r, k) /\ child' = [child EXCEPT ![c] = k] /\ UNCHANGED <<script, policy>>
  BY DEF HookInv, StartCall, Expire, WaitExit
<1>2. r \in CallType /\ k \in ChildType
  BY <1>1 DEF CallOK
<1>3. ASSUME StartCall(c) PROVE HookInv'
  <2>1. PICK kind \in Kinds, given \in {"fine", "refused"} :
           call' = [call EXCEPT ![c].kind = kind, ![c].input = given, ![c].at = "check"]
    BY <1>3 DEF StartCall
  <2> DEFINE R == [r EXCEPT !.kind = kind, !.input = given, !.at = "check"]
  <2>2. call' = [call EXCEPT ![c] = R] /\ r.at = "idle" /\ kind \in AllKinds
    BY <1>3, <2>1, ValidateConfig DEF StartCall, HookInv
  <2> HIDE DEF r, k
  <2>3. /\ R \in CallType /\ R.at = "check" /\ R.permit = r.permit /\ R.kind = kind
        /\ R.exit = r.exit /\ R.out = r.out /\ R.result = r.result
    BY <1>2, <2>2 DEF CallType, Steps
  <2> HIDE DEF R
  <2>4. /\ r.permit = FALSE /\ k.is = "none" /\ k.out = "silent" /\ r.exit = "none" /\ r.out = "open"
        /\ r.result.is = "none"
    BY <1>1, <2>2 DEF CallOK, CallType, WithPermit, BeforeSpawn
  <2>5. Checked(R.kind, R.result)
    BY <2>3, <2>4 DEF Checked
  <2>6. CallOK(R, k)
    BY <1>2, <2>3, <2>4, <2>5 DEF CallOK, WithPermit, BeforeSpawn
  <2> QED BY <1>1, <2>2, <2>3, <2>4, <2>6, OneCallMoves
<1>4. ASSUME Expire(c) PROVE HookInv'
  <2> DEFINE R == [r EXCEPT !.expired = TRUE]
  <2>1. call' = [call EXCEPT ![c] = R]
    BY <1>4 DEF Expire, HookInv
  <2> HIDE DEF r, k
  <2>2. /\ R \in CallType /\ R.at = r.at /\ R.permit = r.permit /\ R.kind = r.kind
        /\ R.exit = r.exit /\ R.out = r.out /\ R.result = r.result
    BY <1>2 DEF CallType
  <2> HIDE DEF R
  <2>3. CallOK(R, k)
    BY <1>1, <2>2 DEF CallOK
  <2> QED BY <1>1, <2>1, <2>2, <2>3, OneCallMoves DEF r
<1>5. ASSUME WaitExit(c) PROVE HookInv'
  <2> DEFINE exit == IF Conduct(r.kind) \in {"exits with an error", "dies"} THEN "failure" ELSE "success"
             R == [r EXCEPT !.exit = exit]
  <2>1. call' = [call EXCEPT ![c] = R] /\ r.at = "read"
    BY <1>5 DEF WaitExit, HookInv
  <2>2. /\ exit \in {"success", "failure"}
        /\ exit = "success" => Conduct(r.kind) \notin {"exits with an error", "dies"}
    OBVIOUS
  <2> HIDE DEF r, k, exit
  <2>3. /\ R \in CallType /\ R.at = r.at /\ R.permit = r.permit /\ R.kind = r.kind
        /\ R.exit = exit /\ R.out = r.out /\ R.result = r.result
    BY <1>2, <2>2 DEF CallType
  <2> HIDE DEF R
  <2>4. CallOK(R, k)
    BY <1>1, <2>1, <2>2, <2>3 DEF CallOK, BeforeSpawn
  <2> QED BY <1>1, <2>1, <2>3, <2>4, OneCallMoves DEF r
<1> QED BY <1>3, <1>4, <1>5

\* What a call does before it has a child: it goes on or fails.
LEMMA CallStarts ==
    ASSUME HookInv, NEW c \in Calls,
           CheckRequest(c) \/ AcquirePermit(c) \/ Spawn(c)
    PROVE  HookInv'
<1> DEFINE r == call[c]
           k == child[c]
<1>1. CallOK(r, k) /\ UNCHANGED <<script, policy>>
  BY DEF HookInv, CheckRequest, AcquirePermit, Spawn
<1>2. r \in CallType /\ k \in ChildType
  BY <1>1 DEF CallOK
<1>3. "timeout" \in ResultDetails /\ "request" \in ResultDetails /\ "spawn" \in ResultDetails
  BY DEF ResultDetails
<1>4. ASSUME Return(c, Timeout) \/ Return(c, Failed("request")) \/ Return(c, Failed("spawn")),
             UNCHANGED child
      PROVE  HookInv'
  <2>1. r.at \in BeforeSpawn
    BY DEF CheckRequest, AcquirePermit, Spawn, BeforeSpawn
  <2> QED BY <1>1, <1>3, <1>4, <2>1, CallFails DEF Timeout
<1>5. ASSUME CheckRequest(c), RegularFile, Goes(c, "permit") PROVE HookInv'
  <2> DEFINE R == [r EXCEPT !.at = "permit"]
  <2>1. call' = [call EXCEPT ![c] = R] /\ child' = [child EXCEPT ![c] = k] /\ r.at = "check"
        /\ script.file = "regular"
    BY <1>5 DEF CheckRequest, Goes, RegularFile, HookInv
  <2> HIDE DEF r, k
  <2>2. /\ R \in CallType /\ R.at = "permit" /\ R.permit = r.permit /\ R.kind = r.kind
        /\ R.exit = r.exit /\ R.out = r.out /\ R.result = r.result
    BY <1>2 DEF CallType, Steps
  <2> HIDE DEF R
  <2>3. CallOK(R, k)
    BY <1>1, <2>1, <2>2 DEF CallOK, WithPermit, BeforeSpawn
  <2> QED BY <1>1, <2>1, <2>2, <2>3, OneCallMoves DEF r
<1>6. ASSUME AcquirePermit(c), Permits > 0,
             call' = [call EXCEPT ![c].at = "spawn", ![c].permit = TRUE]
      PROVE  HookInv'
  <2> DEFINE R == [r EXCEPT !.at = "spawn", !.permit = TRUE]
  <2>1. call' = [call EXCEPT ![c] = R] /\ child' = [child EXCEPT ![c] = k] /\ r.at = "permit"
    BY <1>6 DEF AcquirePermit, HookInv
  <2> HIDE DEF r, k
  <2>2. /\ R \in CallType /\ R.at = "spawn" /\ R.permit = TRUE /\ R.kind = r.kind
        /\ R.exit = r.exit /\ R.out = r.out /\ R.result = r.result
    BY <1>2 DEF CallType, Steps
  <2> HIDE DEF R
  <2>3. CallOK(R, k)
    BY <1>1, <2>1, <2>2 DEF CallOK, WithPermit, BeforeSpawn
  <2> QED BY <1>1, <1>6, <2>1, <2>3, OneCallMoves
<1>7. ASSUME Spawn(c), Goes(c, "write"), child' = [child EXCEPT ![c] = [NoChild EXCEPT !.is = "running"]]
      PROVE  HookInv'
  <2> DEFINE R == [r EXCEPT !.at = "write"]
             K == [NoChild EXCEPT !.is = "running"]
  <2>1. call' = [call EXCEPT ![c] = R] /\ child' = [child EXCEPT ![c] = K] /\ r.at = "spawn"
    BY <1>7 DEF Spawn, Goes, HookInv
  <2> HIDE DEF r, k
  <2>2. /\ R \in CallType /\ R.at = "write" /\ R.permit = r.permit /\ R.kind = r.kind
        /\ R.exit = r.exit /\ R.out = r.out /\ R.result = r.result
    BY <1>2 DEF CallType, Steps
  <2>3. K \in ChildType /\ K.is = "running" /\ K.out = "silent" /\ K.held = FALSE
    BY ReapedChild
  <2> HIDE DEF R, K
  <2>4. CallOK(R, K)
    BY <1>1, <2>1, <2>2, <2>3 DEF CallOK, WithPermit, BeforeSpawn
  <2> QED BY <1>1, <2>1, <2>2, <2>4, OneCallMoves DEF r
<1>8. CASE CheckRequest(c)
  BY <1>4, <1>5, <1>8 DEF CheckRequest
<1>9. CASE AcquirePermit(c)
  BY <1>4, <1>6, <1>9 DEF AcquirePermit
<1>10. CASE Spawn(c)
  BY <1>4, <1>7, <1>10 DEF Spawn
<1> QED BY <1>8, <1>9, <1>10

\* What a call does while its child runs.
LEMMA CallCommunicates ==
    ASSUME HookInv, NEW c \in Calls,
           WriteRequest(c) \/ ReadStream(c) \/ CommunicateExpires(c)
    PROVE  HookInv'
<1> DEFINE r == call[c]
           k == child[c]
<1>1. CallOK(r, k) /\ UNCHANGED <<script, policy>> /\ r.at \in {"write", "read"}
  BY DEF HookInv, WriteRequest, ReadStream, CommunicateExpires
<1>2. r \in CallType /\ k \in ChildType
  BY <1>1 DEF CallOK
<1>3. "timeout" \in ResultDetails /\ "stream" \in ResultDetails /\ "output too large" \in ResultDetails
  BY DEF ResultDetails
<1>4. ASSUME Terminate(c, Timeout) \/ Terminate(c, Failed("stream"))
               \/ Terminate(c, Failed("output too large"))
      PROVE  HookInv'
  BY <1>1, <1>3, <1>4, CallTerminates DEF Timeout
<1>5. ASSUME WriteRequest(c), k.is = "running",
             child' = [child EXCEPT ![c].stdin = "written"], Goes(c, "read")
      PROVE  HookInv'
  <2> DEFINE R == [r EXCEPT !.at = "read"]
             K == [k EXCEPT !.stdin = "written"]
  <2>1. call' = [call EXCEPT ![c] = R] /\ child' = [child EXCEPT ![c] = K] /\ r.at = "write"
    BY <1>5 DEF WriteRequest, Goes, HookInv
  <2> HIDE DEF r, k
  <2>2. /\ R \in CallType /\ R.at = "read" /\ R.permit = r.permit /\ R.kind = r.kind
        /\ R.exit = r.exit /\ R.out = r.out /\ R.result = r.result
    BY <1>2 DEF CallType, Steps
  <2>3. K \in ChildType /\ K.is = k.is /\ K.out = k.out /\ K.held = k.held
    BY <1>2 DEF ChildType
  <2> HIDE DEF R, K
  <2>4. CallOK(R, K)
    BY <1>1, <2>1, <2>2, <2>3 DEF CallOK, WithPermit, BeforeSpawn, Answered
  <2> QED BY <1>1, <2>1, <2>2, <2>4, OneCallMoves DEF r
<1>6. ASSUME r.at = "read", Ended(c), UNCHANGED child, call' = [call EXCEPT ![c].out = "complete"]
      PROVE  HookInv'
  <2> DEFINE R == [r EXCEPT !.out = "complete"]
  <2>1. /\ call' = [call EXCEPT ![c] = R] /\ child' = [child EXCEPT ![c] = k]
        /\ k.is = "exited" /\ ~k.held
    BY <1>6 DEF HookInv, Ended
  <2> HIDE DEF r, k
  <2>2. /\ R \in CallType /\ R.at = r.at /\ R.permit = r.permit /\ R.kind = r.kind
        /\ R.exit = r.exit /\ R.out = "complete" /\ R.result = r.result
    BY <1>2 DEF CallType
  <2> HIDE DEF R
  <2>3. CallOK(R, k)
    BY <1>1, <1>6, <2>1, <2>2 DEF CallOK, BeforeSpawn
  <2> QED BY <1>1, <2>1, <2>2, <2>3, OneCallMoves DEF r
<1>7. ASSUME UNCHANGED child, call' = [call EXCEPT ![c].err = "complete"]
      PROVE  HookInv'
  <2> DEFINE R == [r EXCEPT !.err = "complete"]
  <2>1. /\ call' = [call EXCEPT ![c] = R] /\ child' = [child EXCEPT ![c] = k]
    BY <1>7 DEF HookInv
  <2> HIDE DEF r, k
  <2>2. /\ R \in CallType /\ R.at = r.at /\ R.permit = r.permit /\ R.kind = r.kind
        /\ R.exit = r.exit /\ R.out = r.out /\ R.result = r.result
    BY <1>2 DEF CallType
  <2> HIDE DEF R
  <2>3. CallOK(R, k)
    BY <1>1, <2>2 DEF CallOK
  <2> QED BY <1>1, <2>1, <2>2, <2>3, OneCallMoves DEF r
<1>8. CASE WriteRequest(c)
  BY <1>4, <1>5, <1>8 DEF WriteRequest
<1>9. CASE ReadStream(c)
  BY <1>4, <1>6, <1>7, <1>9 DEF ReadStream
<1>10. CASE CommunicateExpires(c)
  BY <1>4, <1>10 DEF CommunicateExpires
<1> QED BY <1>8, <1>9, <1>10

\* How a call ends once its child is waited for, or when its future is dropped.
LEMMA CallEndsWell ==
    ASSUME HookInv, NEW c \in Calls,
           Reap(c) \/ Finish(c) \/ Cancel(c)
    PROVE  HookInv'
<1> DEFINE r == call[c]
           k == child[c]
           gone == [NoChild EXCEPT !.is = "reaped"]
<1>1. CallOK(r, k) /\ UNCHANGED <<script, policy>>
  BY DEF HookInv, Reap, Finish, Cancel
<1>2. r \in CallType /\ k \in ChildType
  BY <1>1 DEF CallOK
<1>3. gone \in ChildType /\ gone.is = "reaped" /\ gone.out = "silent"
  BY ReapedChild
<1>4. ASSUME NEW result \in ResultType, result.is # "failed" => Checked(r.kind, result),
             Return(c, result), child' = [child EXCEPT ![c] = gone]
      PROVE  HookInv'
  <2> HIDE DEF gone
  <2> QED BY <1>1, <1>3, <1>4, CallReturns
<1>5. CASE Reap(c)
  <2>1. r.at = "reap" /\ Return(c, r.result) /\ child' = [child EXCEPT ![c] = gone]
    BY <1>5 DEF Reap
  <2>2. r.result \in ResultType /\ r.result.is = "failed"
    BY <1>1, <1>2, <2>1 DEF CallOK, CallType
  <2> QED BY <1>4, <2>1, <2>2
<1>6. CASE Finish(c)
  <2>1. /\ r.at = "read" /\ HasAll(c) /\ child' = [child EXCEPT ![c] = gone]
        /\ \/ Return(c, Failed("exit")) \/ Return(c, Timeout) \/ Return(c, Failed("malformed output"))
           \/ /\ r.exit # "failure" /\ k.out = "response"
              /\ Return(c, Interpret(r.kind, Bootstrap(r.kind)))
    BY <1>6 DEF Finish
  <2>2. "exit" \in ResultDetails /\ "timeout" \in ResultDetails /\ "malformed output" \in ResultDetails
    BY DEF ResultDetails
  <2>3. CASE Return(c, Failed("exit")) \/ Return(c, Timeout) \/ Return(c, Failed("malformed output"))
    BY <1>4, <2>1, <2>2, <2>3, FailureType DEF Timeout
  <2>4. CASE /\ r.exit # "failure" /\ k.out = "response"
             /\ Return(c, Interpret(r.kind, Bootstrap(r.kind)))
    <3>1. r.out = "complete" /\ r.exit = "success"
      BY <1>2, <2>1, <2>4 DEF HasAll, CallType
    <3>2. /\ Interpret(r.kind, Bootstrap(r.kind)) \in ResultType
          /\ Interpret(r.kind, Bootstrap(r.kind)).is # "failed"
               => Checked(r.kind, Interpret(r.kind, Bootstrap(r.kind)))
      BY <1>1, <2>1, <2>4, <3>1, AnswerIsChecked
    <3> QED BY <1>4, <2>1, <2>4, <3>2
  <2> QED BY <2>1, <2>3, <2>4
<1>7. CASE Cancel(c)
  <2> DEFINE R == [NoCall EXCEPT !.kind = r.kind, !.at = "cancelled"]
             is == IF k.is = "running" THEN "killed" ELSE k.is
             K == [NoChild EXCEPT !.is = is]
  <2>1. call' = [call EXCEPT ![c] = R] /\ child' = [child EXCEPT ![c] = K]
    BY <1>7 DEF Cancel, HookInv
  <2>2. is \in {"none", "exited", "killed", "reaped"} /\ r.kind \in AllKinds
    BY <1>2 DEF ChildType, CallType
  <2> HIDE DEF is, r, k
  <2>3. NoResult \in ResultType /\ NoResult.is = "none"
    BY DEF NoResult, Value, ResultType, Outcomes, ResultDetails
  <2>4. /\ R \in CallType /\ R.at = "cancelled" /\ R.permit = FALSE /\ R.kind = r.kind
        /\ R.exit = "none" /\ R.out = "open" /\ R.result = NoResult
    BY <2>2, <2>3 DEF CallType, Steps, NoCall
  <2>5. K \in ChildType /\ K.is = is /\ K.out = "silent" /\ K.held = FALSE
    BY <2>2, ReapedChild
  <2> HIDE DEF R, K
  <2>6. Checked(R.kind, R.result)
    BY <2>3, <2>4 DEF Checked
  <2>7. CallOK(R, K)
    BY <2>2, <2>3, <2>4, <2>5, <2>6 DEF CallOK, WithPermit, BeforeSpawn
  <2> QED BY <1>1, <2>1, <2>4, <2>7, OneCallMoves
<1> QED BY <1>5, <1>6, <1>7

\* The subprocess acts on its own.
LEMMA ChildActs ==
    ASSUME HookInv, NEW c \in Calls, Subprocess(c)
    PROVE  HookInv'
<1> DEFINE r == call[c]
           k == child[c]
<1>1. /\ CallOK(r, k) /\ UNCHANGED <<script, policy>> /\ k.is = "running"
      /\ call' = [call EXCEPT ![c] = r]
  BY DEF HookInv, Subprocess, ChildAnswers, ChildFloods, ChildDies
<1>2. r \in CallType /\ k \in ChildType
  BY <1>1 DEF CallOK
<1>3. ASSUME NEW K \in ChildType, child' = [child EXCEPT ![c] = K], K.is \in {"running", "exited"},
             K.out = "response" => Answered(r.kind, K)
      PROVE  HookInv'
  <2>1. r.at \in {"write", "read"} /\ r.out = "open"
    BY <1>1, <1>2 DEF CallOK, CallType
  <2> HIDE DEF r
  <2>2. CallOK(r, K)
    BY <1>1, <1>3, <2>1 DEF CallOK, BeforeSpawn
  <2> QED BY <1>1, <1>3, <2>2, OneCallMoves DEF r
<1>4. CASE ChildAnswers(c)
  <2> DEFINE held == Conduct(r.kind) = "leaves a process"
             K == [k EXCEPT !.is = "exited", !.out = "response", !.held = held]
  <2>1. child' = [child EXCEPT ![c] = K]
        /\ Conduct(r.kind) \in {"returns", "raises", "exits with an error", "leaves a process"}
    BY <1>4 DEF ChildAnswers, HookInv
  <2>2. held \in BOOLEAN
    OBVIOUS
  <2>3. K \in ChildType /\ K.is = "exited" /\ K.out = "response" /\ K.held = held
    <3> HIDE DEF held, k
    <3> QED BY <1>2, <2>2 DEF ChildType
  <2>4. Answered(r.kind, K)
    <3> HIDE DEF K
    <3> QED BY <2>1, <2>3 DEF Answered
  <2> HIDE DEF K
  <2> QED BY <1>3, <2>1, <2>3, <2>4
<1>5. CASE ChildFloods(c)
  <2> DEFINE K == [k EXCEPT !.out = "flood"]
  <2>1. child' = [child EXCEPT ![c] = K]
    BY <1>5 DEF ChildFloods, HookInv
  <2>2. K \in ChildType /\ K.is = k.is /\ K.out = "flood"
    <3> HIDE DEF k
    <3> QED BY <1>2 DEF ChildType
  <2> HIDE DEF K
  <2> QED BY <1>1, <1>3, <2>1, <2>2
<1>6. CASE ChildDies(c)
  <2> DEFINE K == [k EXCEPT !.is = "exited"]
  <2>1. child' = [child EXCEPT ![c] = K]
    BY <1>6 DEF ChildDies, HookInv
  <2>2. K \in ChildType /\ K.is = "exited" /\ K.out = k.out /\ K.held = k.held
    <3> HIDE DEF k
    <3> QED BY <1>2 DEF ChildType
  <2>3. K.out = "response" => Answered(r.kind, K)
    <3> HIDE DEF K
    <3> QED BY <1>1, <2>2 DEF CallOK, Answered
  <2> HIDE DEF K
  <2> QED BY <1>3, <2>1, <2>2, <2>3
<1> QED BY <1>4, <1>5, <1>6 DEF Subprocess

LEMMA NextHookInv == HookInv /\ [HookNext]_hookVars => HookInv'
<1> SUFFICES ASSUME HookInv, [HookNext]_hookVars PROVE HookInv'
  OBVIOUS
<1>1. ASSUME NEW c \in Calls, StartCall(c) \/ Runs(c) \/ Subprocess(c) \/ Expire(c) \/ Cancel(c)
      PROVE  HookInv'
  BY <1>1, CallMovesOn, CallStarts, CallCommunicates, CallEndsWell, ChildActs DEF Runs
<1>2. CASE UNCHANGED hookVars
  <2>1. UNCHANGED <<script, policy, call, child>>
    BY <1>2 DEF hookVars
  <2>2. \A c \in Calls : CallOK(call[c], child[c])'
    BY <2>1, ScriptStays DEF HookInv
  <2> QED BY <2>1, <2>2 DEF HookInv, Holders
<1> QED BY <1>1, <1>2 DEF HookNext, AllOver

-----------------------------------------------------------------------------
(* The results.                                                            *)

LEMMA SpecHookInv == HookSpec => []HookInv
BY InitHookInv, NextHookInv, PTL DEF HookSpec

LEMMA HookInvIsClean == HookInv => CallsAreCleanedUp
<1> SUFFICES ASSUME HookInv PROVE CallsAreCleanedUp
  OBVIOUS
<1>1. \A c \in Calls : CallOK(call[c], child[c])
  BY DEF HookInv
<1>2. IsFiniteSet(Calls) /\ MaxConcurrency \in Nat /\ Holders \subseteq Calls
  BY ValidateConfig DEF Holders
<1>3. IsFiniteSet(Holders) /\ Cardinality(Holders) \in Nat /\ Cardinality(Holders) <= MaxConcurrency
  BY <1>2, FS_Subset, FS_CardinalityType DEF HookInv
<1>4. Permits = MaxConcurrency - Cardinality(Holders)
  BY DEF Permits, Holders
<1>5. (\A c \in Calls : call[c].at \in Over) => Permits = MaxConcurrency
  <2> HAVE \A c \in Calls : call[c].at \in Over
  <2>1. Holders = {}
    BY <1>1 DEF Holders, CallOK, WithPermit, Over
  <2> QED BY <1>2, <1>4, <2>1, FS_EmptySet
<1>6. ASSUME NEW c \in Calls
      PROVE  /\ call[c].kind \in AllKinds /\ call[c].expired \in BOOLEAN /\ call[c].permit \in BOOLEAN
             /\ call[c].result.is \in Outcomes
             /\ child[c].is \in {"none", "running", "exited", "killed", "reaped"}
  <2>1. call[c] \in CallType /\ child[c] \in ChildType
    BY <1>1 DEF CallOK
  <2>2. call[c].result \in ResultType
    BY <2>1 DEF CallType
  <2> QED BY <2>1, <2>2 DEF CallType, ChildType, ResultType
<1>7. HookTypeOK
  <2>1. Permits \in 0 .. MaxConcurrency
    BY <1>2, <1>3, <1>4
  <2> QED BY <1>5, <1>6, <2>1 DEF HookTypeOK, Outcomes
<1>8. ASSUME NEW c \in Calls
      PROVE  /\ call[c].at \in Over => child[c].is # "running"
             /\ call[c].at = "done" => child[c].is \in {"none", "reaped"}
  BY <1>1 DEF CallOK, Over
<1>9. {c \in Calls : child[c].is = "running"} \subseteq Holders
  BY <1>1 DEF CallOK, Holders, WithPermit
<1>10. Cardinality({c \in Calls : child[c].is = "running"}) <= MaxConcurrency
  <2> DEFINE S == {c \in Calls : child[c].is = "running"}
  <2>1. Cardinality(S) <= Cardinality(Holders) /\ IsFiniteSet(S)
    BY <1>3, <1>9, FS_Subset
  <2>2. Cardinality(S) \in Nat
    BY <2>1, FS_CardinalityType
  <2> HIDE DEF S
  <2>3. Cardinality(S) <= MaxConcurrency
    BY <1>2, <1>3, <2>1, <2>2
  <2> QED BY <2>3 DEF S
<1> QED BY <1>7, <1>8, <1>10 DEF CallsAreCleanedUp, NoSubprocessIsLeft

LEMMA HookInvIsChecked == HookInv => OnlyCheckedAnswersCount
<1> SUFFICES ASSUME HookInv PROVE OnlyCheckedAnswersCount
  OBVIOUS
<1>1. \A c \in Calls : Checked(call[c].kind, call[c].result)
  BY DEF HookInv, CallOK
<1>2. NothingPassesUnasked
  BY <1>1 DEF Checked, NothingPassesUnasked
<1>3. ChangesAreValid /\ ValidatedIsUsable
  BY <1>1 DEF Checked, ChangesAreValid, ValidatedIsUsable
<1> QED BY <1>2, <1>3 DEF OnlyCheckedAnswersCount

\* However the calls of the hook runtime end - by an answer, an error, the deadline or a dropped
\* future - no permit of the semaphore is lost and no subprocess is left running (run_request).
THEOREM HooksCleanUp == HookSpec => []CallsAreCleanedUp
BY SpecHookInv, HookInvIsClean, PTL

\* A message passes a closed before_send policy, and a script counts as valid, only on an answer that
\* was asked for, read to its end in time and checked (invoke, apply_before_send_result).
THEOREM HooksAreAsked == HookSpec => []OnlyCheckedAnswersCount
BY SpecHookInv, HookInvIsChecked, PTL

=============================================================================
