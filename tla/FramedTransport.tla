-------------------------- MODULE FramedTransport --------------------------
(***************************************************************************)
(* The TCP and serial transports: a byte stream with an outer frame around *)
(* every packet (meshquill-core/framing.rs, meshquill-transport/framed.rs, *)
(* tcp.rs, serial.rs).  Bytes arrive in chunks of any size, with noise     *)
(* between frames; a read or a write may be dropped half-way, fail, or be  *)
(* cut off by the peer; one operation runs at a time (&mut self).          *)
(***************************************************************************)
EXTENDS Naturals, Sequences, FiniteSets, FiniteSetsExt, SequencesExt

CONSTANTS Base,            \* number of byte values; the program's is 256
          DevicePrefix,    \* DEVICE_FRAME_PREFIX
          AppPrefix,       \* APP_FRAME_PREFIX
          MaxOuter,        \* MAX_OUTER_PAYLOAD
          MaxInner,        \* MAX_INNER_PAYLOAD
          Packets,         \* packets the companion may send
          Payloads,        \* packets the client may write
          MaxItems,        \* bound: frames and noise per connection
          MaxWrites,       \* bound: writes per connection
          MaxConnections   \* bound: connections

Byte == 0..(Base - 1)

ASSUME FramingAssumption ==
    /\ Base \in Nat /\ DevicePrefix \in Byte /\ AppPrefix \in Byte /\ AppPrefix # DevicePrefix
    /\ MaxInner <= MaxOuter /\ MaxOuter + 1 < Base * Base
    /\ \A p \in Packets \cup Payloads : p \in Seq(Byte)
    /\ \A p \in Packets : Len(p) <= MaxOuter

VARIABLES
    connected,  \* stream.is_some()
    buffered,   \* FramedReadState::buffered
    doing,      \* the operation whose future is being polled
    torn,       \* a write was dropped half-way
    wire,       \* bytes of the companion still on their way
    eof,        \* the companion closed its end after them
    items,      \* number of things the companion put on the stream
    said,       \* packets the companion sent on this connection
    got,        \* packets read on this connection
    begun,      \* payloads whose write began on this connection
    out,        \* for each of them, the bytes that reached the companion
    misled,     \* history: the rest of a dropped oversized frame holds a marker
    connections

vars == <<connected, buffered, doing, torn, wire, eof, items, said, got, begun, out, misled, connections>>
peer == <<wire, eof, items, said>>

-----------------------------------------------------------------------------
(* The outer frame.                                                        *)

Header(prefix, n) == <<prefix, n % Base, n \div Base>>
DeviceFrame(packet) == Header(DevicePrefix, Len(packet)) \o packet

\* OuterEncoder::encode: the marker, the length in two bytes, least significant first, the payload.
EncodePayload(payload) == Header(AppPrefix, Len(payload)) \o payload

\* Everything from the first device marker on.
FromPrefix(bytes) ==
    LET marks == {i \in DOMAIN bytes : bytes[i] = DevicePrefix}
    IN IF marks = {} THEN <<>> ELSE SubSeq(bytes, Min(marks), Len(bytes))

\* Mutation: noise takes the frame behind it along.
DiscardAllNoise(bytes) == IF bytes = <<>> \/ bytes[1] = DevicePrefix THEN bytes ELSE <<>>

DiscardPrecedingNoise(bytes) == FromPrefix(bytes)

\* What an oversized frame takes along: itself, as far as it has arrived.
Oversized(total, src) == Min({total, Len(src)})

\* OuterDecoder::decode: one frame, an error, or more bytes wanted; `rest` is what stays buffered,
\* `missing` how much of an oversized frame had not arrived when it was dropped.
Decode(bytes) ==
    LET src == FromPrefix(bytes)
        declared == src[2] + Base * src[3]
        total == 3 + declared
        After(n) == SubSeq(src, n + 1, Len(src))
        Waits == [kind |-> "none", payload |-> <<>>, rest |-> src, missing |-> 0]
    IN CASE Len(src) < 3 -> Waits
         [] Len(src) >= 3 /\ declared > MaxOuter ->
                [kind |-> "oversized", payload |-> <<>>, rest |-> After(Oversized(total, src)),
                 missing |-> total - Oversized(total, src)]
         [] Len(src) >= 3 /\ declared <= MaxOuter /\ Len(src) < total -> Waits
         [] OTHER -> [kind |-> "frame", payload |-> SubSeq(src, 4, total), rest |-> After(total), missing |-> 0]

-----------------------------------------------------------------------------
(* Connecting and disconnecting.                                           *)

Idle == doing = "none" /\ ~torn

Fresh ==
    /\ wire' = <<>> /\ eof' = FALSE /\ items' = 0
    /\ said' = <<>> /\ got' = <<>> /\ begun' = <<>> /\ out' = <<>> /\ misled' = FALSE

\* stream.take() with read_state.reset(): the stream is closed, its two directions end.
Drops == connected' = FALSE /\ buffered' = <<>> /\ Fresh

Stream == <<connected, wire, eof, items, said, got, begun, out, misled>>

StartConnect ==
    /\ buffered' = <<>> /\ doing' = "connect"
    /\ UNCHANGED <<Stream, torn, connections>>

\* connect() on an open stream is an error that changes nothing.
ConnectCall == Idle /\ ~connected /\ StartConnect

\* A serial open that times out goes on in its blocking worker, which drops the port it opens.
ConnectEnds ==
    /\ doing = "connect" /\ doing' = "none"
    /\ \/ /\ connections < MaxConnections /\ connections' = connections + 1
          /\ connected' = TRUE /\ Fresh
       \/ UNCHANGED <<Stream, connections>>
    /\ UNCHANGED <<buffered, torn>>

\* The stream is taken before the shutdown is awaited: a disconnect that fails or is dropped has
\* closed the connection all the same.
TakesStream(operation) ==
    /\ connected
    /\ Drops /\ doing' = operation /\ torn' = FALSE
    /\ UNCHANGED connections

DisconnectCall ==
    /\ doing = "none"
    /\ \/ TakesStream("disconnect")
       \/ /\ ~connected /\ buffered' = <<>>
          /\ UNCHANGED <<Stream, doing, torn, connections>>

\* ReconnectableTransport::reconnect: disconnect()?, then connect().
ReconnectCall ==
    /\ Idle
    /\ \/ TakesStream("reconnect")
       \/ ~connected /\ StartConnect

ShutdownEnds ==
    /\ doing \in {"disconnect", "reconnect"}
    /\ \/ doing = "reconnect" /\ StartConnect
       \/ /\ doing' = "none"  \* done, or reconnect ends with the error of the shutdown
          /\ UNCHANGED <<Stream, buffered, torn, connections>>

-----------------------------------------------------------------------------
(* Reading.                                                                *)

\* The head of read_from's loop, with the bytes buffered so far and those `behind` them: a packet
\* or the error of an oversized frame is returned, otherwise the stream is read.  What comes later
\* of an oversized frame is searched for a marker like noise.
ReadLoop(bytes, behind) ==
    \E decoded \in {Decode(DiscardPrecedingNoise(bytes))} :
       /\ buffered' = decoded.rest
       /\ doing' = IF decoded.kind = "none" THEN "read" ELSE "none"
       /\ got' = IF decoded.kind = "frame" THEN Append(got, decoded.payload) ELSE got
       /\ misled' = (misled \/ DevicePrefix \in Range(SubSeq(behind, 1, Min({decoded.missing, Len(behind)}))))

\* Without a stream a read is an error that changes nothing.
ReadCall ==
    /\ Idle /\ connected
    /\ ReadLoop(buffered, wire)
    /\ UNCHANGED <<connected, torn, peer, begun, out, connections>>

Arrives ==
    /\ doing = "read"
    /\ \E n \in DOMAIN wire :
          /\ wire' = SubSeq(wire, n + 1, Len(wire))
          /\ ReadLoop(buffered \o SubSeq(wire, 1, n), wire')
    /\ UNCHANGED <<connected, torn, eof, items, said, begun, out, connections>>

\* A read of zero bytes: a clean end or, with part of a frame buffered, an unexpected one.
ReadEnds ==
    /\ doing = "read" /\ eof /\ wire = <<>>
    /\ Drops /\ doing' = "none"
    /\ UNCHANGED <<torn, connections>>

\* is_terminal_read_error: an error that proves the connection gone drops the stream, any other
\* keeps it.
ReadFails ==
    /\ doing = "read" /\ doing' = "none"
    /\ Drops \/ UNCHANGED <<Stream, buffered>>
    /\ UNCHANGED <<torn, connections>>

-----------------------------------------------------------------------------
(* Writing.                                                                *)

\* A payload that is too large, and any write without a stream, is refused before the stream is
\* touched.
ValidPayload(payload) == Len(payload) <= MaxInner

WriteCall ==
    /\ Idle /\ connected /\ Len(begun) < MaxWrites
    /\ \E payload \in Payloads : ValidPayload(payload) /\ begun' = Append(begun, payload)
    /\ out' = Append(out, <<>>) /\ doing' = "write"
    /\ UNCHANGED <<connected, buffered, torn, peer, got, misled, connections>>

Latest == Len(begun)
Frame == EncodePayload(begun[Latest])

\* write_all hands over any part of what is left.
WriteSome ==
    /\ doing = "write"
    /\ \E n \in (Len(out[Latest]) + 1)..Len(Frame) : out' = [out EXCEPT ![Latest] = SubSeq(Frame, 1, n)]
    /\ UNCHANGED <<connected, buffered, doing, torn, peer, got, begun, misled, connections>>

Written ==
    /\ doing = "write" /\ out[Latest] = Frame /\ doing' = "none"
    /\ UNCHANGED <<connected, buffered, torn, peer, got, begun, out, misled, connections>>

\* Mutation: the timeout of a write keeps the stream.
WriteFailsKeepsStream ==
    /\ doing = "write" /\ doing' = "none" /\ buffered' = <<>>
    /\ UNCHANGED <<connected, torn, peer, got, begun, out, misled, connections>>

\* write_framed_bounded: an error or the timeout drops the stream with the frame half written.
WriteFails ==
    /\ doing = "write" /\ doing' = "none"
    /\ Drops
    /\ UNCHANGED <<torn, connections>>

\* A future dropped at an await.  A dropped read has buffered only complete chunks; a dropped
\* write leaves part of a frame behind, and the command actor's next operation is a disconnect.
Cancel ==
    /\ doing # "none" /\ doing' = "none"
    /\ torn' = (doing = "write")
    /\ UNCHANGED <<Stream, buffered, connections>>

-----------------------------------------------------------------------------
(* The companion.                                                          *)

Puts(bytes) ==
    /\ connected /\ ~eof /\ items < MaxItems
    /\ wire' = wire \o bytes /\ items' = items + 1
    /\ UNCHANGED <<connected, buffered, doing, torn, eof, got, begun, out, misled, connections>>

DeviceSends == \E p \in Packets : said' = Append(said, p) /\ Puts(DeviceFrame(p))

\* Bytes outside a frame, and a frame whose length is beyond the limit, with the marker at any
\* place of its payload or, for 0, nowhere.
Noise == 0
TooLong(mark) ==
    Header(DevicePrefix, MaxOuter + 1)
      \o [i \in 1..(MaxOuter + 1) |-> IF i = mark THEN DevicePrefix ELSE Noise]
DeviceNoise ==
    /\ UNCHANGED said
    /\ Puts(<<Noise>>) \/ \E mark \in 0..(MaxOuter + 1) : Puts(TooLong(mark))

\* The companion closes, at any byte.
DeviceCloses ==
    /\ connected /\ ~eof /\ eof' = TRUE
    /\ \E n \in 0..Len(wire) : wire' = SubSeq(wire, 1, n)
    /\ UNCHANGED <<connected, buffered, doing, torn, items, said, got, begun, out, misled, connections>>

-----------------------------------------------------------------------------
Init ==
    /\ connected = FALSE /\ buffered = <<>> /\ doing = "none" /\ torn = FALSE
    /\ wire = <<>> /\ eof = FALSE /\ items = 0 /\ said = <<>> /\ got = <<>> /\ begun = <<>>
    /\ out = <<>> /\ misled = FALSE /\ connections = 0

Next ==
    \/ ConnectCall \/ ConnectEnds \/ DisconnectCall \/ ReconnectCall \/ ShutdownEnds
    \/ ReadCall \/ Arrives \/ ReadEnds \/ ReadFails
    \/ WriteCall \/ WriteSome \/ Written \/ WriteFails \/ Cancel
    \/ DeviceSends \/ DeviceNoise \/ DeviceCloses

\* Operations are bounded by their timeouts; the actor comes back to its idle read between
\* commands, disconnects after a dropped write, and what was sent arrives.
Fairness ==
    /\ SF_vars(ReadCall) /\ SF_vars(Arrives) /\ SF_vars(ReadEnds)
    /\ WF_vars(ConnectEnds) /\ WF_vars(ShutdownEnds) /\ WF_vars(Written \/ WriteSome \/ WriteFails)
    /\ WF_vars(torn /\ DisconnectCall)

Spec == Init /\ [][Next]_vars /\ Fairness

-----------------------------------------------------------------------------
(* Properties.                                                             *)

\* Every variable has its type, nothing is buffered or half written without a connection, and a
\* read waits only with less than one frame in its buffer, in step with the stream or not.
TypeOK ==
    /\ connected \in BOOLEAN /\ torn \in BOOLEAN /\ eof \in BOOLEAN
    /\ doing \in {"none", "connect", "disconnect", "reconnect", "read", "write"}
    /\ \A bytes \in {buffered, wire} \cup Range(out) : bytes \in Seq(Byte)
    /\ said \in Seq(Packets) /\ begun \in Seq(Payloads) /\ Len(out) = Len(begun)
    /\ items \in 0..MaxItems /\ connections \in 0..MaxConnections
    /\ ~connected => buffered = <<>> /\ begun = <<>> /\ ~torn /\ ~misled
    /\ doing = "read" =>
          /\ Len(buffered) < 3 + MaxOuter
          /\ Decode(buffered).kind = "none" /\ Decode(buffered).rest = buffered

\* What reached the companion on a connection is the frames of the payloads written, in order and
\* whole, and after them at most one frame cut short: no write starts behind a partial frame
\* (write_framed_bounded, and the disconnect after an interrupted command).
NoWriteBehindPartialFrame ==
    \A i \in DOMAIN out :
       IF i < Latest \/ Idle THEN out[i] = EncodePayload(begun[i]) ELSE IsPrefix(out[i], Frame)

Unread == SubSeq(said, Len(got) + 1, Len(said))

\* The link as far as the reader can be trusted: a connection on which it was misled is as good as
\* closed.
Link == INSTANCE PacketLink WITH connected <- connected /\ ~misled,
                                 pending <- IF misled THEN <<>> ELSE Unread,
                                 received <- IF misled THEN <<>> ELSE got

\* The byte stream implements a link of packets: whatever the chunks, the noise, the oversized
\* frames, the dropped reads and the reconnects, read returns the packets the companion sent on
\* this connection, each once, whole and in order, until an oversized frame is dropped before all
\* of it has arrived and what is missing holds a marker (Transport::read, FramedReadState).
ReadsThePacketsSent == Link!Spec

\* Until then a packet is read as long as its connection lasts: noise, an oversized frame or an
\* error that keeps the stream never makes the reader lose its place.
SentIsRead ==
    \A n \in 1..MaxItems :
        (connected /\ ~misled /\ Len(said) >= n) ~> (~connected \/ misled \/ Len(got) >= n)

\* docs/research.md: a streaming decoder resynchronizes after a declared length above the limit.
\* This does not hold: the rest of the frame is searched for a marker, and what follows one is
\* returned as a packet that nobody sent.
Resynchronizes == IsPrefix(got, said)

\* Both directions of the stream stay at frame boundaries.
StreamIsInStep == TypeOK /\ NoWriteBehindPartialFrame

\* The packets the companion sends are what the client reads, and it reads them all, as long as
\* the rest of an oversized frame does not mislead it.
PacketsArrive == ReadsThePacketsSent /\ SentIsRead
=============================================================================
