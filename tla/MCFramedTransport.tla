------------------------- MODULE MCFramedTransport -------------------------
(***************************************************************************)
(* The framed transport for TLC: a packet that holds the marker, one whose *)
(* bytes look like a header, and a payload that is too large to write.     *)
(* What travels inside the frames is checked along with it: the properties *)
(* of the packet and payload codecs are about constants alone, so that one *)
(* state is enough for them.                                               *)
(***************************************************************************)
EXTENDS FramedTransport
Codec == INSTANCE PacketCodec
Remote == INSTANCE RemotePayloads

SomePackets == {<<3>>, <<1, 0>>}
SomePayloads == {<<1>>, <<1, 2>>}

\* The transport as it was created.
Untouched == connections = 0 /\ doing = "none"

\* Packets are parsed inside their bounds, commands fit a frame, and settings are
\* written where they are read back (meshquill-core/protocol.rs).
PacketsAreSafe ==
    Untouched => Codec!ParsersStayInside /\ Codec!CommandsFit /\ Codec!WrittenWhereRead

\* Records, pages and texts of remote answers are read as they were written, or
\* refused (meshquill-core/remote.rs).
PayloadsAreExact ==
    Untouched => Remote!RecordsAreExact /\ Remote!EntriesTileThePage /\ Remote!TextsAreKept
=============================================================================
