---------------------------- MODULE PacketCodec ----------------------------
(***************************************************************************)
(* The companion packets (meshquill-core/protocol.rs) as layouts: which    *)
(* lengths and deciding bytes a parser accepts and which bytes it then     *)
(* reads, and how long the commands are that a builder lets through.       *)
(* Codes are names and a packet is its length and the bytes that decide.   *)
(***************************************************************************)
EXTENDS Integers, Sequences, FiniteSets, FiniteSetsExt, SequencesExt, TLC

MaxInnerPayload == 176  \* MAX_INNER_PAYLOAD
MaxPath == 128          \* Path::MAX_BYTES

\* PacketCode: the codes with a parser.  Every other code is kept whole as an unknown packet.
PacketCodes ==
    {"Ok", "Error", "ContactStart", "Contact", "ContactEnd", "SelfInfo", "MsgSent", "ContactMsgRecv",
     "ChannelMsgRecv", "CurrentTime", "NoMoreMsgs", "ContactUri", "Battery", "DeviceInfo",
     "PrivateKey", "Disabled", "ContactMsgRecvV3", "ChannelMsgRecvV3", "ChannelInfo", "SignStart",
     "Signature", "CustomVars", "AdvertPath", "TuningParams", "Stats", "AutoaddConfig", "AllowedRepeatFreq",
     "DefaultFloodScope", "Ack", "MessagesWaiting", "LoginSuccess", "LoginFailed", "StatusResponse",
     "TelemetryResponse", "BinaryResponse", "PathDiscoveryResponse", "ControlData", "Unknown"}

\* A read of `width` bytes from offset `at`.
Take(at, width) == [at |-> at, width |-> width]
Rest(p, at) == Take(at, p.len - at)
Within(takes, len) == \A t \in takes : t.at <= len /\ t.at + t.width <= len

\* The outcome of a parser: whether it accepts, and the bytes it takes when it does.
Parsed(ok, takes) == [ok |-> ok, takes |-> takes]

-----------------------------------------------------------------------------
(* Routes.  A descriptor holds the bytes per hop less one in its two high  *)
(* bits and the number of hops in the other six; 255 is a flood.           *)

Flood == 255
HashMode(descriptor) == descriptor \div 64
HopCount(descriptor) == descriptor % 64
PathBytes(descriptor) ==
    IF descriptor = Flood THEN 0 ELSE HopCount(descriptor) * (HashMode(descriptor) + 1)

\* encode_contact_route for ContactRoute::Path.
EncodeContactRoute(mode, hops, pathLen) ==
    [ok |-> mode <= 2 /\ hops <= 63 /\ pathLen = hops * (mode + 1) /\ pathLen <= 64,
     descriptor |-> mode * 64 + hops]

-----------------------------------------------------------------------------
(* Packet::parse.                                                          *)

ParseOk(p) == Parsed(p.len \in {1, 5}, IF p.len = 5 THEN {Take(1, 4)} ELSE {})
ParseError(p) == Parsed(TRUE, IF p.len > 1 THEN {Take(1, 1)} ELSE {})
ParseDisabled(p) == Parsed(p.len = 1, {})
ParseCurrentTime(p) == Parsed(p.len = 5, {Take(1, 4)})
ParseMsgSent(p) == Parsed(p.len >= 10, {Take(1, 1), Take(2, 4), Take(6, 4)})

\* The round-trip time is there or it is not, never in part.
ParseAck(p) ==
    Parsed(p.len >= 5 /\ p.len \notin 6..8, {Take(1, 4)} \cup IF p.len >= 9 THEN {Take(5, 4)} ELSE {})

ParseSigning(p) ==
    CASE p.code = "SignStart" -> Parsed(p.len = 6 /\ p.at[1] = 0, {Take(2, 4)})
      [] p.code \in {"PrivateKey", "Signature"} -> Parsed(p.len = 65, {Take(1, 64)})

\* Answers of a remote node, sent by its six-byte key prefix.
ParseLogin(p) ==
    CASE p.code = "LoginSuccess" ->
            Parsed(p.len \in {8, 12, 13, 14},
                   {Take(1, 1), Take(2, 6)} \cup (IF p.len >= 12 THEN {Take(8, 4)} ELSE {})
                   \cup (IF p.len >= 13 THEN {Take(12, 1)} ELSE {})
                   \cup (IF p.len >= 14 THEN {Take(13, 1)} ELSE {}))
      [] p.code = "LoginFailed" -> Parsed(p.len = 8 /\ p.at[1] = 0, {Take(2, 6)})

\* Mutation: both layouts of a status are read to the end of the longer one.
ParseAnyRemoteStatus(p) == Parsed(p.len \in {60, 64} /\ p.at[1] = 0, {Take(2, 6), Take(8, 56)})

ParseRemoteStatus(p) ==
    Parsed(p.len \in {60, 64} /\ p.at[1] = 0,
           {Take(2, 6), Take(8, 52)} \cup IF p.len = 64 THEN {Take(60, 4)} ELSE {})

ParseRemoteData(p) ==
    CASE p.code = "TelemetryResponse" ->
            Parsed(p.len >= 8 /\ p.at[1] = 0, {Take(2, 6), Rest(p, 8)})
      [] p.code = "BinaryResponse" -> Parsed(p.len >= 6 /\ p.at[1] = 0, {Take(2, 4), Rest(p, 6)})
      [] p.code = "ControlData" -> Parsed(p.len >= 5, {Take(1, 3), Rest(p, 4)})

\* parse_discovered_path, from `cursor`: the descriptor's path must be there.
DiscoveredPath(p, cursor) ==
    LET ends == cursor + 1 + PathBytes(p.at[cursor])
    IN [ok |-> cursor < p.len /\ ends <= p.len /\ PathBytes(p.at[cursor]) <= MaxPath,
        takes |-> {Take(cursor, 1), Take(cursor + 1, PathBytes(p.at[cursor]))}, ends |-> ends]

ParsePathDiscovery(p) ==
    LET out == DiscoveredPath(p, 8)
        in == DiscoveredPath(p, out.ends)
    IN Parsed(p.len >= 10 /\ p.at[1] = 0 /\ out.ok /\ in.ok /\ in.ends = p.len,
              {Take(2, 6)} \cup out.takes \cup in.takes)

\* Where parse_contact finds its fields; the path field is 64 bytes wide whatever is used of it.
ContactAt ==
    [public_key |-> 1, contact_type |-> 33, flags |-> 34, descriptor |-> 35, out_path |-> 36,
     adv_name |-> 100, last_advert |-> 132, adv_lat |-> 136, adv_lon |-> 140, lastmod |-> 144]

ParseContact(p) ==
    LET used == PathBytes(p.at[ContactAt.descriptor])
    IN Parsed(p.len >= 148 /\ used <= 64,
              {Take(ContactAt.public_key, 32), Take(ContactAt.contact_type, 3),
               Take(ContactAt.out_path, used), Take(ContactAt.adv_name, 32),
               Take(ContactAt.last_advert, 16)})

\* The number of contacts, or the time of the newest.
ParseContactStart(p) == Parsed(p.len >= 5, {Take(1, 4)})
ParseContactEnd(p) == Parsed(p.len >= 5, {Take(1, 4)})
ParseContactUri(p) == Parsed(p.len >= 2, {Rest(p, 1)})
ParseSelfInfo(p) == Parsed(p.len >= 58, {Take(1, 3), Take(4, 32), Take(36, 22), Rest(p, 58)})
ParseAdvertPath(p) ==
    Parsed(p.len >= 6 /\ p.len = 6 + PathBytes(p.at[5]) /\ p.len - 6 <= MaxPath,
           {Take(1, 4), Take(5, 1), Rest(p, 6)})

\* The fields grow with the protocol version.
ParseDeviceInfo(p) ==
    LET version == p.at[1]
    IN Parsed(/\ p.len >= 2
              /\ version >= 3 => p.len >= 80
              /\ version >= 9 => p.len >= 81
              /\ version >= 10 => p.len >= 82,
              {Take(1, 1)} \cup (IF version >= 3 THEN {Take(2, 6), Take(8, 72)} ELSE {})
              \cup (IF version >= 9 THEN {Take(80, 1)} ELSE {})
              \cup (IF version >= 10 THEN {Take(81, 1)} ELSE {}))

\* The V3 layouts carry three more bytes, the signal quality first.
V3(p) == IF p.code \in {"ContactMsgRecvV3", "ChannelMsgRecvV3"} THEN 3 ELSE 0
Snr(p) == IF V3(p) = 3 THEN {Take(1, 1)} ELSE {}

\* A signed text (type 2) has four bytes before the text.
ParseContactMsg(p) ==
    LET fixed == 13 + V3(p)
        text == fixed + IF p.at[8 + V3(p)] = 2 THEN 4 ELSE 0
    IN Parsed(p.len >= fixed /\ text <= p.len,
              Snr(p) \cup {Take(1 + V3(p), 7), Take(8 + V3(p), 5), Take(fixed, text - fixed), Rest(p, text)})

ParseChannelMsg(p) ==
    Parsed(p.len >= 8 + V3(p), Snr(p) \cup {Take(1 + V3(p), 3), Take(4 + V3(p), 4), Rest(p, 8 + V3(p))})

ParseBattery(p) ==
    Parsed(p.len \in {3, 11}, {Take(1, 2)} \cup IF p.len = 11 THEN {Take(3, 4), Take(7, 4)} ELSE {})

ParseStats(p) ==
    Parsed(/\ p.len >= 2
           /\ CASE p.at[1] = 0 -> p.len = 11
                [] p.at[1] = 1 -> p.len = 14
                [] p.at[1] = 2 -> p.len \in {26, 30}
                [] OTHER -> FALSE,
           CASE p.at[1] = 0 -> {Take(2, 2), Take(4, 4), Take(8, 2), Take(10, 1)}
             [] p.at[1] = 1 -> {Take(2, 2), Take(4, 2), Take(6, 4), Take(10, 4)}
             [] OTHER -> {Take(2, 24)} \cup IF p.len = 30 THEN {Take(26, 4)} ELSE {})

\* Settings, read back where the commands below write them.
TuningAt == [rx_delay |-> 1, airtime_factor |-> 5]
ScopeAt == [name |-> 1, key |-> 32]
ChannelAt == [idx |-> 1, name |-> 2, secret |-> 34]

\* The name ends at its first NUL, which must be there and not come first.
NameEnd(p) == {i \in 1..31 : p.at[i] = 0 /\ \A j \in 1..(i - 1) : p.at[j] # 0}

ParseTuningParams(p) == Parsed(p.len = 9, {Take(TuningAt.rx_delay, 4), Take(TuningAt.airtime_factor, 4)})
ParseAutoAddConfig(p) ==
    Parsed(p.len \in {2, 3} /\ (p.len = 3 => p.at[2] <= 64),
           {Take(1, 1)} \cup IF p.len = 3 THEN {Take(2, 1)} ELSE {})
ParseCustomVars(p) == Parsed(p.len - 1 <= 140, {Rest(p, 1)})
ParseAllowedRepeatFrequencies(p) == Parsed((p.len - 1) % 8 = 0, {Rest(p, 1)})
ParseDefaultFloodScope(p) ==
    IF p.len = 1 THEN Parsed(TRUE, {})
    ELSE Parsed(p.len = 48 /\ \E i \in NameEnd(p) : i > 1,
                {Take(ScopeAt.name, i - 1) : i \in NameEnd(p)} \cup {Take(ScopeAt.key, 16)})
ParseChannelInfo(p) ==
    Parsed(p.len >= 50, {Take(ChannelAt.idx, 1), Take(ChannelAt.name, 32), Take(ChannelAt.secret, 16)})

Parse(p) ==
    IF p.len = 0 \/ p.len > MaxInnerPayload THEN Parsed(FALSE, {})
    ELSE CASE p.code = "Ok" -> ParseOk(p)
           [] p.code = "Error" -> ParseError(p)
           [] p.code \in {"NoMoreMsgs", "MessagesWaiting"} -> Parsed(TRUE, {})
           [] p.code = "Disabled" -> ParseDisabled(p)
           [] p.code = "CurrentTime" -> ParseCurrentTime(p)
           [] p.code = "MsgSent" -> ParseMsgSent(p)
           [] p.code = "Ack" -> ParseAck(p)
           [] p.code \in {"SignStart", "PrivateKey", "Signature"} -> ParseSigning(p)
           [] p.code \in {"LoginSuccess", "LoginFailed"} -> ParseLogin(p)
           [] p.code = "StatusResponse" -> ParseRemoteStatus(p)
           [] p.code \in {"TelemetryResponse", "BinaryResponse", "ControlData"} -> ParseRemoteData(p)
           [] p.code = "PathDiscoveryResponse" -> ParsePathDiscovery(p)
           [] p.code = "Contact" -> ParseContact(p)
           [] p.code = "ContactStart" -> ParseContactStart(p)
           [] p.code = "ContactEnd" -> ParseContactEnd(p)
           [] p.code = "ContactUri" -> ParseContactUri(p)
           [] p.code = "SelfInfo" -> ParseSelfInfo(p)
           [] p.code = "AdvertPath" -> ParseAdvertPath(p)
           [] p.code = "DeviceInfo" -> ParseDeviceInfo(p)
           [] p.code \in {"ContactMsgRecv", "ContactMsgRecvV3"} -> ParseContactMsg(p)
           [] p.code \in {"ChannelMsgRecv", "ChannelMsgRecvV3"} -> ParseChannelMsg(p)
           [] p.code = "Battery" -> ParseBattery(p)
           [] p.code = "Stats" -> ParseStats(p)
           [] p.code = "CustomVars" -> ParseCustomVars(p)
           [] p.code = "TuningParams" -> ParseTuningParams(p)
           [] p.code = "AutoaddConfig" -> ParseAutoAddConfig(p)
           [] p.code = "AllowedRepeatFreq" -> ParseAllowedRepeatFrequencies(p)
           [] p.code = "DefaultFloodScope" -> ParseDefaultFloodScope(p)
           [] p.code = "ChannelInfo" -> ParseChannelInfo(p)
           [] OTHER -> Parsed(TRUE, {Rest(p, 1)})  \* Packet::Unknown

\* ControlData::node_discovery_response: a family it does not know is no error and no response.
NodeDiscoveryResponse(family, len, tag) ==
    IF family # 9 THEN Parsed(FALSE, {})
    ELSE Parsed(len \in {14, 38} /\ tag # 0, {Take(0, 1), Take(1, 1), Take(2, 4), Take(6, len - 6)})

-----------------------------------------------------------------------------
(* Commands.  A builder is what it accepts and the size it encodes to, the *)
(* code byte included.                                                     *)

\* Builders whose size the caller cannot change, with the sizes they produce.
FixedSizes ==
    [app_start |-> {13}, device_query |-> {2}, get_contacts |-> {1, 5}, sync_next_message |-> {1},
     get_time |-> {1}, set_time |-> {5}, get_battery |-> {1}, send_self_advert |-> {1, 2}]

FixedRadio ==
    [set_coordinates |-> {13}, set_tx_power |-> {2}, set_radio_params |-> {11, 12},
     set_tuning |-> {11}, get_tuning |-> {1}]

FixedSettings ==
    [set_auto_add_config |-> {2, 3}, get_auto_add_config |-> {1}, get_custom_vars |-> {1},
     get_stats |-> {2}, get_allowed_repeat_frequencies |-> {1}, set_path_hash_mode |-> {3},
     set_flood_scope |-> {2, 18}, clear_default_flood_scope |-> {1}, get_default_flood_scope |-> {1}]

FixedChannels == [get_channel |-> {2}, clear_channel |-> {50}]

FixedTelemetry == [get_self_telemetry |-> {4}]

FixedPrivileged ==
    [send_node_discovery |-> {7, 11}, sign_start |-> {1},
     sign_finish |-> {1}, export_private_key |-> {1}, import_private_key |-> {65},
     set_device_pin |-> {5}, reboot |-> {7}, factory_reset |-> {6}]

Built(ok, size) == [ok |-> ok, size |-> size]

\* Command::checked: nothing above the companion's limit.
Checked(ok, size) == Built(ok /\ size <= MaxInnerPayload, size)

\* command_with_key, command_with_key_suffix: an exact key with bytes before or after it.
WithKey(key, more) == Checked(key = 32, 1 + key + more)

\* validate_text_field, validate_text
TextWithin(n, maximum) == n > 0 /\ n <= maximum

\* The client checks the texts, their builders do not.
SendDirect(prefix, n) == Built(prefix = 6 /\ TextWithin(n, MaxInnerPayload - 13), 7 + prefix + n)
SendChannel(n) == Built(TextWithin(n, MaxInnerPayload - 7), 7 + n)

\* Builders of names, cards and chunks of n bytes.
NameCommand(n) == Checked(TextWithin(n, 31), 1 + n)
ImportContact(n) == Checked(n >= 98, 1 + n)
SignData(n) == Checked(n > 0, 1 + n)
SetCustomVar(key, value) ==
    Checked(TextWithin(key, MaxInnerPayload - 2) /\ TextWithin(value, MaxInnerPayload - 2), 2 + key + value)

\* Requests to a remote node.
SendLogin(key, password) == WithKey(key, password)
SendBinaryRequest(key, data) == WithKey(key, 1 + data)
SendAnonymousRequest(key, mode, hops, path) ==
    LET sent == WithKey(key, 2 + path)
    IN Built(sent.ok /\ EncodeContactRoute(mode, hops, path).ok, sent.size)

\* A layout: fields one after the other, behind the code byte.
OffsetIn(layout, i) == 1 + FoldLeft(LAMBDA sum, field : sum + field[2], 0, SubSeq(layout, 1, i - 1))
SizeOf(layout) == OffsetIn(layout, Len(layout) + 1)

UpdateContact ==
    << <<"public_key", 32>>, <<"contact_type", 1>>, <<"flags", 1>>, <<"descriptor", 1>>, <<"out_path", 64>>,
       <<"adv_name", 32>>, <<"last_advert", 4>>, <<"adv_lat", 4>>, <<"adv_lon", 4>> >>

SetChannel == << <<"idx", 1>>, <<"name", 32>>, <<"secret", 16>> >>
SetDefaultFloodScope == << <<"name", 31>>, <<"key", 16>> >>
SetTuning == << <<"rx_delay", 4>>, <<"airtime_factor", 4>>, <<"reserved", 2>> >>

-----------------------------------------------------------------------------
(* Properties.                                                             *)

\* The bytes that decide about a packet, with the values that matter.
Descriptors == {0, 1, 63, 64, 65, 127, 160, 161, 191, 208, 209, 254, 255}
Decides(code) ==
    CASE code \in {"SignStart", "LoginFailed", "StatusResponse", "TelemetryResponse", "BinaryResponse"} ->
            [{1} -> {0, 1}]
      [] code = "Contact" -> [{35} -> Descriptors]
      [] code = "AdvertPath" -> [{5} -> Descriptors]
      [] code = "DeviceInfo" -> [{1} -> {0, 2, 3, 8, 9, 10, 255}]
      [] code = "Stats" -> [{1} -> 0..3]
      [] code \in {"ContactMsgRecv", "ChannelMsgRecv"} -> [{8} -> {0, 2}]
      [] code \in {"ContactMsgRecvV3", "ChannelMsgRecvV3"} -> [{11} -> {0, 2}]
      [] code = "AutoaddConfig" -> [{2} -> {0, 64, 65}]
      [] code = "DefaultFloodScope" -> {[i \in 1..31 |-> IF i = n THEN 0 ELSE 1] : n \in 0..31}
      [] code = "PathDiscoveryResponse" ->
            {[i \in {1, 8, 9 + PathBytes(d)} |-> IF i = 1 THEN 0 ELSE IF i = 8 THEN d ELSE e] :
                d \in Descriptors, e \in Descriptors}
      [] OTHER -> {<<>>}

\* No packet, of any code and length, makes its parser read past the end: what the length checks
\* let through holds every byte the parser indexes (Packet::parse, which must not panic on what a
\* companion or the noise on a line produces), and the longer layouts of newer firmware are read
\* only when they are there.
ParsersStayInside ==
    /\ \A code \in PacketCodes : \A at \in Decides(code) : \A len \in 0..(MaxInnerPayload + 1) :
          LET p == [code |-> code, len |-> len, at |-> at]
          IN Parse(p).ok => Within(Parse(p).takes, len)
    /\ \A len \in 0..MaxInnerPayload : \A tag \in {0, 1} :
          NodeDiscoveryResponse(9, len, tag).ok => Within(NodeDiscoveryResponse(9, len, tag).takes, len)

\* Every command a builder and the client's own checks let through fits the companion's limit, and
\* a text, a password, a card or a request is refused for its size only when it would not fit
\* (the limits of the client count the headers of two builders that do not check).
CommandsFit ==
    /\ \A sizes \in {FixedSizes, FixedRadio, FixedSettings, FixedChannels, FixedTelemetry, FixedPrivileged} :
          \A name \in DOMAIN sizes : \A size \in sizes[name] : size <= MaxInnerPayload
    /\ \A n \in 1..200 :
          /\ SendDirect(6, n).ok = (SendDirect(6, n).size <= MaxInnerPayload)
          /\ SendChannel(n).ok = (SendChannel(n).size <= MaxInnerPayload)
          /\ SignData(n).ok = (SignData(n).size <= MaxInnerPayload)
          /\ SendLogin(32, n).ok = (SendLogin(32, n).size <= MaxInnerPayload)
          /\ SendBinaryRequest(32, n).ok = (SendBinaryRequest(32, n).size <= MaxInnerPayload)
          /\ n >= 98 => ImportContact(n).ok = (ImportContact(n).size <= MaxInnerPayload)
          /\ NameCommand(n).ok => NameCommand(n).size <= 32
    /\ \A key, value \in {1, 2, 87, 88, 172, 173, 174, 175} :
          SetCustomVar(key, value).ok = (SetCustomVar(key, value).size <= MaxInnerPayload)
    /\ \A key \in {31, 32, 33}, mode \in 0..3, hops \in 0..64, path \in 0..70 :
          SendAnonymousRequest(key, mode, hops, path).ok => key = 32 /\ path = hops * (mode + 1)

\* A setting is written where it is read back: contact, channel, default scope and tuning commands
\* put each field at the offset the parser of the matching packet takes it from, and a route that
\* is encoded comes back with the same path bytes, in a field they fit, never as a flood.
WrittenWhereRead ==
    /\ \A pair \in {<<UpdateContact, ContactAt>>, <<SetChannel, ChannelAt>>,
                    <<SetDefaultFloodScope, ScopeAt>>, <<SetTuning, TuningAt>>} :
          \A i \in DOMAIN pair[1] :
             pair[1][i][1] \in DOMAIN pair[2] => OffsetIn(pair[1], i) = pair[2][pair[1][i][1]]
    /\ \A mode \in 0..3, hops \in 0..64, path \in 0..192 :
          LET route == EncodeContactRoute(mode, hops, path)
          IN route.ok => /\ route.descriptor # Flood /\ PathBytes(route.descriptor) = path
                         /\ Parse([code |-> "Contact", len |-> 148, at |-> (35 :> route.descriptor)]).ok
    /\ SizeOf(SetChannel) = 50 /\ SizeOf(UpdateContact) = 144 /\ SizeOf(SetTuning) = 11
=============================================================================
