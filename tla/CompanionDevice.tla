--------------------------- MODULE CompanionDevice ---------------------------
(***************************************************************************)
(* The companion radio as VirtualCompanion of meshquill-test-support plays *)
(* it, and what the operations of Client take as an answer.  A request is  *)
(* a code with the contact and the value it carries; a handler maps the    *)
(* device and a request to the device after it and the packets it sends    *)
(* back.  Packets are abstracted to their kind.                            *)
(***************************************************************************)
EXTENDS Integers, FiniteSets, Sequences

CONSTANTS Contacts, NoContact, ContactCapacity, MaxMail

ASSUME DeviceAssumption ==
    /\ IsFiniteSet(Contacts) /\ NoContact \notin Contacts
    /\ ContactCapacity \in Nat \ {0}
    /\ MaxMail \in Nat

Routes == {"learned", "flood", "chosen"}
Names == {"old", "new"}
Row(route, name) == [route |-> route, name |-> name]
NoRow == Row("none", "none")

\* VirtualCompanionState; the flood scope and the path hash mode are state of
\* the firmware that the virtual companion accepts but does not keep.
Devices ==
    [time : {"past", "host"}, rows : [Contacts -> [route : Routes, name : Names] \cup {NoRow}],
     channel : {"empty", "first", "second"}, sessions : SUBSET Contacts, mail : 0 .. MaxMail,
     defaultScope : {"none", "named"}, scope : {"default", "temporary", "chosen"},
     hash : {"before", "requested"}]

Request(code, contact, value) ==
    [code |-> code, contact |-> contact, value |-> value, row |-> NoRow]

Listed(d) == {c \in Contacts : d.rows[c] # NoRow}
Answer(d, replies) == [device |-> d, replies |-> replies]
Ok == <<"ok">>
Illegal == <<"error_1">>
NotFound == <<"error_2">>
TableFull == <<"error_3">>
BadArgument == <<"error_6">>

-----------------------------------------------------------------------------
(* Handlers.  A request whose value is "malformed" has the wrong shape.    *)

OnSetDeviceTime(d, r) ==
    IF d.time = "host" /\ r.value = "past" THEN Answer(d, BadArgument)
    ELSE Answer([d EXCEPT !.time = r.value], Ok)

OnSendLogin(d, r) ==
    IF r.value = "right" /\ (r.contact \in d.sessions \/ Cardinality(d.sessions) < ContactCapacity)
    THEN Answer([d EXCEPT !.sessions = @ \cup {r.contact}], <<"sent", "login_success">>)
    ELSE Answer(d, <<"sent", "login_failed">>)

OnHasConnection(d, r) == Answer(d, IF r.contact \in d.sessions THEN Ok ELSE NotFound)

OnLogout(d, r) ==
    IF r.contact \in d.sessions THEN Answer([d EXCEPT !.sessions = @ \ {r.contact}], Ok)
    ELSE Answer(d, NotFound)

OnSendStatus(d, r) ==
    Answer(d, IF r.contact \in d.sessions THEN <<"sent", "status">> ELSE NotFound)

\* The kinds 3 to 6 are telemetry, summary, ACL and neighbours.
OnBinaryRequest(d, r) ==
    Answer(d, IF r.contact \notin d.sessions THEN NotFound
              ELSE IF r.value = "unknown" THEN Illegal ELSE <<"sent", "binary">>)

OnSendAnonReq(d, r) == Answer(d, IF r.value = "unknown" THEN Illegal ELSE <<"sent", "binary">>)

\* A start packet, a packet for each contact and an end packet.
OnGetContacts(d, r) ==
    Answer(d, [i \in 1 .. Cardinality(Listed(d)) + 2 |-> "contacts"])

OfContact(d, r, replies) == Answer(d, IF r.contact \in Listed(d) THEN replies ELSE NotFound)

OnResetPath(d, r) ==
    IF r.contact \in Listed(d) THEN Answer([d EXCEPT !.rows[r.contact].route = "flood"], Ok)
    ELSE Answer(d, NotFound)

UpsertContactRow(d, c, row) ==
    IF c \notin Listed(d) /\ Cardinality(Listed(d)) >= ContactCapacity THEN Answer(d, TableFull)
    ELSE Answer([d EXCEPT !.rows[c] = row], Ok)

\* The request holds the whole row: what the client read, with its changes.
OnUpdateContact(d, r) == UpsertContactRow(d, r.contact, r.row)

OnImportContact(d, r) == UpsertContactRow(d, r.contact, Row("flood", "new"))

OnRemoveContact(d, r) ==
    IF r.contact \in Listed(d) THEN Answer([d EXCEPT !.rows[r.contact] = NoRow], Ok)
    ELSE Answer(d, NotFound)

OnPathDiscovery(d, r) == OfContact(d, r, <<"sent", "path">>)

\* msg_sent; the ACK that may follow belongs to the message, not to the request.
OnSendTxtMsg(d, r) == Answer(d, <<"sent">>)

OnSendControlData(d, r) == Answer(d, <<"ok", "control">>)

OnSyncNextMessage(d, r) ==
    IF d.mail = 0 THEN Answer(d, <<"no_more">>)
    ELSE Answer([d EXCEPT !.mail = @ - 1], <<"message">>)

OnSetChannel(d, r) == Answer([d EXCEPT !.channel = r.value], Ok)

OnSetFloodScope(d, r) == Answer([d EXCEPT !.scope = r.value], Ok)

OnSetDefaultFloodScope(d, r) == Answer([d EXCEPT !.defaultScope = r.value], Ok)

\* The firmware restarts with its default flood scope; it answers nothing.
OnReboot(d, r) == Answer([d EXCEPT !.scope = "default"], <<>>)

OnSetPathHashMode(d, r) == Answer([d EXCEPT !.hash = r.value], Ok)

\* handle_command
Handle(d, r) ==
    IF r.value = "malformed" THEN Answer(d, Illegal) ELSE
    CASE r.code = "set_time" -> OnSetDeviceTime(d, r)
      [] r.code = "login" -> OnSendLogin(d, r)
      [] r.code = "has_connection" -> OnHasConnection(d, r)
      [] r.code = "logout" -> OnLogout(d, r)
      [] r.code = "remote_status" -> OnSendStatus(d, r)
      [] r.code = "binary_request" -> OnBinaryRequest(d, r)
      [] r.code = "anonymous_request" -> OnSendAnonReq(d, r)
      [] r.code = "list_contacts" -> OnGetContacts(d, r)
      [] r.code \in {"get_contact", "get_advert_path", "export_contact"} ->
            OfContact(d, r, <<"data">>)
      [] r.code = "share_contact" -> OfContact(d, r, Ok)
      [] r.code = "reset_path" -> OnResetPath(d, r)
      [] r.code = "update_contact" -> OnUpdateContact(d, r)
      [] r.code = "import_contact" -> OnImportContact(d, r)
      [] r.code = "remove_contact" -> OnRemoveContact(d, r)
      [] r.code = "discover_path" -> OnPathDiscovery(d, r)
      [] r.code \in {"send_direct_text", "send_direct_command"} -> OnSendTxtMsg(d, r)
      [] r.code = "send_node_discovery" -> OnSendControlData(d, r)
      [] r.code = "sync_next_message" -> OnSyncNextMessage(d, r)
      [] r.code \in {"set_channel", "clear_channel"} -> OnSetChannel(d, r)
      [] r.code = "set_flood_scope" -> OnSetFloodScope(d, r)
      [] r.code = "set_default_flood_scope" -> OnSetDefaultFloodScope(d, r)
      [] r.code = "reboot" -> OnReboot(d, r)
      [] r.code = "set_path_hash_mode" -> OnSetPathHashMode(d, r)
      [] r.code \in {"send_self_advert", "send_channel_message"} -> Answer(d, Ok)
      [] OTHER -> Answer(d, <<"data">>)

\* command_response_count: the room that is required before a handler runs.
ResponseCount(d, r) ==
    IF r.value = "malformed" THEN 1 ELSE
    CASE r.code = "reboot" -> 0
      [] r.code \in {"login", "anonymous_request", "discover_path", "send_node_discovery"} -> 2
      [] r.code \in {"remote_status", "binary_request"} -> IF r.contact \in d.sessions THEN 2 ELSE 1
      [] r.code = "list_contacts" -> Cardinality(Listed(d)) + 2
      [] OTHER -> 1

-----------------------------------------------------------------------------
(* What an operation of Client makes of the packets.                       *)

\* send_command_expect_ok
ExpectOk ==
    {"set_time", "send_self_advert", "reset_path", "update_contact", "share_contact",
     "import_contact", "set_path_hash_mode", "set_flood_scope", "set_default_flood_scope",
     "set_channel", "clear_channel", "remove_contact", "logout", "send_node_discovery",
     "send_channel_message"}

\* send_command_expect_msg_sent_untracked, then wait_for_packet with the matching prefix or tag.
FinalPacket(code) ==
    CASE code = "login" -> "login_success"
      [] code = "remote_status" -> "status"
      [] code \in {"binary_request", "anonymous_request"} -> "binary"
      [] code = "discover_path" -> "path"
      [] OTHER -> "none"

\* The first packet settles a one-packet operation.
Succeeds(r, replies) ==
    CASE r.code = "reboot" -> TRUE
      [] r.code \in ExpectOk -> replies[1] = "ok"
      [] FinalPacket(r.code) # "none" -> replies[1] = "sent" /\ replies[2] = FinalPacket(r.code)
      [] r.code = "has_connection" -> replies[1] \in {"ok", "error_2"}
      [] OTHER -> replies[1] \in {"data", "contacts", "sent", "message", "no_more"}

\* The status of the error when it does not succeed.
Refusal(r, replies) ==
    IF r.code = "login" /\ Len(replies) = 2 THEN "authentication" ELSE "protocol"

=============================================================================
