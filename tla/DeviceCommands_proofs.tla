------------------------ MODULE DeviceCommands_proofs ------------------------
(***************************************************************************)
(* The commands that open a session (runtime.rs, remote_cli.rs,            *)
(* batch_cli.rs, workflow.rs): whatever fails, is lost or is interrupted,  *)
(* sessions are announced, taken back and closed, temporary settings are   *)
(* undone, what is reported is true, and nothing is destroyed without      *)
(* consent, for any contacts, mail, number of commands and batches.        *)
(***************************************************************************)
EXTENDS DeviceCommands, FiniteSetTheorems, TLAPS

-----------------------------------------------------------------------------
(* Steps and programs.                                                     *)

Rows == [route : Routes, name : Names]
Codes ==
    {"none", "stdin", "stored", "list_contacts", "query_device_info", "get_battery", "get_self_telemetry", "get_time",
     "set_time", "send_self_advert", "set_flood_scope", "reboot", "send_node_discovery", "get_default_flood_scope",
     "set_default_flood_scope", "get_path_hash_mode", "set_path_hash_mode", "discover_path", "get_contact",
     "update_contact", "remove_contact", "export_contact", "import_contact", "get_advert_path", "reset_path",
     "get_channel", "set_channel", "clear_channel", "send_channel_message", "send_direct_text", "sync_next_message",
     "login", "has_connection", "logout", "send_direct_command", "remote_status", "binary_request", "anonymous_request"}
Values ==
    {"none", "host", "temporary", "default", "chosen", "named", "requested", "before", "name", "route", "card", "second",
     "empty", "known", "destructive", "read_only", "clock_sync"}
Requests == [code : Codes, contact : Contacts \cup {NoContact}, value : Values, row : {NoRow}]

\* What a request must satisfy for the device to keep its type.
ReqOK(r) ==
    /\ r.code \in {"login", "update_contact", "import_contact"} => r.contact \in Contacts
    /\ r.code = "update_contact" => r.row \in Rows
    /\ r.code = "set_time" => r.value = "host"
    /\ r.code \in {"set_channel", "clear_channel"} => r.value \in {"empty", "second"}
    /\ r.code = "set_flood_scope" => r.value \in {"default", "temporary", "chosen"}
    /\ r.code = "set_default_flood_scope" => r.value \in {"none", "named"}
    /\ r.code = "set_path_hash_mode" => r.value \in {"before", "requested"}

LocalKinds == {"check", "confirm", "gate"}
\* The steps of a send once its record is begun, and those that only a send has.
SendingKinds == {"poll", "ask", "resolve", "transmit", "sent", "await"}
SendKinds == {"poll", "try", "begin", "transmit", "sent", "await"}
AskKinds == {"ask", "set", "try", "differ", "session", "transmit", "drain"}
ContactKinds == {"row", "write", "login", "save", "forget", "password"}
OtherKinds == {"hook", "resolve", "readback", "collect", "print", "poll", "begin", "sent", "await"}
WorkKinds == {"check", "confirm"} \cup AskKinds \cup ContactKinds \cup OtherKinds

AnyStep == [do : LocalKinds \cup WorkKinds, req : Requests]
StepOK(s) ==
    /\ s \in AnyStep
    /\ s.do \in AskKinds => ReqOK(s.req)
    /\ s.do \in ContactKinds => s.req.contact \in Contacts
    /\ s.do = "row" => s.req.code = "get_contact"
    /\ s.do = "write" => s.req.code = "update_contact" /\ s.req.value \in {"name", "route"}
    /\ s.do = "login" => s.req.code = "login"
    /\ s.do = "drain" => s.req.code = "sync_next_message"

Has(s, k) == \E n \in 1 .. Len(s) : s[n].do = k
Only(s, K) == \A n \in 1 .. Len(s) : s[n].do \in K
\* A step of kind k comes only behind one of kind j.
Behind(s, k, j) == \A n \in 1 .. Len(s) : s[n].do = k => \E m \in 1 .. Len(s) : m < n /\ s[m].do = j
\* After a step of kind k there are only steps of the kinds K.
Then(s, k, K) == \A m, n \in 1 .. Len(s) : m < n /\ s[m].do = k => s[n].do \in K
\* What is destroyed is destroyed behind a confirmation.
Guarded(s) ==
    \A n \in 1 .. Len(s) : Destructive(s[n].req) => \E m \in 1 .. Len(s) : m < n /\ s[m].do = "confirm"

\* A step that reaches the goal if it succeeds.
Achieves(s, g) ==
    \/ g.field = "time" /\ s.do = "ask" /\ s.req.code = "set_time" /\ s.req.value = g.value
    \/ g.field = "scope" /\ s.do = "ask" /\ s.req.code = "set_flood_scope" /\ s.req.value = g.value
    \/ g.field = "defaultScope" /\ s.do = "ask" /\ s.req.code = "set_default_flood_scope" /\ s.req.value = g.value
    \/ g.field = "channel" /\ s.do = "ask" /\ s.req.code \in {"set_channel", "clear_channel"} /\ s.req.value = g.value
    \/ /\ g.field = "rows" /\ s.do = "ask" /\ s.req.code = "remove_contact" /\ s.req.contact = g.contact
       /\ s.req.value = "none"
    \/ /\ g.field = "name" /\ g.value = "new" /\ s.req.contact = g.contact
       /\ \/ s.do = "write" /\ s.req.value = "name"
          \/ s.do = "ask" /\ s.req.code = "import_contact" /\ s.req.value = "card"
    \/ /\ g.field = "route" /\ s.req.contact = g.contact
       /\ \/ s.do = "write" /\ s.req.value = "route" /\ g.value = "chosen"
          \/ s.do = "ask" /\ s.req.code = "reset_path" /\ s.req.value = "none" /\ g.value = "flood"
    \/ /\ g.field = "session" /\ s.req.contact = g.contact
       /\ \/ s.do = "login" /\ g.value = "open"
          \/ s.do = "ask" /\ s.req.code = "logout" /\ s.req.value = "none" /\ g.value = "closed"
    \/ g.field = "vault" /\ s.do = "forget" /\ s.req.contact = g.contact

ResetHash == <<AskOf("set_path_hash_mode", NoContact, "before")>>

\* The work of every command ...
WorkOK(w) ==
    /\ \A n \in 1 .. Len(w) : StepOK(w[n])
    /\ Only(w, WorkKinds)
    /\ Behind(w, "write", "row") /\ Behind(w, "save", "login") /\ Then(w, "login", {"save"})

\* ... and that of a send and of inbox.
SendWorkOK(w) ==
    Then(w, "begin", SendingKinds) /\ Then(w, "transmit", {"sent", "await"}) /\ Then(w, "await", {})

ProgramFields == {"name", "local", "work", "restore", "style", "inside", "goal"}
ProgramOK(p) ==
    /\ DOMAIN p = ProgramFields /\ p.style \in {"session", "workflow"} /\ p.inside \in BOOLEAN
    /\ p.local \in Seq(AnyStep) /\ Only(p.local, LocalKinds)
    /\ p.work \in Seq(AnyStep) /\ WorkOK(p.work)
    /\ \/ p.restore = <<>>
       \/ p.restore = ResetScope /\ p.name # "network_trace"
       \/ p.restore = ResetHash /\ p.name = "network_trace"
    /\ p.inside => Has(p.work, "print")
    /\ p.goal = NoGoal \/ \E n \in 1 .. Len(p.work) : Achieves(p.work[n], p.goal)
    /\ Has(p.local, "confirm") \/ Guarded(p.work)
    /\ p.name # "send" => Only(p.work, WorkKinds \ SendKinds)
    /\ p.name # "inbox" => Only(p.work, WorkKinds \ {"drain"})
    /\ p.name = "send" =>
          /\ p.style = "workflow" /\ p.inside = FALSE /\ Has(p.work, "transmit") /\ SendWorkOK(p.work)
    /\ p.name = "inbox" => Only(p.work, {"drain"}) /\ p.style = "workflow" /\ p.restore = <<>>

-----------------------------------------------------------------------------
(* The inductive invariant.                                                *)

Phases == {"idle", "local", "connect", "activate", "work", "restore", "error_hook", "shutdown",
           "disconnect_hook", "print", "exit"}
Early == {"idle", "local", "connect", "activate"}
Late == {"restore", "error_hook", "shutdown", "disconnect_hook", "print", "exit"}
Ended == {"error_hook", "shutdown", "disconnect_hook", "print", "exit"}
RunFields == {"program", "phase", "todo", "error", "post", "yes", "interactive", "owed", "doubtful",
              "on", "off", "told", "row", "password", "record", "unstored", "accepted", "printed", "reached"}

RunBase(r) ==
    /\ DOMAIN r = RunFields /\ r = [f \in RunFields |-> r[f]]
    /\ r.phase \in Phases /\ ProgramOK(r.program)
    /\ r.error \in Statuses /\ r.post \in Statuses
    /\ r.record \in {"none", "pending", "failed", "acknowledged", "timed_out"}
    /\ r.row \in Rows \cup {NoRow} /\ r.password \in {"none", "right", "wrong"}
    /\ r.todo \in Seq(AnyStep)

\* What is left to do in each phase.
TodoOK(r) ==
    /\ r.phase \in {"local", "work"} => r.todo # <<>>
    /\ r.phase \in Early \cup {"work"} => r.error = "none"
    /\ r.phase = "local" => Only(r.todo, LocalKinds)
    /\ r.phase = "work" => /\ \A n \in 1 .. Len(r.todo) : StepOK(r.todo[n])
                           /\ Only(r.todo, WorkKinds)
    /\ r.phase = "restore" => r.todo = r.program.restore /\ r.program.restore # <<>>
    /\ r.phase = "idle" => r = Idle

HooksOK(r, l) ==
    /\ r.phase \in {"idle", "local", "connect"} => r.on = 0 /\ r.off = 0 /\ r.told = 0 /\ l = "down"
    /\ r.phase = "activate" => r.on = 0 /\ r.off = 0 /\ r.told = 0
    /\ r.phase \in {"activate", "work", "restore"} => l # "down"
    /\ r.phase \in {"work", "restore", "error_hook"} => r.on = 1 /\ r.off = 0 /\ r.told = 0
    /\ r.phase = "error_hook" => r.program.style = "session" /\ r.error # "none"
    /\ r.phase = "shutdown" => r.on = 1 /\ r.told \in 0 .. 1 /\ (r.told = 1 => r.error # "none")
                               /\ r.off = IF r.program.style = "workflow" THEN 1 ELSE 0
    /\ r.phase = "disconnect_hook" => r.on = 1 /\ r.off = 0 /\ r.told \in 0 .. 1 /\ (r.told = 1 => r.error # "none")
                                      /\ (r.program.style = "session" => l = "down")
    /\ r.phase = "print" => r.on = 1 /\ r.off = 1 /\ r.told \in 0 .. 1 /\ l = "down"
    /\ r.phase = "exit" => r.on \in 0 .. 1 /\ r.off = r.on /\ r.told \in 0 .. 1 /\ l = "down"

Undone(r, d) == IF r.program.name = "network_trace" THEN d.hash = "before" ELSE d.scope # "temporary"

SettingOK(r, d) ==
    /\ r.phase \in Early => ~r.owed
    /\ r.phase \in Early \cup {"work"} => ~r.doubtful
    /\ r.phase = "restore" /\ r.doubtful => r.error # "none"
    /\ r.phase \in Ended /\ r.doubtful => r.error # "none" \/ r.post # "none"
    /\ r.phase \in Ended /\ r.program.restore # <<>> /\ r.owed /\ ~r.doubtful => Undone(r, d)

\* The goal is reached and the result printed, or will be.
ResultOK(r) ==
    /\ r.phase \in Early => r.reached \/ r.program.goal # NoGoal
    /\ r.phase = "work" => r.reached \/ \E n \in 1 .. Len(r.todo) : Achieves(r.todo[n], r.program.goal)
    /\ r.phase \in Late /\ r.error = "none" => r.reached
    /\ r.phase = "work" /\ r.program.inside => r.printed \/ Has(r.todo, "print")
    /\ r.phase \in Late /\ r.program.inside /\ r.error = "none" => r.printed
    /\ r.phase = "exit" /\ r.error = "none" => r.printed

\* A send that works, and one that has worked.
SendWork(r) ==
    /\ r.program.name # "send" => Only(r.todo, WorkKinds \ SendKinds)
    /\ r.program.name = "send" =>
          /\ SendWorkOK(r.todo)
          /\ r.accepted \/ Has(r.todo, "transmit")
          /\ Has(r.program.work, "await") => Has(r.todo, "await")
    /\ r.record \in {"none", "pending"}
    /\ r.accepted => Only(r.todo, {"sent", "await"})
    /\ r.record # "none" => Only(r.todo, SendingKinds)
    /\ Has(r.todo, "await") => Has(r.program.work, "await")
SendLate(r) ==
    /\ r.accepted => r.error \in {"none", "output"} \/ (Has(r.program.work, "await") /\ r.error \in WaitErrors)
    /\ r.record = "failed" =>
          ~r.accepted \/ (Has(r.program.work, "await") /\ r.error \in {"connection", "protocol", "usage"})
    /\ r.record = "pending" =>
          r.unstored \/ r.error = "interrupted" \/ (r.accepted /\ ~Has(r.program.work, "await"))
SendOK(r) ==
    /\ r.accepted \/ r.record # "none" => r.program.name = "send"
    /\ r.phase \in Early => ~r.accepted /\ r.record = "none" /\ ~r.unstored
    /\ r.phase = "work" => SendWork(r)
    /\ r.phase \in Late => SendLate(r)

\* What inbox takes off the device is kept, up to the one record that could not be written or the
\* one answer that was lost, which ends the command.
Counts(r, e, t) ==
    /\ t.off \in Nat /\ t.known \in Nat
    /\ r.program.name = "inbox" =>
          /\ t.off <= t.known + 1
          /\ t.off <= t.known \/ r.unstored \/ e \in {"timeout", "connection"}
Counted(r, t) == Counts(r, r.error, t)
MailWork(r) ==
    IF r.program.name = "inbox" THEN Only(r.todo, {"drain"}) /\ ~r.unstored ELSE Only(r.todo, WorkKinds \ {"drain"})
MailOK(r, t) == Counted(r, t) /\ (r.phase = "work" => MailWork(r))

\* The row to be written is read before, the password to be saved was accepted before.
KeptWork(r) ==
    /\ Behind(r.todo, "write", "row") \/ r.row \in Rows
    /\ Then(r.todo, "login", {"save"})
    /\ Behind(r.todo, "save", "login") \/ (r.password = "right" /\ Only(r.todo, {"save"}))
KeptOK(r) == r.phase = "work" => KeptWork(r)

ConsentOK(r, agreed) ==
    /\ r.phase \in Early \cup {"work"} => (r.yes => agreed)
    /\ r.phase = "local" => agreed \/ Has(r.todo, "confirm") \/ Guarded(r.program.work)
    /\ r.phase \in {"connect", "activate"} => agreed \/ Guarded(r.program.work)
    /\ r.phase = "work" => agreed \/ Guarded(r.todo)

BatchOK ==
    /\ batch \in [kind : {"none", "file", "contacts"}, queue : Seq({p \in Programs : p.name # "inbox"}), yes : BOOLEAN,
                  begun : Nat, invalid : BOOLEAN, failed : BOOLEAN]
    /\ batch.queue # <<>> /\ batch.yes => consented
    /\ batch.invalid => batch.begun = 0 /\ batch.queue = <<>>
    /\ batch.failed => run = Idle

WorldOK ==
    /\ device \in Devices /\ link \in {"down", "up", "lost"}
    /\ vault \in [Contacts -> {"none", "right"}]
    /\ interrupt \in BOOLEAN /\ consented \in BOOLEAN /\ left \in 0 .. MaxCommands
    /\ taken \in [off : Nat, known : Nat, shown : Nat]

RunOK(r, l, d, t, agreed) ==
    /\ RunBase(r) /\ TodoOK(r) /\ HooksOK(r, l) /\ SettingOK(r, d) /\ ResultOK(r)
    /\ SendOK(r) /\ MailOK(r, t) /\ KeptOK(r) /\ ConsentOK(r, agreed)

IInv == WorldOK /\ BatchOK /\ RunOK(run, link, device, taken, consented)

-----------------------------------------------------------------------------
(* The device.                                                             *)

LEMMA ListedContact ==
    ASSUME NEW d \in Devices
    PROVE  /\ Listed(d) \subseteq Contacts /\ Cardinality(Listed(d)) \in Nat
           /\ \A c \in Listed(d) : d.rows[c] \in Rows
<1>1. Listed(d) \subseteq Contacts
  BY DEF Listed
<1>2. Cardinality(Listed(d)) \in Nat
  BY <1>1, DeviceAssumption, FS_Subset, FS_CardinalityType
<1>3. \A c \in Listed(d) : d.rows[c] \in Rows
  BY DEF Listed, Devices, Rows
<1> QED BY <1>1, <1>2, <1>3

\* Rows are written whole or get a new route.
LEMMA RowWritten ==
    ASSUME NEW d \in Devices, NEW c \in Contacts, NEW row \in Rows \cup {NoRow}
    PROVE  [d EXCEPT !.rows[c] = row] \in Devices
BY DEF Devices, Rows

LEMMA RouteWritten ==
    ASSUME NEW d \in Devices, NEW c \in Listed(d), NEW route \in Routes
    PROVE  [d EXCEPT !.rows[c].route = route] \in Devices
<1>1. c \in Contacts /\ d.rows[c] \in Rows
  BY ListedContact
<1>2. [d.rows[c] EXCEPT !.route = route] \in Rows
  BY <1>1 DEF Rows
<1>3. [d.rows EXCEPT ![c].route = route] \in [Contacts -> Rows \cup {NoRow}]
  BY <1>1, <1>2 DEF Devices, Rows
<1> QED BY <1>3 DEF Devices, Rows

\* The device keeps its type.
LEMMA HandleTyped ==
    ASSUME NEW d \in Devices, NEW r, ReqOK(r)
    PROVE  Handle(d, r).device \in Devices
<1>1. d.mail \in 0 .. MaxMail /\ (d.mail # 0 => d.mail - 1 \in 0 .. MaxMail)
  BY DeviceAssumption DEF Devices
<1>2. \A e \in Devices : \A a : Answer(e, a).device \in Devices
  BY DEF Answer
<1>3. CASE r.value = "malformed"
  BY <1>2, <1>3 DEF Handle
<1>4. CASE r.value # "malformed"
  <2>1. CASE r.code = "set_time"
    BY <1>4, <2>1 DEF Handle, Answer, OnSetDeviceTime, ReqOK, Devices
  <2>2. CASE r.code = "login"
    BY <1>4, <2>2 DEF Handle, Answer, OnSendLogin, ReqOK, Devices
  <2>3. CASE r.code = "logout"
    BY <1>4, <2>3 DEF Handle, Answer, OnLogout, Devices
  <2>4. CASE r.code = "reset_path"
    <3>1. \A c \in Listed(d) : [d EXCEPT !.rows[c].route = "flood"] \in Devices
      BY RouteWritten DEF Routes
    <3> QED BY <1>2, <1>4, <2>4, <3>1 DEF Handle, OnResetPath
  <2>5. CASE r.code = "update_contact"
    <3>1. [d EXCEPT !.rows[r.contact] = r.row] \in Devices
      BY <2>5, RowWritten DEF ReqOK
    <3> QED BY <1>2, <1>4, <2>5, <3>1 DEF Handle, OnUpdateContact, UpsertContactRow
  <2>6. CASE r.code = "import_contact"
    <3>1. Row("flood", "new") \in Rows
      BY DEF Row, Rows, Routes, Names
    <3>2. [d EXCEPT !.rows[r.contact] = Row("flood", "new")] \in Devices
      BY <2>6, <3>1, RowWritten DEF ReqOK
    <3> QED BY <1>2, <1>4, <2>6, <3>2 DEF Handle, OnImportContact, UpsertContactRow
  <2>7. CASE r.code = "remove_contact"
    <3>1. \A c \in Listed(d) : [d EXCEPT !.rows[c] = NoRow] \in Devices
      BY RowWritten, ListedContact
    <3> QED BY <1>2, <1>4, <2>7, <3>1 DEF Handle, OnRemoveContact
  <2>8. CASE r.code = "sync_next_message"
    BY <1>1, <1>4, <2>8 DEF Handle, Answer, OnSyncNextMessage, Devices
  <2>9. CASE r.code \in {"set_channel", "clear_channel"}
    BY <1>4, <2>9 DEF Handle, Answer, OnSetChannel, ReqOK, Devices
  <2>10. CASE r.code = "set_flood_scope"
    BY <1>4, <2>10 DEF Handle, Answer, OnSetFloodScope, ReqOK, Devices
  <2>11. CASE r.code = "set_default_flood_scope"
    BY <1>4, <2>11 DEF Handle, Answer, OnSetDefaultFloodScope, ReqOK, Devices
  <2>12. CASE r.code = "set_path_hash_mode"
    BY <1>4, <2>12 DEF Handle, Answer, OnSetPathHashMode, ReqOK, Devices
  <2>13. CASE r.code = "reboot"
    BY <1>4, <2>13 DEF Handle, Answer, OnReboot, Devices
  <2>14. CASE r.code \notin {"set_time", "login", "logout", "reset_path", "update_contact", "import_contact",
                             "remove_contact", "sync_next_message", "set_channel", "clear_channel", "set_flood_scope",
                             "set_default_flood_scope", "set_path_hash_mode", "reboot"}
    BY <1>2, <1>4, <2>14
       DEF Handle, OnHasConnection, OnSendStatus, OnBinaryRequest, OnSendAnonReq, OnGetContacts, OfContact,
           OnPathDiscovery, OnSendTxtMsg, OnSendControlData
  <2> QED BY <2>1, <2>2, <2>3, <2>4, <2>5, <2>6, <2>7, <2>8, <2>9, <2>10, <2>11, <2>12, <2>13, <2>14
<1> QED BY <1>3, <1>4

\* command_response_count suffices for every handler.
LEMMA RoomSuffices ==
    ASSUME NEW d \in Devices, NEW r
    PROVE  Len(Handle(d, r).replies) <= ResponseCount(d, r)
<1> DEFINE a == Handle(d, r).replies
           n == ResponseCount(d, r)
<1> SUFFICES Len(a) <= n
  OBVIOUS
<1>1. \A e, x : Answer(e, x).replies = x
  BY DEF Answer
<1>2. \A x, y : Len(<<x>>) = 1 /\ Len(<<x, y>>) = 2
  OBVIOUS
<1>3. Len(Ok) = 1 /\ Len(Illegal) = 1 /\ Len(NotFound) = 1 /\ Len(TableFull) = 1 /\ Len(BadArgument) = 1 /\ Len(<<>>) = 0
  BY DEF Ok, Illegal, NotFound, TableFull, BadArgument
<1>4. CASE r.value = "malformed"
  <2>1. a = Illegal /\ n = 1
    BY <1>1, <1>4 DEF Handle, ResponseCount
  <2> HIDE DEF a, n
  <2>2. Len(a) = 1
    BY <1>3, <2>1, Zenon
  <2> QED BY <2>1, <2>2
<1>5. CASE r.value # "malformed"
  <2>1. CASE r.code = "list_contacts"
    <3>1. a = [i \in 1 .. Cardinality(Listed(d)) + 2 |-> "contacts"]
      BY <1>1, <1>5, <2>1 DEF Handle, OnGetContacts
    <3>2. n = Cardinality(Listed(d)) + 2 /\ Cardinality(Listed(d)) \in Nat
      BY <1>5, <2>1, ListedContact DEF ResponseCount
    <3> QED BY <3>1, <3>2
  <2>2. CASE r.code = "reboot"
    <3>1. a = <<>> /\ n = 0
      BY <1>1, <1>5, <2>2 DEF Handle, ResponseCount, OnReboot
    <3> QED BY <1>3, <3>1
  <2>3. CASE r.code = "login"
    <3>1. (a = <<"sent", "login_success">> \/ a = <<"sent", "login_failed">>) /\ n = 2
      BY <1>1, <1>5, <2>3 DEF Handle, ResponseCount, OnSendLogin
    <3> HIDE DEF a, n
    <3>2. Len(a) = 2
      BY <1>2, <3>1, Zenon
    <3> QED BY <3>1, <3>2
  <2>4. CASE r.code = "anonymous_request"
    <3>1. (a = Illegal \/ a = <<"sent", "binary">>) /\ n = 2
      BY <1>1, <1>5, <2>4 DEF Handle, ResponseCount, OnSendAnonReq
    <3> HIDE DEF a, n
    <3> QED BY <1>2, <1>3, <3>1
  <2>5. CASE r.code = "discover_path"
    <3>1. (a = NotFound \/ a = <<"sent", "path">>) /\ n = 2
      BY <1>1, <1>5, <2>5 DEF Handle, ResponseCount, OnPathDiscovery, OfContact
    <3> HIDE DEF a, n
    <3>2. Len(a) = 1 \/ Len(a) = 2
      BY <1>2, <1>3, <3>1, Zenon
    <3>3. n = 2
      BY <3>1
    <3>4. \A x : (x = 1 \/ x = 2) => x <= 2
      OBVIOUS
    <3> QED BY <3>2, <3>3, <3>4
  <2>6. CASE r.code = "send_node_discovery"
    <3>1. a = <<"ok", "control">> /\ n = 2
      BY <1>1, <1>5, <2>6 DEF Handle, ResponseCount, OnSendControlData
    <3> HIDE DEF a, n
    <3> QED BY <1>2, <3>1
  <2>7. CASE r.code = "remote_status"
    <3>1. (a = NotFound /\ n = 1) \/ (a = <<"sent", "status">> /\ n = 2)
      BY <1>1, <1>5, <2>7 DEF Handle, ResponseCount, OnSendStatus
    <3> HIDE DEF a, n
    <3> QED BY <1>2, <1>3, <3>1
  <2>8. CASE r.code = "binary_request"
    <3>1. (a = NotFound /\ n = 1) \/ (a = Illegal /\ n = 2) \/ (a = <<"sent", "binary">> /\ n = 2)
      BY <1>1, <1>5, <2>8 DEF Handle, ResponseCount, OnBinaryRequest
    <3> HIDE DEF a, n
    <3> QED BY <1>2, <1>3, <3>1
  <2>9. CASE r.code \notin {"login", "anonymous_request", "discover_path", "send_node_discovery", "remote_status",
                            "binary_request", "reboot", "list_contacts"}
    <3>1. n = 1
      BY <1>5, <2>9 DEF ResponseCount
    <3>2. \/ a = Ok \/ a = NotFound \/ a = TableFull \/ a = BadArgument \/ a = <<"data">> \/ a = <<"sent">>
          \/ a = <<"no_more">> \/ a = <<"message">>
      <4>1. CASE r.code \in {"set_time", "has_connection", "logout", "reset_path"}
        BY <1>1, <1>5, <4>1 DEF Handle, OnSetDeviceTime, OnHasConnection, OnLogout, OnResetPath
      <4>2. CASE r.code \in {"update_contact", "import_contact", "remove_contact", "sync_next_message"}
        <5>1. CASE r.code \in {"update_contact", "import_contact"}
          BY <1>1, <1>5, <5>1 DEF Handle, OnUpdateContact, OnImportContact, UpsertContactRow
        <5>2. CASE r.code \in {"remove_contact", "sync_next_message"}
          BY <1>1, <1>5, <5>2 DEF Handle, OnRemoveContact, OnSyncNextMessage
        <5> QED BY <4>2, <5>1, <5>2
      <4>3. CASE r.code \in {"set_channel", "clear_channel", "set_flood_scope", "set_default_flood_scope",
                             "set_path_hash_mode", "send_direct_text", "send_direct_command"}
        BY <1>1, <1>5, <4>3
           DEF Handle, OnSetChannel, OnSetFloodScope, OnSetDefaultFloodScope, OnSetPathHashMode, OnSendTxtMsg
      <4>4. CASE r.code \notin {"set_time", "has_connection", "logout", "reset_path", "update_contact", "import_contact",
                                "remove_contact", "sync_next_message", "set_channel", "clear_channel",
                                "set_flood_scope", "set_default_flood_scope", "set_path_hash_mode", "send_direct_text",
                                "send_direct_command"}
        <5>1. CASE r.code \in {"get_contact", "get_advert_path", "export_contact"}
          BY <1>1, <1>5, <5>1 DEF Handle, OfContact
        <5>2. CASE r.code \in {"share_contact", "send_self_advert", "send_channel_message"}
          BY <1>1, <1>5, <5>2 DEF Handle, OfContact
        <5>3. CASE r.code \notin {"get_contact", "get_advert_path", "export_contact", "share_contact", "send_self_advert",
                                  "send_channel_message"}
          <6>1. Handle(d, r) = Answer(d, <<"data">>)
            BY <1>5, <2>9, <4>4, <5>3 DEF Handle
          <6> QED BY <1>1, <6>1
        <5> QED BY <5>1, <5>2, <5>3
      <4> QED BY <4>1, <4>2, <4>3, <4>4
    <3> HIDE DEF a, n
    <3>3. Len(a) = 1
      BY <1>2, <1>3, <3>2, Zenon
    <3> QED BY <3>1, <3>3
  <2> QED BY <2>1, <2>2, <2>3, <2>4, <2>5, <2>6, <2>7, <2>8, <2>9
<1> QED BY <1>4, <1>5

\* What may come of a request.
LEMMA OutcomesAre ==
    ASSUME device \in Devices, link \in {"down", "up", "lost"}, NEW req, ReqOK(req), NEW o \in Outcomes(req)
    PROVE  /\ o.device \in Devices /\ o.link \in {"down", "up", "lost"} /\ (link # "down" => o.link # "down")
           /\ o.error \in Statuses
           /\ o.error = "none" => /\ Succeeds(req, Handle(device, req).replies)
                                  /\ o.replies = Handle(device, req).replies
                                  /\ o.device = Handle(device, req).device
<1> DEFINE h == Handle(device, req)
           h_ok == Succeeds(req, h.replies)
           h_error == IF h_ok THEN "none" ELSE Refusal(req, h.replies)
<1>1. h.device \in Devices
  BY HandleTyped
<1>2. Refusal(req, h.replies) \in {"authentication", "protocol"}
  BY DEF Refusal
<1>3. h_error \in Statuses /\ (h_error = "none" => h_ok)
  BY <1>2 DEF Statuses
<1> HIDE DEF h_ok
<1>4. CASE link # "up"
  <2>1. o = [device |-> device, link |-> link, error |-> "connection", replies |-> <<>>]
    BY <1>4 DEF Outcomes
  <2> QED BY <2>1 DEF Statuses
<1>5. CASE link = "up"
  <2>1. \/ o = [device |-> h.device, link |-> IF req.code = "reboot" THEN "lost" ELSE "up", error |-> h_error,
                replies |-> h.replies]
        \/ \E d \in {device, h.device}, l \in {"up", "lost"} :
              o = [device |-> d, link |-> l, error |-> IF l = "up" THEN "timeout" ELSE "connection", replies |-> <<>>]
    BY <1>5 DEF Outcomes, h_ok
  <2> HIDE DEF h, h_error
  <2>2. CASE o = [device |-> h.device, link |-> IF req.code = "reboot" THEN "lost" ELSE "up", error |-> h_error,
                  replies |-> h.replies]
    <3>1. /\ o.device = h.device /\ o.link \in {"up", "lost"} /\ o.error = h_error /\ o.replies = h.replies
      BY <2>2
    <3> QED BY <1>1, <1>3, <3>1 DEF h, h_ok
  <2>3. CASE \E d \in {device, h.device}, l \in {"up", "lost"} :
                o = [device |-> d, link |-> l, error |-> IF l = "up" THEN "timeout" ELSE "connection", replies |-> <<>>]
    BY <1>1, <2>3 DEF Statuses
  <2> QED BY <2>1, <2>2, <2>3
<1> QED BY <1>4, <1>5

\* An answer that a request takes for its success.
LEMMA SuccessIs ==
    ASSUME NEW r, NEW a, Succeeds(r, a)
    PROVE  /\ r.code \in ExpectOk => a[1] = "ok"
           /\ r.code = "login" => a[2] = "login_success"
           /\ r.code = "get_contact" => a[1] # "error_1" /\ a[1] # "error_2"
<1>1. r.code \in ExpectOk => r.code # "reboot" /\ FinalPacket(r.code) = "none" /\ r.code # "has_connection"
  BY DEF ExpectOk, FinalPacket
<1>2. r.code \in ExpectOk => a[1] = "ok"
  BY <1>1 DEF Succeeds
<1>3. FinalPacket("login") = "login_success" /\ FinalPacket("get_contact") = "none"
  BY DEF FinalPacket
<1>4. r.code = "login" => a[2] = "login_success"
  BY <1>3 DEF Succeeds, ExpectOk
<1>5. r.code = "get_contact" => a[1] # "error_1" /\ a[1] # "error_2"
  BY <1>3 DEF Succeeds, ExpectOk
<1> QED BY <1>2, <1>4, <1>5

\* A request that succeeds has its effect.
LEMMA EffectIs ==
    ASSUME NEW d \in Devices, NEW r, ReqOK(r), Succeeds(r, Handle(d, r).replies), r.value # "malformed"
    PROVE  LET e == Handle(d, r).device IN
           /\ r.code = "set_time" => e.time = r.value
           /\ r.code = "set_flood_scope" => e.scope = r.value
           /\ r.code = "set_default_flood_scope" => e.defaultScope = r.value
           /\ r.code \in {"set_channel", "clear_channel"} => e.channel = r.value
           /\ r.code = "set_path_hash_mode" => e.hash = r.value
           /\ r.code = "remove_contact" => e.rows[r.contact] = NoRow
           /\ r.code = "import_contact" => e.rows[r.contact] = Row("flood", "new")
           /\ r.code = "update_contact" => e.rows[r.contact] = r.row
           /\ r.code = "reset_path" => e.rows[r.contact].route = "flood"
           /\ r.code = "login" => r.contact \in e.sessions /\ r.value = "right"
           /\ r.code = "logout" => r.contact \notin e.sessions
           /\ r.code = "get_contact" => r.contact \in Listed(d)
<1> DEFINE h == Handle(d, r)
           a == h.replies
           e == h.device
<1>1. \A x, y : Answer(x, y).device = x /\ Answer(x, y).replies = y
  BY DEF Answer
<1>2. /\ Ok[1] = "ok" /\ Illegal[1] = "error_1" /\ NotFound[1] = "error_2" /\ TableFull[1] = "error_3"
      /\ BadArgument[1] = "error_6"
  BY DEF Ok, Illegal, NotFound, TableFull, BadArgument
<1>3. /\ r.code \in ExpectOk => a[1] = "ok"
      /\ r.code = "login" => a[2] = "login_success"
      /\ r.code = "get_contact" => a[1] # "error_1" /\ a[1] # "error_2"
  BY SuccessIs
<1>4. CASE r.code = "set_time"
  <2>1. h = OnSetDeviceTime(d, r)
    BY <1>4 DEF Handle
  <2> QED BY <1>1, <1>4, <2>1 DEF OnSetDeviceTime, ReqOK, Devices
<1>5. CASE r.code = "set_flood_scope"
  <2>1. h = OnSetFloodScope(d, r)
    BY <1>5 DEF Handle
  <2> QED BY <1>1, <1>5, <2>1 DEF OnSetFloodScope, Devices
<1>6. CASE r.code = "set_default_flood_scope"
  <2>1. h = OnSetDefaultFloodScope(d, r)
    BY <1>6 DEF Handle
  <2> QED BY <1>1, <1>6, <2>1 DEF OnSetDefaultFloodScope, Devices
<1>7. CASE r.code \in {"set_channel", "clear_channel"}
  <2>1. h = OnSetChannel(d, r)
    BY <1>7 DEF Handle
  <2> QED BY <1>1, <1>7, <2>1 DEF OnSetChannel, Devices
<1>8. CASE r.code = "set_path_hash_mode"
  <2>1. h = OnSetPathHashMode(d, r)
    BY <1>8 DEF Handle
  <2> QED BY <1>1, <1>8, <2>1 DEF OnSetPathHashMode, Devices
<1>9. CASE r.code = "remove_contact"
  <2>1. h = OnRemoveContact(d, r) /\ a[1] = "ok"
    BY <1>3, <1>9 DEF Handle, ExpectOk
  <2>2. r.contact \in Listed(d) /\ e = [d EXCEPT !.rows[r.contact] = NoRow]
    BY <1>1, <1>2, <2>1 DEF OnRemoveContact
  <2>3. r.contact \in Contacts
    BY <2>2, ListedContact
  <2> HIDE DEF e
  <2>4. e.rows[r.contact] = NoRow
    BY <2>2, <2>3 DEF Devices
  <2> QED BY <1>9, <2>4 DEF e
<1>10. CASE r.code = "import_contact"
  <2>1. h = UpsertContactRow(d, r.contact, Row("flood", "new")) /\ a[1] = "ok"
    BY <1>3, <1>10 DEF Handle, ExpectOk, OnImportContact
  <2>2. e = [d EXCEPT !.rows[r.contact] = Row("flood", "new")]
    BY <1>1, <1>2, <2>1 DEF UpsertContactRow
  <2>3. r.contact \in Contacts
    BY <1>10 DEF ReqOK
  <2> HIDE DEF e
  <2>4. e.rows[r.contact] = Row("flood", "new")
    BY <2>2, <2>3 DEF Devices
  <2> QED BY <1>10, <2>4 DEF e
<1>11. CASE r.code = "update_contact"
  <2>1. h = UpsertContactRow(d, r.contact, r.row) /\ a[1] = "ok"
    BY <1>3, <1>11 DEF Handle, ExpectOk, OnUpdateContact
  <2>2. e = [d EXCEPT !.rows[r.contact] = r.row]
    BY <1>1, <1>2, <2>1 DEF UpsertContactRow
  <2>3. r.contact \in Contacts
    BY <1>11 DEF ReqOK
  <2> HIDE DEF e
  <2>4. e.rows[r.contact] = r.row
    BY <2>2, <2>3 DEF Devices
  <2> QED BY <1>11, <2>4 DEF e
<1>12. CASE r.code = "reset_path"
  <2>1. h = OnResetPath(d, r) /\ a[1] = "ok"
    BY <1>3, <1>12 DEF Handle, ExpectOk
  <2>2. r.contact \in Listed(d) /\ e = [d EXCEPT !.rows[r.contact].route = "flood"]
    BY <1>1, <1>2, <2>1 DEF OnResetPath
  <2>3. r.contact \in Contacts /\ d.rows[r.contact] \in Rows
    BY <2>2, ListedContact
  <2> HIDE DEF e
  <2>4. e.rows[r.contact] = [d.rows[r.contact] EXCEPT !.route = "flood"]
    BY <2>2, <2>3 DEF Devices
  <2>5. e.rows[r.contact].route = "flood"
    BY <2>3, <2>4 DEF Rows
  <2> QED BY <1>12, <2>5 DEF e
<1>13. CASE r.code = "login"
  <2>1. h = OnSendLogin(d, r) /\ a[2] = "login_success"
    BY <1>3, <1>13 DEF Handle
  <2>2. r.value = "right" /\ e = [d EXCEPT !.sessions = @ \cup {r.contact}]
    BY <1>1, <2>1 DEF OnSendLogin
  <2> HIDE DEF e
  <2>3. e.sessions = d.sessions \cup {r.contact}
    BY <2>2 DEF Devices
  <2> QED BY <1>13, <2>2, <2>3 DEF e
<1>14. CASE r.code = "logout"
  <2>1. h = OnLogout(d, r) /\ a[1] = "ok"
    BY <1>3, <1>14 DEF Handle, ExpectOk
  <2>2. e = [d EXCEPT !.sessions = @ \ {r.contact}]
    BY <1>1, <1>2, <2>1 DEF OnLogout
  <2> HIDE DEF e
  <2>3. e.sessions = d.sessions \ {r.contact}
    BY <2>2 DEF Devices
  <2> QED BY <1>14, <2>3 DEF e
<1>15. CASE r.code = "get_contact"
  <2>1. h = OfContact(d, r, <<"data">>)
    BY <1>15 DEF Handle
  <2> QED BY <1>1, <1>2, <1>3, <1>15, <2>1 DEF OfContact
<1> HIDE DEF h
<1> QED BY <1>4, <1>5, <1>6, <1>7, <1>8, <1>9, <1>10, <1>11, <1>12, <1>13, <1>14, <1>15 DEF h

-----------------------------------------------------------------------------
(* Sequences of steps.                                                     *)

LEMMA StepIs ==
    ASSUME NEW do \in LocalKinds \cup WorkKinds, NEW code \in Codes, NEW c \in Contacts \cup {NoContact}, NEW v \in Values
    PROVE  LET s == Step(do, code, c, v) IN
           /\ s \in AnyStep /\ s.do = do /\ s.req.code = code /\ s.req.contact = c /\ s.req.value = v /\ s.req.row = NoRow
BY DEF Step, Request, AnyStep, Requests

LEMMA RestoreSteps == ResetScope \in Seq(AnyStep) /\ ResetHash \in Seq(AnyStep)
<1>1. "ask" \in LocalKinds \cup WorkKinds
  BY DEF WorkKinds, AskKinds
<1>2. {"set_flood_scope", "set_path_hash_mode"} \subseteq Codes /\ {"default", "before"} \subseteq Values
  BY DEF Codes, Values
<1>3. NoContact \in Contacts \cup {NoContact}
  OBVIOUS
<1>4. Step("ask", "set_flood_scope", NoContact, "default") \in AnyStep
  BY <1>1, <1>2, <1>3, StepIs
<1>5. Step("ask", "set_path_hash_mode", NoContact, "before") \in AnyStep
  BY <1>1, <1>2, <1>3, StepIs
<1> HIDE DEF AnyStep
<1> QED BY <1>4, <1>5 DEF ResetScope, ResetHash, AskOf

LEMMA TailIs ==
    ASSUME NEW s \in Seq(AnyStep), s # <<>>
    PROVE  /\ Tail(s) \in Seq(AnyStep) /\ Len(s) \in Nat /\ Len(s) >= 1 /\ Len(Tail(s)) = Len(s) - 1
           /\ Head(s) = s[1] /\ Head(s) \in AnyStep
           /\ \A n \in 1 .. Len(Tail(s)) : n + 1 \in 1 .. Len(s) /\ Tail(s)[n] = s[n + 1]
           /\ \A n \in 1 .. Len(s) : n = 1 \/ (n - 1 \in 1 .. Len(Tail(s)) /\ s[n] = Tail(s)[n - 1])
<1> HIDE DEF AnyStep
<1>1. Len(s) \in Nat /\ Len(s) >= 1
  OBVIOUS
<1>2. Tail(s) \in Seq(AnyStep) /\ Len(Tail(s)) = Len(s) - 1 /\ Head(s) = s[1] /\ Head(s) \in AnyStep
  OBVIOUS
<1>3. \A n \in 1 .. Len(Tail(s)) : n + 1 \in 1 .. Len(s) /\ Tail(s)[n] = s[n + 1]
  BY <1>1, <1>2
<1>4. \A n \in 1 .. Len(s) : n = 1 \/ (n - 1 \in 1 .. Len(Tail(s)) /\ s[n] = Tail(s)[n - 1])
  BY <1>1, <1>2, <1>3
<1> QED BY <1>1, <1>2, <1>3, <1>4

LEMMA NothingLeft ==
    /\ \A K : Only(<<>>, K)
    /\ \A k : ~Has(<<>>, k)
BY DEF Only, Has

LEMMA OnlyNothing ==
    ASSUME NEW s \in Seq(AnyStep), Only(s, {})
    PROVE  s = <<>>
<1>1. Len(s) \in Nat
  OBVIOUS
<1>2. Len(s) = 0
  <2> SUFFICES ASSUME Len(s) # 0 PROVE FALSE
    OBVIOUS
  <2>1. 1 \in 1 .. Len(s)
    BY <1>1
  <2> QED BY <2>1 DEF Only
<1> HIDE DEF AnyStep
<1> QED BY <1>2

LEMMA TailOnly ==
    ASSUME NEW s \in Seq(AnyStep), s # <<>>, NEW K, Only(s, K)
    PROVE  Only(Tail(s), K) /\ Head(s).do \in K
<1>1. 1 \in 1 .. Len(s)
  BY TailIs
<1> QED BY <1>1, TailIs DEF Only

LEMMA TailHas ==
    ASSUME NEW s \in Seq(AnyStep), s # <<>>, NEW k, Has(s, k)
    PROVE  Head(s).do = k \/ Has(Tail(s), k)
<1>1. PICK n \in 1 .. Len(s) : s[n].do = k
  BY DEF Has
<1>2. CASE n = 1
  BY <1>1, <1>2, TailIs
<1>3. CASE n # 1
  <2>1. n - 1 \in 1 .. Len(Tail(s)) /\ s[n] = Tail(s)[n - 1]
    BY <1>3, TailIs
  <2> QED BY <1>1, <2>1 DEF Has
<1> QED BY <1>2, <1>3

LEMMA HasTail ==
    ASSUME NEW s \in Seq(AnyStep), s # <<>>, NEW k, Has(Tail(s), k) \/ Head(s).do = k
    PROVE  Has(s, k)
<1>1. Len(s) \in Nat /\ 1 \in 1 .. Len(s) /\ Head(s) = s[1]
  BY TailIs
<1>2. CASE Head(s).do = k
  BY <1>1, <1>2 DEF Has
<1>3. CASE Has(Tail(s), k)
  <2>1. PICK n \in 1 .. Len(Tail(s)) : Tail(s)[n].do = k
    BY <1>3 DEF Has
  <2>2. n + 1 \in 1 .. Len(s) /\ s[n + 1] = Tail(s)[n]
    BY TailIs
  <2> QED BY <2>1, <2>2 DEF Has
<1> QED BY <1>2, <1>3

LEMMA TailBehind ==
    ASSUME NEW s \in Seq(AnyStep), s # <<>>, NEW k, NEW j, Behind(s, k, j)
    PROVE  Head(s).do # k /\ (Head(s).do = j \/ Behind(Tail(s), k, j))
<1>1. Len(s) \in Nat /\ 1 \in 1 .. Len(s) /\ Head(s) = s[1]
  BY TailIs
<1>2. Head(s).do # k
  <2> SUFFICES ASSUME s[1].do = k PROVE FALSE
    BY <1>1
  <2>1. PICK m \in 1 .. Len(s) : m < 1 /\ s[m].do = j
    BY <1>1 DEF Behind
  <2> QED BY <1>1, <2>1
<1>3. ASSUME Head(s).do # j, NEW n \in 1 .. Len(Tail(s)), Tail(s)[n].do = k
      PROVE  \E m \in 1 .. Len(Tail(s)) : m < n /\ Tail(s)[m].do = j
  <2>1. n + 1 \in 1 .. Len(s) /\ s[n + 1].do = k
    BY <1>3, TailIs
  <2>2. PICK m \in 1 .. Len(s) : m < n + 1 /\ s[m].do = j
    BY <2>1 DEF Behind
  <2>3. m # 1
    BY <1>1, <1>3, <2>2
  <2>4. m - 1 \in 1 .. Len(Tail(s)) /\ s[m] = Tail(s)[m - 1]
    BY <2>3, TailIs
  <2>5. m - 1 < n
    BY <1>1, <2>2, TailIs
  <2> QED BY <2>2, <2>4, <2>5
<1> QED BY <1>2, <1>3 DEF Behind

LEMMA TailThen ==
    ASSUME NEW s \in Seq(AnyStep), s # <<>>, NEW k, NEW K, Then(s, k, K)
    PROVE  Then(Tail(s), k, K) /\ (Head(s).do = k => Only(Tail(s), K))
<1>1. Len(s) \in Nat /\ 1 \in 1 .. Len(s) /\ Head(s) = s[1]
  BY TailIs
<1>2. Then(Tail(s), k, K)
  <2> SUFFICES ASSUME NEW m \in 1 .. Len(Tail(s)), NEW n \in 1 .. Len(Tail(s)), m < n, Tail(s)[m].do = k
               PROVE  Tail(s)[n].do \in K
    BY DEF Then
  <2>1. m + 1 \in 1 .. Len(s) /\ n + 1 \in 1 .. Len(s) /\ Tail(s)[m] = s[m + 1] /\ Tail(s)[n] = s[n + 1] /\ m + 1 < n + 1
    BY TailIs
  <2> QED BY <2>1 DEF Then
<1>3. ASSUME Head(s).do = k PROVE Only(Tail(s), K)
  <2> SUFFICES ASSUME NEW n \in 1 .. Len(Tail(s)) PROVE Tail(s)[n].do \in K
    BY DEF Only
  <2>1. n + 1 \in 1 .. Len(s) /\ Tail(s)[n] = s[n + 1] /\ 1 < n + 1
    BY TailIs
  <2> QED BY <1>1, <1>3, <2>1 DEF Then
<1> QED BY <1>2, <1>3

LEMMA TailGuarded ==
    ASSUME NEW s \in Seq(AnyStep), s # <<>>, Guarded(s)
    PROVE  ~Destructive(Head(s).req) /\ (Head(s).do = "confirm" \/ Guarded(Tail(s)))
<1>1. Len(s) \in Nat /\ 1 \in 1 .. Len(s) /\ Head(s) = s[1]
  BY TailIs
<1>2. ~Destructive(Head(s).req)
  <2> SUFFICES ASSUME Destructive(s[1].req) PROVE FALSE
    BY <1>1
  <2>1. PICK m \in 1 .. Len(s) : m < 1 /\ s[m].do = "confirm"
    BY <1>1 DEF Guarded
  <2> QED BY <1>1, <2>1
<1>3. ASSUME Head(s).do # "confirm", NEW n \in 1 .. Len(Tail(s)), Destructive(Tail(s)[n].req)
      PROVE  \E m \in 1 .. Len(Tail(s)) : m < n /\ Tail(s)[m].do = "confirm"
  <2>1. n + 1 \in 1 .. Len(s) /\ Destructive(s[n + 1].req)
    BY <1>3, TailIs
  <2>2. PICK m \in 1 .. Len(s) : m < n + 1 /\ s[m].do = "confirm"
    BY <2>1 DEF Guarded
  <2>3. m # 1
    BY <1>1, <1>3, <2>2
  <2>4. m - 1 \in 1 .. Len(Tail(s)) /\ s[m] = Tail(s)[m - 1]
    BY <2>3, TailIs
  <2>5. m - 1 < n
    BY <1>1, <2>2, TailIs
  <2> QED BY <2>2, <2>4, <2>5
<1> QED BY <1>2, <1>3 DEF Guarded

LEMMA TailAchieves ==
    ASSUME NEW s \in Seq(AnyStep), s # <<>>, NEW g, \E n \in 1 .. Len(s) : Achieves(s[n], g)
    PROVE  Achieves(Head(s), g) \/ \E n \in 1 .. Len(Tail(s)) : Achieves(Tail(s)[n], g)
<1>1. PICK n \in 1 .. Len(s) : Achieves(s[n], g)
  OBVIOUS
<1>2. CASE n = 1
  <2>1. s[n] = Head(s)
    BY <1>2, TailIs
  <2> QED BY <1>1, <2>1
<1>3. CASE n # 1
  <2>1. n - 1 \in 1 .. Len(Tail(s)) /\ s[n] = Tail(s)[n - 1]
    BY <1>3, TailIs
  <2> QED BY <1>1, <2>1
<1> QED BY <1>2, <1>3

LEMMA TailSteps ==
    ASSUME NEW s \in Seq(AnyStep), s # <<>>, \A n \in 1 .. Len(s) : StepOK(s[n])
    PROVE  (\A n \in 1 .. Len(Tail(s)) : StepOK(Tail(s)[n])) /\ StepOK(Head(s))
<1>1. 1 \in 1 .. Len(s) /\ Head(s) = s[1]
  BY TailIs
<1>2. \A n \in 1 .. Len(Tail(s)) : n + 1 \in 1 .. Len(s) /\ Tail(s)[n] = s[n + 1]
  BY TailIs
<1> QED BY <1>1, <1>2

-----------------------------------------------------------------------------
(* The state of a command that changes in some fields.                     *)

Like(x, r, S) ==
    DOMAIN x = RunFields /\ x = [f \in RunFields |-> x[f]] /\ \A f \in RunFields \ S : x[f] = r[f]

LEMMA Updated ==
    ASSUME NEW r, DOMAIN r = RunFields, r = [f \in RunFields |-> r[f]], NEW g \in RunFields, NEW v
    PROVE  Like([r EXCEPT ![g] = v], r, {g}) /\ [r EXCEPT ![g] = v][g] = v
<1> HIDE DEF RunFields
<1> DEFINE x == [r EXCEPT ![g] = v]
<1>1. DOMAIN x = RunFields /\ x[g] = v /\ \A f \in RunFields \ {g} : x[f] = r[f]
  OBVIOUS
<1>2. x = [f \in RunFields |-> x[f]]
  OBVIOUS
<1> QED BY <1>1, <1>2 DEF Like

\* A command between two steps of its work: some are left, or it failed, or it is through.
Working(r, l, t, agreed) ==
    /\ RunBase(r) /\ r.phase = "work" /\ l # "down" /\ r.on = 1 /\ r.off = 0
    /\ \/ r.told = 0
       \/ /\ r.told = 1 /\ r.todo = <<>> /\ r.error # "none"
          /\ r.program.style = "workflow" /\ r.program.restore = <<>>
    /\ (\A n \in 1 .. Len(r.todo) : StepOK(r.todo[n])) /\ Only(r.todo, WorkKinds)
    /\ r.todo # <<>> => r.error = "none" /\ ~r.doubtful
    /\ r.doubtful => r.error # "none"
    /\ r.error = "none" => r.reached \/ \E n \in 1 .. Len(r.todo) : Achieves(r.todo[n], r.program.goal)
    /\ r.error = "none" /\ r.program.inside => r.printed \/ Has(r.todo, "print")
    /\ r.accepted \/ r.record # "none" => r.program.name = "send"
    /\ r.todo # <<>> => SendWork(r) /\ MailWork(r) /\ KeptWork(r) /\ (r.yes => agreed) /\ (agreed \/ Guarded(r.todo))
    /\ r.todo = <<>> => SendLate(r)
    /\ Counted(r, t)

LEMMA WorkGoesOn ==
    ASSUME NEW r, NEW l, NEW d, NEW t, NEW agreed, Working(r, l, t, agreed), r.todo # <<>>
    PROVE  RunOK(r, l, d, t, agreed)
<1>1. RunBase(r) /\ TodoOK(r)
  BY DEF Working, TodoOK
<1>2. HooksOK(r, l)
  BY DEF Working, HooksOK
<1>3. SettingOK(r, d)
  BY DEF Working, SettingOK, Early, Ended
<1>4. ResultOK(r)
  BY DEF Working, ResultOK, Early, Late
<1>5. SendOK(r) /\ MailOK(r, t) /\ KeptOK(r) /\ ConsentOK(r, agreed)
  BY DEF Working, SendOK, MailOK, KeptOK, ConsentOK, Early, Late
<1> QED BY <1>1, <1>2, <1>3, <1>4, <1>5 DEF RunOK

\* A command that has worked has to undo a setting ...
LEMMA WorkIsUndone ==
    ASSUME NEW r, NEW l, NEW d, NEW t, NEW agreed, Working(r, l, t, agreed), r.todo = <<>>,
           NEW x, Like(x, r, {"phase", "todo"}), x.phase = "restore", x.todo = r.program.restore, r.program.restore # <<>>
    PROVE  RunOK(x, l, d, t, agreed)
<1>1. /\ x.program = r.program /\ x.error = r.error /\ x.post = r.post /\ x.yes = r.yes /\ x.owed = r.owed
      /\ x.doubtful = r.doubtful /\ x.on = r.on /\ x.off = r.off /\ x.told = r.told /\ x.row = r.row
      /\ x.password = r.password /\ x.record = r.record /\ x.unstored = r.unstored /\ x.accepted = r.accepted
      /\ x.printed = r.printed /\ x.reached = r.reached
  BY DEF Like, RunFields
<1>2. Len(r.todo) = 0
  BY DEF Working
<1>3. ResetScope \in Seq(AnyStep) /\ ResetHash \in Seq(AnyStep)
  BY RestoreSteps
<1>4. RunBase(x)
  BY <1>1, <1>3 DEF Working, RunBase, Like, Phases, ProgramOK
<1>5. TodoOK(x) /\ HooksOK(x, l) /\ KeptOK(x) /\ MailOK(x, t)
  BY <1>1 DEF Working, TodoOK, HooksOK, KeptOK, MailOK, Counted, Counts, Early
<1>6. SettingOK(x, d) /\ ConsentOK(x, agreed)
  BY <1>1 DEF Working, SettingOK, Early, Ended, ConsentOK
<1>7. ResultOK(x)
  <2>1. (r.error = "none" => r.reached) /\ (r.error = "none" /\ r.program.inside => r.printed)
    BY <1>2 DEF Working, Has
  <2> QED BY <1>1, <2>1 DEF ResultOK, Early, Late
<1>8. SendOK(x)
  BY <1>1 DEF Working, SendOK, SendLate, Early, Late
<1> QED BY <1>4, <1>5, <1>6, <1>7, <1>8 DEF RunOK

\* ... or ends.
LEMMA WorkEnds ==
    ASSUME NEW r, NEW l, NEW d, NEW t, NEW agreed, Working(r, l, t, agreed), r.todo = <<>>,
           ~(r.owed /\ r.program.restore # <<>>),
           NEW x, Like(x, r, {"phase"}),
           x.phase = IF r.program.style = "workflow" THEN "disconnect_hook"
                     ELSE IF ShouldEmitError(r.error) THEN "error_hook" ELSE "shutdown"
    PROVE  RunOK(x, l, d, t, agreed)
<1>1. /\ x.program = r.program /\ x.error = r.error /\ x.post = r.post /\ x.yes = r.yes /\ x.owed = r.owed
      /\ x.doubtful = r.doubtful /\ x.on = r.on /\ x.off = r.off /\ x.told = r.told /\ x.row = r.row
      /\ x.password = r.password /\ x.record = r.record /\ x.unstored = r.unstored /\ x.accepted = r.accepted
      /\ x.printed = r.printed /\ x.reached = r.reached /\ x.todo = r.todo
  BY DEF Like, RunFields
<1>2. Len(r.todo) = 0
  BY DEF Working
<1>3. /\ x.phase \in {"disconnect_hook", "error_hook", "shutdown"}
      /\ x.phase = "disconnect_hook" => r.program.style = "workflow"
      /\ x.phase \in {"error_hook", "shutdown"} => r.program.style = "session"
  BY DEF Working, RunBase, ProgramOK
<1>4. RunBase(x)
  BY <1>1, <1>3 DEF Working, RunBase, Like, Phases
<1>5. TodoOK(x) /\ KeptOK(x) /\ MailOK(x, t)
  BY <1>1, <1>3 DEF Working, TodoOK, KeptOK, MailOK, Counted, Counts, Early
<1>6. HooksOK(x, l)
  BY <1>1, <1>3 DEF Working, HooksOK, ShouldEmitError
<1>7. SettingOK(x, d) /\ ConsentOK(x, agreed)
  BY <1>1, <1>3 DEF Working, SettingOK, Early, Ended, ConsentOK
<1>8. ResultOK(x)
  <2>1. (r.error = "none" => r.reached) /\ (r.error = "none" /\ r.program.inside => r.printed)
    BY <1>2 DEF Working, Has
  <2> QED BY <1>1, <1>3, <2>1 DEF ResultOK, Early, Late
<1>9. SendOK(x)
  BY <1>1, <1>3 DEF Working, SendOK, SendLate, Early, Late
<1> QED BY <1>4, <1>5, <1>6, <1>7, <1>8, <1>9 DEF RunOK

\* Settle, after a step of the work.
LEMMA SettleKeeps ==
    ASSUME NEW r, NEW l, NEW d, NEW t, NEW agreed, Working(r, l, t, agreed)
    PROVE  RunOK(Settle(r), l, d, t, agreed)
<1>1. DOMAIN r = RunFields /\ r = [f \in RunFields |-> r[f]] /\ r.phase = "work"
  BY DEF Working, RunBase
<1>2. CASE r.todo # <<>>
  <2>1. Settle(r) = r
    BY <1>2 DEF Settle
  <2> QED BY <1>2, <2>1, WorkGoesOn
<1>3. CASE r.todo = <<>> /\ r.owed /\ r.program.restore # <<>>
  <2> DEFINE y == [r EXCEPT !.phase = "restore"]
             x == [y EXCEPT !.todo = r.program.restore]
  <2>1. Settle(r) = [r EXCEPT !.phase = "restore", !.todo = r.program.restore]
    BY <1>1, <1>3 DEF Settle
  <2>2. Settle(r) = x
    BY <2>1
  <2>3. Like(y, r, {"phase"}) /\ y.phase = "restore"
    BY <1>1, Updated DEF RunFields
  <2>4. DOMAIN y = RunFields /\ y = [f \in RunFields |-> y[f]]
    BY <2>3 DEF Like
  <2> HIDE DEF y
  <2>5. Like(x, y, {"todo"}) /\ x.todo = r.program.restore
    BY <2>4, Updated DEF RunFields
  <2> HIDE DEF x
  <2>6. Like(x, r, {"phase", "todo"}) /\ x.phase = "restore"
    BY <2>3, <2>5 DEF Like, RunFields
  <2>7. RunOK(x, l, d, t, agreed)
    BY <1>3, <2>5, <2>6, WorkIsUndone
  <2> QED BY <2>2, <2>7
<1>4. CASE r.todo = <<>> /\ ~(r.owed /\ r.program.restore # <<>>)
  <2> DEFINE P == IF r.program.style = "workflow" THEN "disconnect_hook"
                  ELSE IF ShouldEmitError(r.error) THEN "error_hook" ELSE "shutdown"
             x == [r EXCEPT !.phase = P]
  <2>1. Settle(r) = Finish(r)
    BY <1>1, <1>4 DEF Settle
  <2>2. Settle(r) = x
    BY <2>1 DEF Finish
  <2> HIDE DEF P
  <2>3. Like(x, r, {"phase"}) /\ x.phase = P
    BY <1>1, Updated DEF RunFields
  <2> HIDE DEF x
  <2>4. RunOK(x, l, d, t, agreed)
    BY <1>4, <2>3, WorkEnds DEF P
  <2> QED BY <2>2, <2>4
<1> QED BY <1>2, <1>3, <1>4

\* The history of what was reached plays no part in it.
LEMMA SettleAfter ==
    ASSUME NEW r, DOMAIN r = RunFields, r = [f \in RunFields |-> r[f]], NEW q
    PROVE  [Settle(r) EXCEPT !.reached = q] = Settle([r EXCEPT !.reached = q])
<1> DEFINE y == [r EXCEPT !.reached = q]
<1>1. Like(y, r, {"reached"}) /\ y.reached = q
  BY Updated DEF RunFields
<1>2. /\ DOMAIN y = RunFields /\ y = [f \in RunFields |-> y[f]] /\ y.todo = r.todo /\ y.phase = r.phase
      /\ y.owed = r.owed /\ y.program = r.program /\ y.error = r.error
  BY <1>1 DEF Like, RunFields
<1>3. CASE r.todo # <<>>
  <2>1. Settle(r) = r
    BY <1>3 DEF Settle
  <2>2. Settle(y) = y
    <3> HIDE DEF y
    <3> QED BY <1>2, <1>3 DEF Settle
  <2> QED BY <2>1, <2>2
<1>4. CASE r.todo = <<>> /\ r.phase = "local"
  <2> DEFINE P == IF r.error = "none" THEN "connect" ELSE "exit"
  <2>1. Settle(r) = [r EXCEPT !.phase = P]
    BY <1>4 DEF Settle
  <2>2. Settle(y) = [y EXCEPT !.phase = P]
    <3> HIDE DEF y
    <3> QED BY <1>2, <1>4 DEF Settle
  <2> HIDE DEF P
  <2> QED BY <2>1, <2>2 DEF RunFields
<1>5. CASE r.todo = <<>> /\ r.phase = "work" /\ r.owed /\ r.program.restore # <<>>
  <2>1. Settle(r) = [r EXCEPT !.phase = "restore", !.todo = r.program.restore]
    BY <1>5 DEF Settle
  <2>2. Settle(y) = [y EXCEPT !.phase = "restore", !.todo = r.program.restore]
    <3> HIDE DEF y
    <3> QED BY <1>2, <1>5 DEF Settle
  <2> QED BY <2>1, <2>2 DEF RunFields
<1>6. CASE r.todo = <<>> /\ r.phase # "local" /\ ~(r.phase = "work" /\ r.owed /\ r.program.restore # <<>>)
  <2> DEFINE P == IF r.program.style = "workflow" THEN "disconnect_hook"
                  ELSE IF ShouldEmitError(r.error) THEN "error_hook" ELSE "shutdown"
  <2>1. Settle(r) = [r EXCEPT !.phase = P]
    BY <1>6 DEF Settle, Finish
  <2>2. Settle(y) = [y EXCEPT !.phase = P]
    <3> HIDE DEF y
    <3> QED BY <1>2, <1>6 DEF Settle, Finish
  <2> HIDE DEF P
  <2> QED BY <2>1, <2>2 DEF RunFields
<1> QED BY <1>3, <1>4, <1>5, <1>6

-----------------------------------------------------------------------------
(* A step of the work that succeeds, and one that fails.                   *)

LEMMA WorkState ==
    ASSUME NEW r, NEW l, NEW d, NEW t, NEW agreed, RunOK(r, l, d, t, agreed), r.phase = "work"
    PROVE  Working(r, l, t, agreed) /\ r.todo # <<>>
<1>1. RunBase(r) /\ r.todo # <<>> /\ r.error = "none" /\ (\A n \in 1 .. Len(r.todo) : StepOK(r.todo[n])) /\ Only(r.todo, WorkKinds)
  BY DEF RunOK, TodoOK
<1>2. l # "down" /\ r.on = 1 /\ r.off = 0 /\ r.told = 0 /\ ~r.doubtful
  BY DEF RunOK, HooksOK, SettingOK
<1>3. /\ r.reached \/ \E n \in 1 .. Len(r.todo) : Achieves(r.todo[n], r.program.goal)
      /\ r.program.inside => r.printed \/ Has(r.todo, "print")
  BY DEF RunOK, ResultOK
<1>4. /\ r.accepted \/ r.record # "none" => r.program.name = "send"
      /\ SendWork(r) /\ MailWork(r) /\ KeptWork(r) /\ (r.yes => agreed) /\ (agreed \/ Guarded(r.todo)) /\ Counted(r, t)
  BY DEF RunOK, SendOK, MailOK, KeptOK, ConsentOK
<1> QED BY <1>1, <1>2, <1>3, <1>4 DEF Working

\* The send after one of its steps.
LEMMA SendAdvances ==
    ASSUME NEW r, NEW x, r.todo \in Seq(AnyStep), r.todo # <<>>, SendWork(r), x.todo = Tail(r.todo), x.program = r.program,
           x.error = "none", r.accepted \/ r.record # "none" => r.program.name = "send",
           x.accepted <=> r.accepted \/ Head(r.todo).do = "transmit",
           \/ x.record = r.record /\ Head(r.todo).do # "await"
           \/ Head(r.todo).do = "begin" /\ x.record \in {"none", "pending"}
           \/ Head(r.todo).do = "await" /\ (x.record \in {"none", "acknowledged"} \/ (x.unstored /\ x.record = "pending"))
    PROVE  /\ x.accepted \/ x.record # "none" => x.program.name = "send"
           /\ x.todo # <<>> => SendWork(x)
           /\ x.todo = <<>> => SendLate(x)
<1> DEFINE h == Head(r.todo)
           s == Tail(r.todo)
<1>1. h.do \in {"begin", "transmit", "await"} => r.program.name = "send"
  <2>1. r.program.name # "send" => h.do \in WorkKinds \ SendKinds
    BY TailOnly DEF SendWork
  <2> QED BY <2>1 DEF SendKinds
<1>2. x.accepted \/ x.record # "none" => x.program.name = "send"
  BY <1>1
<1>3. r.program.name # "send" => Only(s, WorkKinds \ SendKinds)
  BY TailOnly DEF SendWork
<1>4. r.program.name = "send" =>
         /\ Then(s, "begin", SendingKinds) /\ Then(s, "transmit", {"sent", "await"}) /\ Then(s, "await", {})
         /\ h.do = "begin" => Only(s, SendingKinds)
         /\ h.do = "transmit" => Only(s, {"sent", "await"})
         /\ h.do = "await" => Only(s, {})
  BY TailThen DEF SendWork, SendWorkOK
<1>5. h.do = "await" => s = <<>>
  BY <1>1, <1>4, OnlyNothing, TailIs
<1>6. r.program.name = "send" => (x.accepted \/ Has(s, "transmit"))
  BY TailHas DEF SendWork
<1>7. r.program.name = "send" /\ Has(r.program.work, "await") => h.do = "await" \/ Has(s, "await")
  BY TailHas DEF SendWork
<1>8. ASSUME s # <<>> PROVE SendWork(x)
  <2>1. h.do # "await" /\ x.record \in {"none", "pending"}
    BY <1>5, <1>8 DEF SendWork
  <2>2. x.accepted => Only(s, {"sent", "await"})
    <3>1. r.accepted => Only(s, {"sent", "await"})
      BY TailOnly DEF SendWork
    <3> QED BY <1>1, <1>4, <3>1
  <2>3. x.record # "none" => Only(s, SendingKinds)
    <3>1. r.record # "none" => Only(s, SendingKinds)
      BY TailOnly DEF SendWork
    <3> QED BY <1>1, <1>4, <2>1, <3>1
  <2>4. r.program.name = "send" => SendWorkOK(s) /\ (x.accepted \/ Has(s, "transmit"))
                                   /\ (Has(r.program.work, "await") => Has(s, "await"))
    BY <1>4, <1>6, <1>7, <2>1 DEF SendWorkOK
  <2>5. Has(s, "await") => Has(r.program.work, "await")
    <3>1. Has(s, "await") => Has(r.todo, "await")
      BY HasTail
    <3> QED BY <3>1 DEF SendWork
  <2> HIDE DEF s
  <2>6. x.todo = s
    BY DEF s
  <2> QED BY <1>3, <2>1, <2>2, <2>3, <2>4, <2>5, <2>6 DEF SendWork
<1>9. ASSUME s = <<>> PROVE SendLate(x)
  <2>1. ~Has(s, "transmit") /\ ~Has(s, "await")
    BY <1>9, NothingLeft
  <2>2. x.record \in {"none", "pending", "acknowledged"}
    BY DEF SendWork
  <2>3. x.record = "pending" => x.unstored \/ (x.accepted /\ ~Has(r.program.work, "await"))
    <3>1. CASE h.do = "await"
      BY <3>1
    <3>2. CASE h.do # "await"
      BY <1>2, <1>6, <1>7, <2>1, <3>2
    <3> QED BY <3>1, <3>2
  <2> QED BY <2>2, <2>3 DEF SendLate
<1> QED BY <1>2, <1>8, <1>9

\* A step that succeeds.
LEMMA AdvanceWorks ==
    ASSUME NEW r, NEW l0, NEW t0, NEW a0, Working(r, l0, t0, a0), r.todo # <<>>,
           NEW l, l # "down", NEW t, NEW agreed, a0 => agreed, NEW x, RunBase(x),
           Like(x, r, {"todo", "reached", "post", "owed", "row", "password", "record", "unstored", "accepted", "printed"}),
           x.todo = Tail(r.todo),
           r.reached \/ Achieves(Head(r.todo), r.program.goal) => x.reached,
           r.printed \/ Head(r.todo).do = "print" => x.printed,
           (x.row = r.row /\ Head(r.todo).do # "row") \/ x.row \in Rows,
           \/ x.password = r.password /\ Head(r.todo).do # "login"
           \/ Head(r.todo).do = "password"
           \/ x.password = "right" /\ Head(r.todo).do = "login",
           Head(r.todo).do = "confirm" => agreed,
           x.accepted <=> r.accepted \/ Head(r.todo).do = "transmit",
           r.program.name = "inbox" => x.unstored = r.unstored,
           \/ x.record = r.record /\ Head(r.todo).do # "await"
           \/ Head(r.todo).do = "begin" /\ x.record \in {"none", "pending"}
           \/ Head(r.todo).do = "await" /\ (x.record \in {"none", "acknowledged"} \/ (x.unstored /\ x.record = "pending")),
           Counted(x, t)
    PROVE  Working(x, l, t, agreed)
<1> DEFINE h == Head(r.todo)
           s == Tail(r.todo)
<1>1. /\ x.program = r.program /\ x.phase = "work" /\ x.error = "none" /\ x.yes = r.yes /\ ~x.doubtful
      /\ x.on = 1 /\ x.off = 0 /\ x.told = 0
  <2>1. /\ x.program = r.program /\ x.phase = r.phase /\ x.error = r.error /\ x.yes = r.yes /\ x.doubtful = r.doubtful
        /\ x.on = r.on /\ x.off = r.off /\ x.told = r.told
    BY DEF Like, RunFields
  <2> QED BY <2>1 DEF Working
<1>2. r.todo \in Seq(AnyStep)
  BY DEF Working, RunBase
<1>3. (\A n \in 1 .. Len(s) : StepOK(s[n])) /\ Only(s, WorkKinds)
  BY <1>2, TailSteps, TailOnly DEF Working
<1>4. x.reached \/ \E n \in 1 .. Len(s) : Achieves(s[n], r.program.goal)
  BY <1>2, TailAchieves DEF Working
<1>5. r.program.inside => x.printed \/ Has(s, "print")
  BY <1>2, TailHas DEF Working
<1>6. /\ x.accepted \/ x.record # "none" => x.program.name = "send"
      /\ x.todo # <<>> => SendWork(x)
      /\ x.todo = <<>> => SendLate(x)
  <2>1. SendWork(r) /\ (r.accepted \/ r.record # "none" => r.program.name = "send")
    BY DEF Working
  <2> QED BY <1>1, <1>2, <2>1, SendAdvances
<1>7. MailWork(x)
  <2>1. MailWork(r)
    BY DEF Working
  <2>2. CASE r.program.name = "inbox"
    <3>1. Only(s, {"drain"}) /\ ~r.unstored
      BY <1>2, <2>1, <2>2, TailOnly DEF MailWork
    <3> QED BY <1>1, <2>2, <3>1 DEF MailWork
  <2>3. CASE r.program.name # "inbox"
    <3>1. Only(s, WorkKinds \ {"drain"})
      BY <1>2, <2>1, <2>3, TailOnly DEF MailWork
    <3> QED BY <1>1, <2>3, <3>1 DEF MailWork
  <2> QED BY <2>2, <2>3
<1>8. KeptWork(x)
  <2>1. KeptWork(r)
    BY DEF Working
  <2>2. Behind(s, "write", "row") \/ x.row \in Rows
    BY <1>2, <2>1, TailBehind DEF KeptWork
  <2>3. Then(s, "login", {"save"}) /\ (h.do = "login" => Only(s, {"save"}))
    BY <1>2, <2>1, TailThen DEF KeptWork
  <2>4. Behind(s, "save", "login") \/ (x.password = "right" /\ Only(s, {"save"}))
    <3>1. CASE Behind(r.todo, "save", "login")
      BY <1>2, <2>3, <3>1, TailBehind
    <3>2. CASE r.password = "right" /\ Only(r.todo, {"save"})
      <4>1. h.do = "save" /\ Only(s, {"save"})
        BY <1>2, <3>2, TailOnly
      <4> QED BY <3>2, <4>1
    <3> QED BY <2>1, <3>1, <3>2 DEF KeptWork
  <2> QED BY <2>2, <2>3, <2>4 DEF KeptWork
<1>9. agreed \/ Guarded(s)
  BY <1>2, TailGuarded DEF Working
<1>10. x.yes => agreed
  BY <1>1 DEF Working
<1> HIDE DEF s, h
<1>11. x.todo = s
  BY DEF s
<1> QED BY <1>1, <1>3, <1>4, <1>5, <1>6, <1>7, <1>8, <1>9, <1>10, <1>11 DEF Working

\* A step that fails.
LEMMA FailWorks ==
    ASSUME NEW r, NEW l0, NEW t0, NEW a0, Working(r, l0, t0, a0), NEW l, l # "down", NEW t, NEW agreed, NEW x, RunBase(x),
           Like(x, r, {"todo", "error", "reached", "owed", "doubtful", "record", "unstored", "printed", "told"}),
           x.told = 0 \/ (x.told = 1 /\ x.program.style = "workflow" /\ x.program.restore = <<>>),
           x.todo = <<>>, x.error # "none", SendLate(x), x.record # "none" => r.record # "none", Counted(x, t)
    PROVE  Working(x, l, t, agreed)
<1>1. x.program = r.program /\ x.phase = "work" /\ x.accepted = r.accepted /\ x.on = 1 /\ x.off = 0
  <2>1. /\ x.program = r.program /\ x.phase = r.phase /\ x.accepted = r.accepted /\ x.on = r.on /\ x.off = r.off
    BY DEF Like, RunFields
  <2> QED BY <2>1 DEF Working
<1>2. Len(x.todo) = 0
  OBVIOUS
<1>3. (\A n \in 1 .. Len(x.todo) : StepOK(x.todo[n])) /\ Only(x.todo, WorkKinds)
  BY <1>2, NothingLeft
<1>4. x.accepted \/ x.record # "none" => x.program.name = "send"
  BY <1>1 DEF Working
<1> QED BY <1>1, <1>3, <1>4 DEF Working

\* Settle leaves alone what was reached.
LEMMA SettleReached ==
    ASSUME NEW r, DOMAIN r = RunFields, r = [f \in RunFields |-> r[f]]
    PROVE  Settle(r).reached = r.reached /\ DOMAIN Settle(r) = RunFields
<1> DEFINE P == IF r.error = "none" THEN "connect" ELSE "exit"
           Q == IF r.program.style = "workflow" THEN "disconnect_hook"
                ELSE IF ShouldEmitError(r.error) THEN "error_hook" ELSE "shutdown"
<1>1. \/ Settle(r) = r \/ Settle(r) = [r EXCEPT !.phase = P]
      \/ Settle(r) = [r EXCEPT !.phase = "restore", !.todo = r.program.restore] \/ Settle(r) = [r EXCEPT !.phase = Q]
  BY DEF Settle, Finish
<1> HIDE DEF P, Q
<1> QED BY <1>1 DEF RunFields

LEMMA UpdatedTwice ==
    ASSUME NEW r, DOMAIN r = RunFields, r = [f \in RunFields |-> r[f]], NEW g \in RunFields, NEW h \in RunFields, g # h, NEW v, NEW w
    PROVE  LET x == [[r EXCEPT ![g] = v] EXCEPT ![h] = w] IN Like(x, r, {g, h}) /\ x[g] = v /\ x[h] = w
<1> DEFINE y == [r EXCEPT ![g] = v]
           x == [y EXCEPT ![h] = w]
<1>1. Like(y, r, {g}) /\ y[g] = v
  BY Updated
<1>2. DOMAIN y = RunFields /\ y = [f \in RunFields |-> y[f]]
  BY <1>1 DEF Like
<1> HIDE DEF y
<1>3. Like(x, y, {h}) /\ x[h] = w
  BY <1>2, Updated
<1> HIDE DEF x
<1>4. Like(x, r, {g, h}) /\ x[g] = v
  BY <1>1, <1>3 DEF Like
<1> QED BY <1>3, <1>4 DEF x, y

\* The state that is settled when a step succeeds, with and without a look at the goal.
LEMMA AdvanceIs ==
    ASSUME NEW y, DOMAIN y = RunFields, y = [f \in RunFields |-> y[f]]
    PROVE  \E x : /\ Advance(y) = Settle(x) /\ Like(x, y, {"todo", "reached"})
                  /\ x.todo = Tail(y.todo) /\ x.reached = y.reached
<1> DEFINE x == [y EXCEPT !.todo = Tail(y.todo)]
<1>1. Advance(y) = Settle(x)
  BY DEF Advance
<1>2. Like(x, y, {"todo"}) /\ x.todo = Tail(y.todo)
  BY Updated DEF RunFields
<1> HIDE DEF x
<1>3. Like(x, y, {"todo", "reached"}) /\ x.reached = y.reached
  BY <1>2 DEF Like, RunFields
<1> QED BY <1>1, <1>2, <1>3

\* After a request: the goal may have been reached.
Looked(z, G) == [z EXCEPT !.reached = @ \/ G]

LEMMA AdvanceAfter ==
    ASSUME NEW y, DOMAIN y = RunFields, y = [f \in RunFields |-> y[f]], NEW G
    PROVE  \E x : /\ Looked(Advance(y), G) = Settle(x) /\ Like(x, y, {"todo", "reached"})
                  /\ x.todo = Tail(y.todo) /\ (y.reached \/ G => x.reached)
<1> DEFINE z == [y EXCEPT !.todo = Tail(y.todo)]
           q == y.reached \/ G
           x == [z EXCEPT !.reached = q]
<1>1. Advance(y) = Settle(z)
  BY DEF Advance
<1>2. Like(z, y, {"todo"}) /\ z.todo = Tail(y.todo)
  BY Updated DEF RunFields
<1>3. DOMAIN z = RunFields /\ z = [f \in RunFields |-> z[f]] /\ z.reached = y.reached
  BY <1>2 DEF Like, RunFields
<1> HIDE DEF z
<1>4. Like(x, y, {"todo", "reached"}) /\ x.todo = Tail(y.todo) /\ x.reached = q
  <2>1. Like(x, z, {"reached"}) /\ x.reached = q
    BY <1>3, Updated DEF RunFields
  <2> HIDE DEF x
  <2> QED BY <1>2, <2>1 DEF Like, RunFields
<1>5. Settle(z).reached = y.reached
  BY <1>3, SettleReached
<1>6. Looked(Settle(z), G) = [Settle(z) EXCEPT !.reached = q]
  BY <1>5 DEF Looked
<1>7. [Settle(z) EXCEPT !.reached = q] = Settle(x)
  BY <1>3, SettleAfter
<1> HIDE DEF x, q
<1>8. Looked(Advance(y), G) = Settle(x)
  BY <1>1, <1>6, <1>7
<1> QED BY <1>4, <1>8 DEF q

LEMMA FailIs ==
    ASSUME NEW y, DOMAIN y = RunFields, y = [f \in RunFields |-> y[f]], NEW e
    PROVE  \E x : /\ Fail(y, e) = Settle(x) /\ Like(x, y, {"todo", "error", "reached"})
                  /\ x.todo = <<>> /\ x.error = e
<1> DEFINE x == [[y EXCEPT !.error = e] EXCEPT !.todo = <<>>]
<1>1. Fail(y, e) = Settle(x)
  BY DEF Fail
<1>2. Like(x, y, {"error", "todo"}) /\ x.todo = <<>> /\ x.error = e
  <2>1. "error" \in RunFields /\ "todo" \in RunFields /\ "error" # "todo"
    BY DEF RunFields
  <2> QED BY <2>1, UpdatedTwice
<1> HIDE DEF x
<1>3. Like(x, y, {"todo", "error", "reached"})
  BY <1>2 DEF Like
<1> QED BY <1>1, <1>2, <1>3

LEMMA FailAfter ==
    ASSUME NEW y, DOMAIN y = RunFields, y = [f \in RunFields |-> y[f]], NEW e, NEW G
    PROVE  \E x : /\ Looked(Fail(y, e), G) = Settle(x) /\ Like(x, y, {"todo", "error", "reached"})
                  /\ x.todo = <<>> /\ x.error = e
<1> DEFINE z == [[y EXCEPT !.error = e] EXCEPT !.todo = <<>>]
           q == y.reached \/ G
           x == [z EXCEPT !.reached = q]
<1>1. Fail(y, e) = Settle(z)
  BY DEF Fail
<1>2. Like(z, y, {"error", "todo"}) /\ z.todo = <<>> /\ z.error = e
  <2>1. "error" \in RunFields /\ "todo" \in RunFields /\ "error" # "todo"
    BY DEF RunFields
  <2> QED BY <2>1, UpdatedTwice
<1>3. DOMAIN z = RunFields /\ z = [f \in RunFields |-> z[f]] /\ z.reached = y.reached
  BY <1>2 DEF Like, RunFields
<1> HIDE DEF z
<1>4. Like(x, z, {"reached"})
  BY <1>3, Updated DEF RunFields
<1>5. Settle(z).reached = y.reached
  BY <1>3, SettleReached
<1>6. Looked(Settle(z), G) = [Settle(z) EXCEPT !.reached = q]
  BY <1>5 DEF Looked
<1>7. [Settle(z) EXCEPT !.reached = q] = Settle(x)
  BY <1>3, SettleAfter
<1> HIDE DEF x, q
<1>8. Looked(Fail(y, e), G) = Settle(x)
  BY <1>1, <1>6, <1>7
<1>9. Like(x, y, {"todo", "error", "reached"}) /\ x.todo = <<>> /\ x.error = e
  BY <1>2, <1>4 DEF Like, RunFields
<1> QED BY <1>8, <1>9

-----------------------------------------------------------------------------
(* Succeeding and failing, from a state y in which other fields changed.   *)

Passing(r, y, agreed) ==
    /\ RunBase(y)
    /\ Like(y, r, {"reached", "post", "owed", "row", "password", "record", "unstored", "accepted", "printed"})
    /\ r.reached => y.reached
    /\ r.printed \/ Head(r.todo).do = "print" => y.printed
    /\ (y.row = r.row /\ Head(r.todo).do # "row") \/ y.row \in Rows
    /\ \/ y.password = r.password /\ Head(r.todo).do # "login"
       \/ Head(r.todo).do = "password"
       \/ y.password = "right" /\ Head(r.todo).do = "login"
    /\ Head(r.todo).do = "confirm" => agreed
    /\ y.accepted <=> r.accepted \/ Head(r.todo).do = "transmit"
    /\ r.program.name = "inbox" => y.unstored = r.unstored
    /\ \/ y.record = r.record /\ Head(r.todo).do # "await"
       \/ Head(r.todo).do = "begin" /\ y.record \in {"none", "pending"}
       \/ Head(r.todo).do = "await" /\ (y.record \in {"none", "acknowledged"} \/ (y.unstored /\ y.record = "pending"))

LEMMA PassingWorks ==
    ASSUME NEW r, NEW l0, NEW t0, NEW a0, Working(r, l0, t0, a0), r.todo # <<>>,
           NEW l, l # "down", NEW t, NEW agreed, a0 => agreed, NEW y, Passing(r, y, agreed), Counted(y, t),
           NEW x, Like(x, y, {"todo", "reached"}), x.todo = Tail(y.todo),
           y.reached \/ Achieves(Head(r.todo), r.program.goal) => x.reached
    PROVE  Working(x, l, t, agreed)
<1>1. /\ x.program = y.program /\ x.phase = y.phase /\ x.error = y.error /\ x.post = y.post /\ x.row = y.row
      /\ x.password = y.password /\ x.record = y.record /\ x.unstored = y.unstored /\ x.accepted = y.accepted
      /\ x.printed = y.printed
  BY DEF Like, RunFields
<1>2. y.todo = r.todo /\ y.program = r.program
  BY DEF Passing, Like, RunFields
<1>3. r.todo \in Seq(AnyStep)
  BY DEF Working, RunBase
<1>4. x.todo \in Seq(AnyStep)
  BY <1>2, <1>3, TailIs
<1>5. RunBase(x)
  BY <1>1, <1>4 DEF Passing, RunBase, Like
<1>6. Like(x, r, {"todo", "reached", "post", "owed", "row", "password", "record", "unstored", "accepted", "printed"})
  BY DEF Passing, Like
<1>7. Counted(x, t)
  BY <1>1 DEF Counted, Counts
<1>8. /\ r.reached \/ Achieves(Head(r.todo), r.program.goal) => x.reached
      /\ r.printed \/ Head(r.todo).do = "print" => x.printed
      /\ (x.row = r.row /\ Head(r.todo).do # "row") \/ x.row \in Rows
      /\ \/ x.password = r.password /\ Head(r.todo).do # "login"
         \/ Head(r.todo).do = "password"
         \/ x.password = "right" /\ Head(r.todo).do = "login"
      /\ Head(r.todo).do = "confirm" => agreed
      /\ x.accepted <=> r.accepted \/ Head(r.todo).do = "transmit"
      /\ r.program.name = "inbox" => x.unstored = r.unstored
      /\ \/ x.record = r.record /\ Head(r.todo).do # "await"
         \/ Head(r.todo).do = "begin" /\ x.record \in {"none", "pending"}
         \/ Head(r.todo).do = "await" /\ (x.record \in {"none", "acknowledged"} \/ (x.unstored /\ x.record = "pending"))
  BY <1>1 DEF Passing
<1>9. x.todo = Tail(r.todo)
  BY <1>2
<1> QED BY <1>5, <1>6, <1>7, <1>8, <1>9, AdvanceWorks

LEMMA AdvanceKeeps ==
    ASSUME NEW r, NEW l0, NEW t0, NEW a0, Working(r, l0, t0, a0), r.todo # <<>>,
           NEW l, l # "down", NEW t, NEW agreed, a0 => agreed, NEW y, Passing(r, y, agreed), Counted(y, t), NEW d,
           Achieves(Head(r.todo), r.program.goal) => y.reached
    PROVE  RunOK(Advance(y), l, d, t, agreed)
<1>1. DOMAIN y = RunFields /\ y = [f \in RunFields |-> y[f]]
  BY DEF Passing, Like
<1>2. PICK x : Advance(y) = Settle(x) /\ Like(x, y, {"todo", "reached"}) /\ x.todo = Tail(y.todo) /\ x.reached = y.reached
  BY <1>1, AdvanceIs
<1>3. Working(x, l, t, agreed)
  BY <1>2, PassingWorks
<1> QED BY <1>2, <1>3, SettleKeeps

LEMMA AdvanceAfterKeeps ==
    ASSUME NEW r, NEW l0, NEW t0, NEW a0, Working(r, l0, t0, a0), r.todo # <<>>,
           NEW l, l # "down", NEW t, NEW agreed, a0 => agreed, NEW y, Passing(r, y, agreed), Counted(y, t), NEW d,
           NEW G, Achieves(Head(r.todo), r.program.goal) => G
    PROVE  RunOK(Looked(Advance(y), G), l, d, t, agreed)
<1>1. DOMAIN y = RunFields /\ y = [f \in RunFields |-> y[f]]
  BY DEF Passing, Like
<1>2. PICK x : /\ Looked(Advance(y), G) = Settle(x) /\ Like(x, y, {"todo", "reached"})
               /\ x.todo = Tail(y.todo) /\ (y.reached \/ G => x.reached)
  BY <1>1, AdvanceAfter
<1>3. Working(x, l, t, agreed)
  BY <1>2, PassingWorks
<1> QED BY <1>2, <1>3, SettleKeeps

\* The state y is about to fail with e.
Failing(r, y, e) ==
    /\ RunBase(y)
    /\ \/ Like(y, r, {"owed", "doubtful", "record", "unstored", "printed"})
       \/ Like(y, r, {"told"}) /\ y.told = 1 /\ y.program.style = "workflow" /\ y.program.restore = <<>>
    /\ e \in Statuses \ {"none"} /\ (y.record # "none" => r.record # "none")
    /\ y.accepted => e = "output" \/ (Has(y.program.work, "await") /\ e \in WaitErrors)
    /\ y.record = "failed" =>
          ~y.accepted \/ (Has(y.program.work, "await") /\ e \in {"connection", "protocol", "usage"})
    /\ y.record = "pending" => y.unstored \/ e = "interrupted" \/ (y.accepted /\ ~Has(y.program.work, "await"))

LEMMA FailingWorks ==
    ASSUME NEW r, NEW l0, NEW t0, NEW a0, Working(r, l0, t0, a0), r.todo # <<>>,
           NEW l, l # "down", NEW t, NEW agreed, NEW y, NEW e, Failing(r, y, e), Counts(y, e, t),
           NEW x, Like(x, y, {"todo", "error", "reached"}), x.todo = <<>>, x.error = e
    PROVE  Working(x, l, t, agreed)
<1>1. /\ x.program = y.program /\ x.phase = y.phase /\ x.post = y.post /\ x.row = y.row
      /\ x.password = y.password /\ x.record = y.record /\ x.unstored = y.unstored /\ x.accepted = y.accepted
  BY DEF Like, RunFields
<1>2. RunBase(x)
  <2>1. x.todo \in Seq(AnyStep)
    OBVIOUS
  <2>2. x.error \in Statuses
    BY DEF Failing
  <2> QED BY <1>1, <2>1, <2>2 DEF Failing, RunBase, Like
<1>3. /\ Like(x, r, {"todo", "error", "reached", "owed", "doubtful", "record", "unstored", "printed", "told"})
      /\ x.told = 0 \/ (x.told = 1 /\ x.program.style = "workflow" /\ x.program.restore = <<>>)
  <2>1. r.told = 0 /\ x.told = y.told
    BY DEF Working, Like, RunFields
  <2>2. CASE Like(y, r, {"owed", "doubtful", "record", "unstored", "printed"})
    <3>1. y.told = r.told
      BY <2>2 DEF Like, RunFields
    <3> QED BY <2>1, <2>2, <3>1 DEF Like
  <2>3. CASE Like(y, r, {"told"}) /\ y.told = 1 /\ y.program.style = "workflow" /\ y.program.restore = <<>>
    BY <1>1, <2>1, <2>3 DEF Like
  <2> QED BY <2>2, <2>3 DEF Failing
<1>4. Counted(x, t)
  BY <1>1 DEF Counted, Counts
<1>5. SendLate(x) /\ (x.record # "none" => r.record # "none") /\ x.error # "none"
  BY <1>1 DEF Failing, SendLate
<1> QED BY <1>2, <1>3, <1>4, <1>5, FailWorks

LEMMA FailKeeps ==
    ASSUME NEW r, NEW l0, NEW t0, NEW a0, Working(r, l0, t0, a0), r.todo # <<>>,
           NEW l, l # "down", NEW t, NEW agreed, NEW y, NEW e, Failing(r, y, e), Counts(y, e, t), NEW d
    PROVE  /\ RunOK(Fail(y, e), l, d, t, agreed)
           /\ \A G : RunOK(Looked(Fail(y, e), G), l, d, t, agreed)
<1>1. DOMAIN y = RunFields /\ y = [f \in RunFields |-> y[f]]
  BY DEF Failing, Like
<1>2. RunOK(Fail(y, e), l, d, t, agreed)
  <2>1. PICK x : Fail(y, e) = Settle(x) /\ Like(x, y, {"todo", "error", "reached"}) /\ x.todo = <<>> /\ x.error = e
    BY <1>1, FailIs
  <2>2. Working(x, l, t, agreed)
    BY <2>1, FailingWorks
  <2> QED BY <2>1, <2>2, SettleKeeps
<1>3. ASSUME NEW G PROVE RunOK(Looked(Fail(y, e), G), l, d, t, agreed)
  <2>1. PICK x : /\ Looked(Fail(y, e), G) = Settle(x) /\ Like(x, y, {"todo", "error", "reached"})
                 /\ x.todo = <<>> /\ x.error = e
    BY <1>1, FailAfter
  <2>2. Working(x, l, t, agreed)
    BY <2>1, FailingWorks
  <2> QED BY <2>1, <2>2, SettleKeeps
<1> QED BY <1>2, <1>3

LEMMA PlainPass ==
    ASSUME NEW r, NEW l, NEW t, NEW a, Working(r, l, t, a), NEW agreed,
           Head(r.todo).do \notin {"print", "row", "login", "transmit", "await"}, Head(r.todo).do = "confirm" => agreed
    PROVE  Passing(r, r, agreed) /\ Counted(r, t)
<1>1. Like(r, r, {"reached", "post", "owed", "row", "password", "record", "unstored", "accepted", "printed"})
  BY DEF Working, RunBase, Like
<1> QED BY <1>1 DEF Working, Passing

\* Nothing of a send is at stake.
LEMMA NotSending ==
    ASSUME NEW r, NEW l, NEW t, NEW a, Working(r, l, t, a), r.todo # <<>>, Head(r.todo).do \notin SendingKinds
    PROVE  ~r.accepted /\ r.record = "none"
<1>1. SendWork(r) /\ r.todo \in Seq(AnyStep)
  BY DEF Working, RunBase
<1>2. r.accepted => Head(r.todo).do \in {"sent", "await"}
  BY <1>1, TailOnly DEF SendWork
<1>3. r.record # "none" => Head(r.todo).do \in SendingKinds
  BY <1>1, TailOnly DEF SendWork
<1> QED BY <1>2, <1>3 DEF SendingKinds

\* A failure does not change the count.
LEMMA CountsFail ==
    ASSUME NEW r, NEW t, Counted(r, t), r.error = "none", NEW e
    PROVE  Counts(r, e, t)
BY DEF Counted, Counts

LEMMA PlainFailing ==
    ASSUME NEW r, NEW l, NEW t, NEW a, Working(r, l, t, a), r.todo # <<>>, Head(r.todo).do \notin SendingKinds,
           NEW e \in Statuses \ {"none"}
    PROVE  Failing(r, r, e) /\ Counts(r, e, t)
<1>1. Like(r, r, {"owed", "doubtful", "record", "unstored", "printed"})
  BY DEF Working, RunBase, Like
<1>2. ~r.accepted /\ r.record = "none"
  BY NotSending
<1>3. Failing(r, r, e)
  BY <1>1, <1>2 DEF Working, Failing
<1>4. Counts(r, e, t)
  BY CountsFail DEF Working
<1> QED BY <1>3, <1>4

\* A send that fails marks its record or could not.
LEMMA FailedSendKeeps ==
    ASSUME NEW r, NEW l0, NEW t, NEW a0, Working(r, l0, t, a0), r.todo # <<>>,
           Head(r.todo).do \in {"resolve", "ask", "poll", "transmit"}, NEW e \in Statuses \ {"none"},
           NEW f \in FailedSend(r, e), NEW l, l # "down", NEW agreed, NEW d
    PROVE  RunOK(f, l, d, t, agreed) /\ \A G : RunOK(Looked(f, G), l, d, t, agreed)
<1>1. SendWork(r) /\ RunBase(r) /\ r.todo \in Seq(AnyStep) /\ Counted(r, t)
  BY DEF Working, RunBase
<1>2. ~r.accepted
  <2>1. r.accepted => Head(r.todo).do \in {"sent", "await"}
    BY <1>1, TailOnly DEF SendWork
  <2> QED BY <2>1
<1>3. r.record \in {"none", "pending"} /\ (r.record # "none" => r.program.name = "send")
  BY DEF Working, SendWork
<1>4. DOMAIN r = RunFields /\ r = [g \in RunFields |-> r[g]]
  BY <1>1 DEF RunBase
<1>5. CASE r.program.name = "send" /\ r.record = "pending"
  <2> DEFINE y == [r EXCEPT !.record = "failed"]
             z == [r EXCEPT !.unstored = TRUE]
  <2>1. f = Fail(y, e) \/ f = Fail(z, e)
    BY <1>2, <1>5 DEF FailedSend
  <2>2. Like(y, r, {"record"}) /\ y.record = "failed" /\ Like(z, r, {"unstored"}) /\ z.unstored = TRUE
    BY <1>4, Updated DEF RunFields
  <2> HIDE DEF y, z
  <2>3. /\ y.program = r.program /\ y.phase = r.phase /\ y.error = r.error /\ y.post = r.post /\ y.row = r.row
        /\ y.password = r.password /\ y.todo = r.todo /\ y.accepted = r.accepted /\ y.unstored = r.unstored
    BY <2>2 DEF Like, RunFields
  <2>4. /\ z.program = r.program /\ z.phase = r.phase /\ z.error = r.error /\ z.post = r.post /\ z.row = r.row
        /\ z.password = r.password /\ z.todo = r.todo /\ z.accepted = r.accepted /\ z.record = r.record
    BY <2>2 DEF Like, RunFields
  <2>5. Failing(r, y, e) /\ Counts(y, e, t)
    <3>1. RunBase(y)
      BY <1>1, <2>2, <2>3 DEF RunBase, Like
    <3>2. Like(y, r, {"owed", "doubtful", "record", "unstored", "printed"})
      BY <2>2 DEF Like
    <3>3. Counts(y, e, t)
      BY <1>1, <1>5, <2>3 DEF Counted, Counts
    <3> QED BY <1>2, <1>5, <2>2, <2>3, <3>1, <3>2, <3>3 DEF Failing
  <2>6. Failing(r, z, e) /\ Counts(z, e, t)
    <3>1. RunBase(z)
      BY <1>1, <2>2, <2>4 DEF RunBase, Like
    <3>2. Like(z, r, {"owed", "doubtful", "record", "unstored", "printed"})
      BY <2>2 DEF Like
    <3>3. Counts(z, e, t)
      BY <1>1, <1>5, <2>4 DEF Counted, Counts
    <3> QED BY <1>2, <1>5, <2>2, <2>4, <3>1, <3>2, <3>3 DEF Failing
  <2>7. CASE f = Fail(y, e)
    BY <2>5, <2>7, FailKeeps
  <2>8. CASE f = Fail(z, e)
    BY <2>6, <2>8, FailKeeps
  <2> QED BY <2>1, <2>7, <2>8
<1>6. CASE r.record = "none"
  <2>1. f = Fail(r, e)
    BY <1>6 DEF FailedSend
  <2>2. Like(r, r, {"owed", "doubtful", "record", "unstored", "printed"})
    BY <1>4 DEF Like
  <2>3. Failing(r, r, e)
    BY <1>1, <1>2, <1>6, <2>2 DEF Failing
  <2>4. Counts(r, e, t)
    BY <1>1, CountsFail DEF Working
  <2> QED BY <2>1, <2>3, <2>4, FailKeeps
<1> QED BY <1>3, <1>5, <1>6

-----------------------------------------------------------------------------
(* Steps before the connection.                                            *)

LEMMA LocalAdvances ==
    ASSUME NEW r, NEW l, NEW d, NEW t, NEW a0, RunOK(r, l, d, t, a0), r.phase = "local", NEW agreed, a0 => agreed,
           Head(r.todo).do = "confirm" => agreed
    PROVE  RunOK(Advance(r), l, d, t, agreed)
<1>1. /\ RunBase(r) /\ DOMAIN r = RunFields /\ r = [f \in RunFields |-> r[f]] /\ r.todo # <<>> /\ r.error = "none"
      /\ Only(r.todo, LocalKinds) /\ r.todo \in Seq(AnyStep)
  BY DEF RunOK, RunBase, TodoOK, Early
<1>2. PICK x : Advance(r) = Settle(x) /\ Like(x, r, {"todo", "reached"}) /\ x.todo = Tail(r.todo) /\ x.reached = r.reached
  BY <1>1, AdvanceIs
<1>3. /\ x.program = r.program /\ x.phase = r.phase /\ x.error = r.error /\ x.post = r.post /\ x.yes = r.yes /\ x.owed = r.owed
      /\ x.doubtful = r.doubtful /\ x.on = r.on /\ x.off = r.off /\ x.told = r.told /\ x.row = r.row
      /\ x.password = r.password /\ x.record = r.record /\ x.unstored = r.unstored /\ x.accepted = r.accepted
  BY <1>2 DEF Like, RunFields
<1>4. x.todo \in Seq(AnyStep) /\ Only(x.todo, LocalKinds)
  BY <1>1, <1>2, TailIs, TailOnly
<1>5. agreed \/ Has(x.todo, "confirm") \/ Guarded(r.program.work)
  BY <1>1, <1>2, TailHas DEF RunOK, ConsentOK
<1>6. DOMAIN x = RunFields /\ x = [f \in RunFields |-> x[f]]
  BY <1>2 DEF Like
<1>7. CASE x.todo # <<>>
  <2>1. Settle(x) = x
    BY <1>7 DEF Settle
  <2>2. RunBase(x) /\ TodoOK(x)
    BY <1>1, <1>3, <1>4, <1>6, <1>7 DEF RunBase, TodoOK
  <2>3. HooksOK(x, l) /\ SettingOK(x, d)
    BY <1>3 DEF RunOK, HooksOK, SettingOK, Early, Ended
  <2>4. ResultOK(x) /\ SendOK(x) /\ MailOK(x, t) /\ KeptOK(x)
    BY <1>2, <1>3 DEF RunOK, ResultOK, SendOK, MailOK, Counted, Counts, KeptOK, Early, Late
  <2>5. ConsentOK(x, agreed)
    BY <1>3, <1>5 DEF RunOK, ConsentOK, Early
  <2> QED BY <1>2, <2>1, <2>2, <2>3, <2>4, <2>5 DEF RunOK
<1>8. CASE x.todo = <<>>
  <2> DEFINE z == [x EXCEPT !.phase = "connect"]
  <2>1. Settle(x) = z
    BY <1>1, <1>3, <1>8 DEF Settle
  <2>2. Like(z, x, {"phase"}) /\ z.phase = "connect"
    BY <1>6, Updated DEF RunFields
  <2> HIDE DEF z
  <2>3. /\ z.program = r.program /\ z.error = r.error /\ z.post = r.post /\ z.yes = r.yes /\ z.owed = r.owed
        /\ z.doubtful = r.doubtful /\ z.on = r.on /\ z.off = r.off /\ z.told = r.told /\ z.row = r.row
        /\ z.password = r.password /\ z.record = r.record /\ z.unstored = r.unstored /\ z.accepted = r.accepted
        /\ z.reached = r.reached /\ z.todo = x.todo
    BY <1>2, <1>3, <2>2 DEF Like, RunFields
  <2>4. RunBase(z) /\ TodoOK(z)
    BY <1>1, <1>4, <2>2, <2>3 DEF RunBase, TodoOK, Phases, Like, Early
  <2>5. HooksOK(z, l) /\ SettingOK(z, d)
    BY <2>2, <2>3 DEF RunOK, HooksOK, SettingOK, Early, Ended
  <2>6. ResultOK(z) /\ SendOK(z) /\ MailOK(z, t) /\ KeptOK(z)
    BY <2>2, <2>3 DEF RunOK, ResultOK, SendOK, MailOK, Counted, Counts, KeptOK, Early, Late
  <2>7. ConsentOK(z, agreed)
    <3>1. ~Has(x.todo, "confirm")
      BY <1>8, NothingLeft
    <3> QED BY <1>5, <2>2, <2>3, <3>1 DEF RunOK, ConsentOK, Early
  <2> QED BY <1>2, <2>1, <2>4, <2>5, <2>6, <2>7 DEF RunOK
<1> QED BY <1>7, <1>8

LEMMA LocalFails ==
    ASSUME NEW r, NEW l, NEW d, NEW t, NEW a0, RunOK(r, l, d, t, a0), r.phase = "local", NEW agreed,
           NEW e \in Statuses \ {"none"}
    PROVE  RunOK(Fail(r, e), l, d, t, agreed)
<1>1. RunBase(r) /\ DOMAIN r = RunFields /\ r = [f \in RunFields |-> r[f]]
  BY DEF RunOK, RunBase
<1>2. PICK x : Fail(r, e) = Settle(x) /\ Like(x, r, {"todo", "error", "reached"}) /\ x.todo = <<>> /\ x.error = e
  BY <1>1, FailIs
<1>3. DOMAIN x = RunFields /\ x = [f \in RunFields |-> x[f]] /\ x.phase = r.phase
  BY <1>2 DEF Like, RunFields
<1> DEFINE z == [x EXCEPT !.phase = "exit"]
<1>4. Settle(x) = z
  BY <1>2, <1>3 DEF Settle
<1>5. Like(z, x, {"phase"}) /\ z.phase = "exit"
  BY <1>3, Updated DEF RunFields
<1> HIDE DEF z
<1>6. /\ z.program = r.program /\ z.error = e /\ z.post = r.post /\ z.yes = r.yes /\ z.owed = r.owed
      /\ z.doubtful = r.doubtful /\ z.on = r.on /\ z.off = r.off /\ z.told = r.told /\ z.row = r.row
      /\ z.password = r.password /\ z.record = r.record /\ z.unstored = r.unstored /\ z.accepted = r.accepted
      /\ z.todo = <<>>
  BY <1>2, <1>5 DEF Like, RunFields
<1>7. RunBase(z) /\ TodoOK(z)
  <2>1. z.todo \in Seq(AnyStep)
    BY <1>6
  <2> QED BY <1>1, <1>5, <1>6, <2>1 DEF RunBase, TodoOK, Phases, Like, Early
<1>8. HooksOK(z, l) /\ SettingOK(z, d)
  BY <1>5, <1>6 DEF RunOK, HooksOK, SettingOK, Early, Ended
<1>9. ResultOK(z) /\ SendOK(z) /\ KeptOK(z) /\ ConsentOK(z, agreed)
  BY <1>5, <1>6 DEF RunOK, ResultOK, SendOK, SendLate, KeptOK, ConsentOK, Early, Late
<1>10. MailOK(z, t)
  <2>1. Counts(r, "none", t)
    BY DEF RunOK, TodoOK, MailOK, Counted, Early
  <2> QED BY <1>5, <1>6, <2>1 DEF MailOK, Counted, Counts
<1> QED BY <1>2, <1>4, <1>7, <1>8, <1>9, <1>10 DEF RunOK

-----------------------------------------------------------------------------
(* The actions: the steps of a program.                                    *)

\* A step of the command leaves the batch alone.
LEMMA Preserved ==
    ASSUME IInv, run.phase # "idle", RunOK(run', link', device', taken', consented'), device' \in Devices,
           link' \in {"down", "up", "lost"}, vault' \in [Contacts -> {"none", "right"}], interrupt' \in BOOLEAN,
           consented' \in BOOLEAN, consented => consented', taken' \in [off : Nat, known : Nat, shown : Nat], UNCHANGED <<batch, left>>
    PROVE  IInv'
<1>1. WorldOK'
  BY DEF IInv, WorldOK
<1>2. Idle.phase = "idle"
  BY DEF Idle, Start
<1>3. ~batch.failed
  BY <1>2 DEF IInv, BatchOK
<1>4. BatchOK'
  BY <1>3 DEF IInv, BatchOK
<1> QED BY <1>1, <1>4 DEF IInv

LEMMA DoingWork ==
    ASSUME IInv, NEW k, Doing(k), run.phase = "work" \/ k \notin LocalKinds
    PROVE  /\ run.phase = "work" /\ run.todo # <<>> /\ Head(run.todo).do = k /\ StepOK(Head(run.todo))
           /\ Working(run, link, taken, consented) /\ link # "down"
<1>1. RunOK(run, link, device, taken, consented) /\ run.todo # <<>> /\ Head(run.todo).do = k /\ run.phase \in {"local", "work"}
  BY DEF IInv, Doing
<1>2. run.todo \in Seq(AnyStep)
  BY <1>1 DEF RunOK, RunBase
<1>3. run.phase = "work"
  <2>1. run.phase = "local" => k \in LocalKinds
    BY <1>1, <1>2, TailOnly DEF RunOK, TodoOK
  <2> QED BY <1>1, <2>1
<1>4. Working(run, link, taken, consented)
  BY <1>1, <1>3, WorkState
<1>5. StepOK(Head(run.todo)) /\ link # "down"
  BY <1>1, <1>2, <1>4, TailSteps DEF Working
<1> QED BY <1>1, <1>3, <1>4, <1>5

\* A step that changes nothing but its own place ...
LEMMA PlainAdvance ==
    ASSUME NEW r, NEW l, NEW t, NEW a, Working(r, l, t, a), r.todo # <<>>, l # "down", NEW agreed, a => agreed,
           Head(r.todo).do \notin {"print", "row", "login", "transmit", "await", "ask", "write", "forget"},
           Head(r.todo).do = "confirm" => agreed, NEW d
    PROVE  RunOK(Advance(r), l, d, t, agreed)
<1>1. Passing(r, r, agreed) /\ Counted(r, t)
  BY PlainPass
<1>2. ~Achieves(Head(r.todo), r.program.goal)
  BY DEF Achieves
<1> QED BY <1>1, <1>2, AdvanceKeeps

\* ... and one that is a request.
LEMMA AskAdvance ==
    ASSUME NEW r, NEW l0, NEW t, NEW a, Working(r, l0, t, a), r.todo # <<>>, NEW l, l # "down",
           Head(r.todo).do \notin {"print", "row", "login", "transmit", "await", "confirm"}, NEW d,
           NEW G, Achieves(Head(r.todo), r.program.goal) => G
    PROVE  RunOK(Looked(Advance(r), G), l, d, t, a)
<1>1. Passing(r, r, a) /\ Counted(r, t)
  BY PlainPass
<1> QED BY <1>1, AdvanceAfterKeeps

LEMMA PlainFail ==
    ASSUME NEW r, NEW l0, NEW t, NEW a, Working(r, l0, t, a), r.todo # <<>>, NEW l, l # "down",
           Head(r.todo).do \notin SendingKinds, NEW e \in Statuses \ {"none"}, NEW d
    PROVE  RunOK(Fail(r, e), l, d, t, a) /\ \A G : RunOK(Looked(Fail(r, e), G), l, d, t, a)
<1>1. Failing(r, r, e) /\ Counts(r, e, t)
  BY PlainFailing
<1> QED BY <1>1, FailKeeps

\* A request that succeeds reaches the goal it is there for.
LEMMA AskAchieves ==
    ASSUME NEW s, StepOK(s), s.do = "ask", NEW g, Achieves(s, g), NEW d \in Devices, Succeeds(s.req, Handle(d, s.req).replies),
           NEW v
    PROVE  GoalHolds(g, Handle(d, s.req).device, v)
<1> DEFINE e == Handle(d, s.req).device
           c == s.req.contact
<1>1. ReqOK(s.req) /\ s.req.value # "malformed"
  BY DEF StepOK, AskKinds, AnyStep, Requests, Values
<1>2. /\ s.req.code = "set_time" => e.time = s.req.value
      /\ s.req.code = "set_flood_scope" => e.scope = s.req.value
      /\ s.req.code = "set_default_flood_scope" => e.defaultScope = s.req.value
      /\ s.req.code \in {"set_channel", "clear_channel"} => e.channel = s.req.value
      /\ s.req.code = "remove_contact" => e.rows[c] = NoRow
      /\ s.req.code = "import_contact" => e.rows[c] = Row("flood", "new")
      /\ s.req.code = "reset_path" => e.rows[c].route = "flood"
      /\ s.req.code = "logout" => c \notin e.sessions
  BY <1>1, EffectIs
<1> HIDE DEF e
<1>3. Row("flood", "new").name = "new"
  BY DEF Row
<1>4. CASE g.field \in {"time", "scope", "defaultScope", "channel"}
  <2>1. e[g.field] = g.value
    BY <1>2, <1>4 DEF Achieves
  <2> QED BY <1>4, <2>1 DEF GoalHolds, e
<1>5. CASE g.field = "rows"
  BY <1>2, <1>5 DEF Achieves, GoalHolds, e
<1>6. CASE g.field \in {"name", "route"}
  <2>1. e.rows[g.contact][g.field] = g.value
    BY <1>2, <1>3, <1>6 DEF Achieves
  <2> QED BY <1>6, <2>1 DEF GoalHolds, e
<1>7. CASE g.field = "session"
  BY <1>2, <1>7 DEF Achieves, GoalHolds, e
<1>8. g.field # "vault"
  BY DEF Achieves
<1> QED BY <1>4, <1>5, <1>6, <1>7, <1>8 DEF Achieves

\* A request, seen from the invariant.
LEMMA RequestIs ==
    ASSUME IInv, NEW req, ReqOK(req), NEW o \in Outcomes(req), link # "down"
    PROVE  /\ o.device \in Devices /\ o.link \in {"down", "up", "lost"} /\ o.link # "down" /\ o.error \in Statuses
           /\ o.error = "none" => /\ Succeeds(req, Handle(device, req).replies)
                                  /\ o.replies = Handle(device, req).replies
                                  /\ o.device = Handle(device, req).device
<1>1. device \in Devices /\ link \in {"down", "up", "lost"}
  BY DEF IInv, WorldOK
<1> QED BY <1>1, OutcomesAre

LEMMA AfterIs ==
    ASSUME NEW o, NEW r, After(o, r)
    PROVE  /\ device' = o.device /\ link' = o.link
           /\ run' = Looked(r, GoalHolds(run.program.goal, o.device, vault))
BY DEF After, Looked

LEMMA TypesNow ==
    ASSUME IInv
    PROVE  /\ device \in Devices /\ link \in {"down", "up", "lost"} /\ vault \in [Contacts -> {"none", "right"}]
           /\ interrupt \in BOOLEAN /\ consented \in BOOLEAN /\ taken \in [off : Nat, known : Nat, shown : Nat]
           /\ RunOK(run, link, device, taken, consented) /\ RunBase(run)
           /\ DOMAIN run = RunFields /\ run = [f \in RunFields |-> run[f]]
BY DEF IInv, WorldOK, RunOK, RunBase

LEMMA LocalOrWork ==
    ASSUME IInv, NEW k, Doing(k)
    PROVE  run.phase = "local" \/ (run.phase = "work" /\ Working(run, link, taken, consented) /\ link # "down")
BY DoingWork DEF Doing

LEMMA CheckKeeps == IInv /\ Check => IInv'
<1> SUFFICES ASSUME IInv, Check PROVE IInv'
  OBVIOUS
<1>1. /\ Doing("check") /\ run' \in {Advance(run), Fail(run, "usage")} /\ run.todo # <<>> /\ Head(run.todo).do = "check"
      /\ UNCHANGED <<device, link, batch, vault, interrupt, left, consented, taken>> /\ run.phase # "idle"
  BY DEF Check, Doing
<1>2. "usage" \in Statuses \ {"none"} /\ "check" \notin SendingKinds
  BY DEF Statuses, SendingKinds
<1>3. RunOK(run', link, device, taken, consented)
  <2>1. CASE run.phase = "local"
    BY <1>1, <1>2, <2>1, TypesNow, LocalAdvances, LocalFails
  <2>2. CASE run.phase = "work" /\ Working(run, link, taken, consented) /\ link # "down"
    <3>1. RunOK(Advance(run), link, device, taken, consented)
      BY <1>1, <2>2, PlainAdvance
    <3>2. RunOK(Fail(run, "usage"), link, device, taken, consented)
      BY <1>1, <1>2, <2>2, PlainFail
    <3> QED BY <1>1, <3>1, <3>2
  <2> QED BY <1>1, <2>1, <2>2, LocalOrWork
<1> QED BY <1>1, <1>3, TypesNow, Preserved

LEMMA AnswerConfirmKeeps == IInv /\ AnswerConfirm => IInv'
<1> SUFFICES ASSUME IInv, AnswerConfirm PROVE IInv'
  OBVIOUS
<1>1. /\ Doing("confirm") /\ run.todo # <<>> /\ Head(run.todo).do = "confirm" /\ run.phase # "idle"
      /\ UNCHANGED <<device, link, batch, vault, interrupt, left, taken>>
      /\ \/ run.yes /\ run' = Advance(run) /\ consented' = consented
         \/ run' = Advance(run) /\ consented' = TRUE
         \/ run' = Fail(run, "denied") /\ consented' = consented
  BY DEF AnswerConfirm, Doing
<1>2. "denied" \in Statuses \ {"none"} /\ "confirm" \notin SendingKinds
  BY DEF Statuses, SendingKinds
<1>3. consented' \in BOOLEAN /\ (consented => consented')
  <2>1. CASE consented' = consented
    BY <2>1, TypesNow
  <2>2. CASE consented' = TRUE
    BY <2>2
  <2> QED BY <1>1, <2>1, <2>2
<1>4. run.yes /\ run.phase \in {"local", "work"} => consented
  BY TypesNow DEF RunOK, ConsentOK, Early
<1>5. (run' = Advance(run) /\ consented') \/ (run' = Fail(run, "denied") /\ consented' = consented)
  BY <1>1, <1>4 DEF Doing
<1>6. RunOK(run', link, device, taken, consented')
  <2>1. CASE run.phase = "local"
    BY <1>1, <1>2, <1>3, <1>5, <2>1, TypesNow, LocalAdvances, LocalFails
  <2>2. CASE run.phase = "work" /\ Working(run, link, taken, consented) /\ link # "down"
    <3>1. CASE run' = Advance(run) /\ consented'
      BY <1>1, <1>3, <2>2, <3>1, PlainAdvance
    <3>2. CASE run' = Fail(run, "denied") /\ consented' = consented
      BY <1>1, <1>2, <2>2, <3>2, PlainFail
    <3> QED BY <1>5, <3>1, <3>2
  <2> QED BY <1>1, <2>1, <2>2, LocalOrWork
<1> QED BY <1>1, <1>3, <1>6, TypesNow, Preserved

LEMMA RunHookKeeps == IInv /\ RunHook => IInv'
<1> SUFFICES ASSUME IInv, RunHook PROVE IInv'
  OBVIOUS
<1>1. PICK k \in {"gate", "hook"} : Doing(k)
  BY DEF RunHook
<1>2. /\ run' \in {Advance(run), Fail(run, "hook")} /\ run.todo # <<>> /\ Head(run.todo).do = k
      /\ UNCHANGED <<device, link, batch, vault, interrupt, left, consented, taken>> /\ run.phase # "idle"
  BY <1>1 DEF RunHook, Doing
<1>3. "hook" \in Statuses \ {"none"} /\ k \notin SendingKinds
  BY DEF Statuses, SendingKinds
<1>4. RunOK(run', link, device, taken, consented)
  <2>1. CASE run.phase = "local"
    BY <1>2, <1>3, <2>1, TypesNow, LocalAdvances, LocalFails
  <2>2. CASE run.phase = "work" /\ Working(run, link, taken, consented) /\ link # "down"
    <3>1. RunOK(Advance(run), link, device, taken, consented)
      BY <1>2, <2>2, PlainAdvance
    <3>2. RunOK(Fail(run, "hook"), link, device, taken, consented)
      BY <1>2, <1>3, <2>2, PlainFail
    <3> QED BY <1>2, <3>1, <3>2
  <2> QED BY <1>1, <2>1, <2>2, LocalOrWork
<1> QED BY <1>2, <1>4, TypesNow, Preserved

LEMMA ResolveKeeps == IInv /\ Resolve => IInv'
<1> SUFFICES ASSUME IInv, Resolve PROVE IInv'
  OBVIOUS
<1>1. /\ Doing("resolve") /\ run' \in {Advance(run)} \cup FailedSend(run, "not_found")
      /\ UNCHANGED <<device, link, batch, vault, interrupt, left, consented, taken>> /\ run.phase # "idle"
  BY DEF Resolve, Doing
<1>2. "not_found" \in Statuses \ {"none"} /\ "resolve" \notin LocalKinds
  BY DEF Statuses, LocalKinds
<1>3. /\ run.todo # <<>> /\ Head(run.todo).do = "resolve" /\ Working(run, link, taken, consented) /\ link # "down"
  BY <1>1, <1>2, DoingWork
<1>4. RunOK(Advance(run), link, device, taken, consented)
  BY <1>3, PlainAdvance
<1>5. \A f \in FailedSend(run, "not_found") : RunOK(f, link, device, taken, consented)
  BY <1>2, <1>3, FailedSendKeeps
<1> QED BY <1>1, <1>4, <1>5, TypesNow, Preserved

LEMMA AskDeviceKeeps == IInv /\ AskDevice => IInv'
<1> SUFFICES ASSUME IInv, AskDevice PROVE IInv'
  OBVIOUS
<1>1. /\ Doing("ask") /\ UNCHANGED <<batch, vault, interrupt, left, consented, taken>> /\ run.phase # "idle"
  BY DEF AskDevice, Doing
<1>2. PICK o \in Outcomes(Current) : IF o.error = "none" THEN After(o, Advance(run))
                                     ELSE \E r \in FailedSend(run, o.error) : After(o, r)
  BY DEF AskDevice
<1>3. /\ run.todo # <<>> /\ Head(run.todo).do = "ask" /\ StepOK(Head(run.todo))
      /\ Working(run, link, taken, consented) /\ link # "down"
  BY <1>1, DoingWork DEF LocalKinds
<1>4. Current = Head(run.todo).req /\ ReqOK(Current)
  BY <1>3 DEF Current, StepOK, AskKinds
<1>5. /\ o.device \in Devices /\ o.link \in {"down", "up", "lost"} /\ o.link # "down" /\ o.error \in Statuses
      /\ o.error = "none" => Succeeds(Current, Handle(device, Current).replies) /\ o.device = Handle(device, Current).device
  BY <1>3, <1>4, RequestIs
<1> DEFINE G == GoalHolds(run.program.goal, o.device, vault)
<1>6. CASE o.error = "none"
  <2>1. Achieves(Head(run.todo), run.program.goal) => G
    BY <1>3, <1>4, <1>5, <1>6, TypesNow, AskAchieves
  <2>2. device' = o.device /\ link' = o.link /\ run' = Looked(Advance(run), G)
    BY <1>2, <1>6, AfterIs
  <2> HIDE DEF G
  <2>3. RunOK(Looked(Advance(run), G), o.link, o.device, taken, consented)
    BY <1>3, <1>5, <2>1, AskAdvance
  <2> QED BY <1>1, <1>5, <2>2, <2>3, TypesNow, Preserved
<1>7. CASE o.error # "none"
  <2>1. PICK r \in FailedSend(run, o.error) : After(o, r)
    BY <1>2, <1>7
  <2>2. device' = o.device /\ link' = o.link /\ run' = Looked(r, G)
    BY <2>1, AfterIs
  <2> HIDE DEF G
  <2>3. RunOK(Looked(r, G), o.link, o.device, taken, consented)
    BY <1>3, <1>5, <1>7, FailedSendKeeps
  <2> QED BY <1>1, <1>5, <2>2, <2>3, TypesNow, Preserved
<1> QED BY <1>6, <1>7

LEMMA PassLike ==
    ASSUME NEW r, NEW l, NEW t, NEW a, Working(r, l, t, a), NEW y, Like(y, r, {"owed", "row", "password"}),
           Head(r.todo).do \notin {"print", "login", "transmit", "await", "confirm"},
           (y.row = r.row /\ Head(r.todo).do # "row") \/ y.row \in Rows,
           y.password = r.password \/ (Head(r.todo).do = "password" /\ y.password \in {"right", "wrong"})
    PROVE  Passing(r, y, a) /\ Counted(y, t)
<1>1. /\ y.program = r.program /\ y.phase = r.phase /\ y.todo = r.todo /\ y.error = r.error /\ y.post = r.post
      /\ y.record = r.record /\ y.unstored = r.unstored /\ y.accepted = r.accepted /\ y.printed = r.printed
      /\ y.reached = r.reached /\ DOMAIN y = RunFields /\ y = [f \in RunFields |-> y[f]]
  BY DEF Like, RunFields
<1>2. Like(y, r, {"reached", "post", "owed", "row", "password", "record", "unstored", "accepted", "printed"})
  BY DEF Like
<1>3. RunBase(r) /\ Counted(r, t)
  BY DEF Working
<1>4. RunBase(y)
  BY <1>1, <1>3 DEF RunBase
<1>5. Counted(y, t)
  BY <1>1, <1>3 DEF Counted, Counts
<1> QED BY <1>1, <1>2, <1>4, <1>5 DEF Passing

LEMMA SetTemporarilyKeeps == IInv /\ SetTemporarily => IInv'
<1> SUFFICES ASSUME IInv, SetTemporarily PROVE IInv'
  OBVIOUS
<1>1. PICK k \in {"set", "try", "differ"} : Doing(k)
  BY DEF SetTemporarily
<1>2. UNCHANGED <<batch, vault, interrupt, left, consented, taken>> /\ run.phase # "idle"
  BY <1>1 DEF SetTemporarily, Doing
<1>3. k \notin LocalKinds /\ k \in AskKinds /\ k \notin SendingKinds
  BY DEF LocalKinds, AskKinds, SendingKinds
<1>4. /\ run.todo # <<>> /\ Head(run.todo).do = k /\ StepOK(Head(run.todo))
      /\ Working(run, link, taken, consented) /\ link # "down"
  BY <1>1, <1>3, DoingWork
<1>5. Current = Head(run.todo).req /\ ReqOK(Current) /\ ~Achieves(Head(run.todo), run.program.goal)
  BY <1>3, <1>4 DEF Current, StepOK, Achieves
<1>6. CASE run' = Advance(run) /\ UNCHANGED <<device, link>>
  <2>1. RunOK(Advance(run), link, device, taken, consented)
    BY <1>4, PlainAdvance
  <2> QED BY <1>2, <1>6, <2>1, TypesNow, Preserved
<1>7. CASE \E o \in Outcomes(Current) :
                IF o.error = "none" THEN After(o, Advance([run EXCEPT !.owed = TRUE]))
                ELSE After(o, Fail([run EXCEPT !.owed = Doing("try"), !.doubtful = TRUE], o.error))
  <2>1. PICK o \in Outcomes(Current) :
                IF o.error = "none" THEN After(o, Advance([run EXCEPT !.owed = TRUE]))
                ELSE After(o, Fail([run EXCEPT !.owed = Doing("try"), !.doubtful = TRUE], o.error))
    BY <1>7
  <2>2. o.device \in Devices /\ o.link \in {"down", "up", "lost"} /\ o.link # "down" /\ o.error \in Statuses
    BY <1>4, <1>5, RequestIs
  <2> DEFINE G == GoalHolds(run.program.goal, o.device, vault)
  <2>3. CASE o.error = "none"
    <3> DEFINE y == [run EXCEPT !.owed = TRUE]
    <3>1. device' = o.device /\ link' = o.link /\ run' = Looked(Advance(y), G)
      BY <2>1, <2>3, AfterIs
    <3>2. Like(y, run, {"owed"})
      BY TypesNow, Updated DEF RunFields
    <3> HIDE DEF G, y
    <3>3. Like(y, run, {"owed", "row", "password"}) /\ y.row = run.row /\ y.password = run.password
      BY <3>2 DEF Like, RunFields
    <3>4. Passing(run, y, consented) /\ Counted(y, taken)
      BY <1>4, <3>3, PassLike
    <3>5. RunOK(Looked(Advance(y), G), o.link, o.device, taken, consented)
      BY <1>4, <1>5, <2>2, <3>4, AdvanceAfterKeeps
    <3> QED BY <1>2, <2>2, <3>1, <3>5, TypesNow, Preserved
  <2>4. CASE o.error # "none"
    <3> DEFINE b == Doing("try")
               y == [[run EXCEPT !.owed = b] EXCEPT !.doubtful = TRUE]
    <3>1. device' = o.device /\ link' = o.link /\ run' = Looked(Fail(y, o.error), G)
      BY <2>1, <2>4, AfterIs
    <3> HIDE DEF b
    <3>2. Like(y, run, {"owed", "doubtful"})
      <4>1. "owed" \in RunFields /\ "doubtful" \in RunFields /\ "owed" # "doubtful"
        BY DEF RunFields
      <4> QED BY <4>1, TypesNow, UpdatedTwice
    <3> HIDE DEF G, y
    <3>3. /\ y.program = run.program /\ y.phase = run.phase /\ y.todo = run.todo /\ y.error = run.error /\ y.post = run.post
          /\ y.record = run.record /\ y.unstored = run.unstored /\ y.accepted = run.accepted
          /\ y.row = run.row /\ y.password = run.password /\ DOMAIN y = RunFields /\ y = [f \in RunFields |-> y[f]]
      BY <3>2 DEF Like, RunFields
    <3>4. ~run.accepted /\ run.record = "none"
      BY <1>3, <1>4, NotSending
    <3>5. RunBase(y)
      BY <3>3, TypesNow DEF RunBase
    <3>6. Like(y, run, {"owed", "doubtful", "record", "unstored", "printed"})
      BY <3>2 DEF Like
    <3>7. Failing(run, y, o.error)
      BY <2>2, <2>4, <3>3, <3>4, <3>5, <3>6 DEF Failing
    <3>8. Counts(y, o.error, taken)
      <4>1. Counted(y, taken) /\ y.error = "none"
        BY <1>4, <3>3 DEF Working, Counted, Counts
      <4> QED BY <4>1, CountsFail
    <3>9. RunOK(Looked(Fail(y, o.error), G), o.link, o.device, taken, consented)
      BY <1>4, <2>2, <3>7, <3>8, FailKeeps
    <3> QED BY <1>2, <2>2, <3>1, <3>9, TypesNow, Preserved
  <2> QED BY <2>3, <2>4
<1> QED BY <1>6, <1>7 DEF SetTemporarily

LEMMA ReadBackKeeps == IInv /\ ReadBack => IInv'
<1> SUFFICES ASSUME IInv, ReadBack PROVE IInv'
  OBVIOUS
<1> DEFINE req == Request("get_time", NoContact, "none")
<1>1. Doing("readback") /\ UNCHANGED <<batch, vault, interrupt, left, consented, taken>> /\ run.phase # "idle"
  BY DEF ReadBack, Doing
<1>2. PICK o \in Outcomes(req), r \in {Advance(run), Fail(run, "protocol")} :
              After(o, IF o.error = "none" THEN r ELSE Fail(run, o.error))
  BY DEF ReadBack
<1>3. /\ run.todo # <<>> /\ Head(run.todo).do = "readback" /\ Working(run, link, taken, consented) /\ link # "down"
  BY <1>1, DoingWork DEF LocalKinds
<1>4. ReqOK(req)
  BY DEF Request, ReqOK
<1>5. o.device \in Devices /\ o.link \in {"down", "up", "lost"} /\ o.link # "down" /\ o.error \in Statuses
  BY <1>3, <1>4, RequestIs
<1>6. "protocol" \in Statuses \ {"none"} /\ "readback" \notin SendingKinds
  BY DEF Statuses, SendingKinds
<1> DEFINE G == GoalHolds(run.program.goal, o.device, vault)
           z == IF o.error = "none" THEN r ELSE Fail(run, o.error)
<1>7. device' = o.device /\ link' = o.link /\ run' = Looked(z, G)
  BY <1>2, AfterIs
<1> HIDE DEF G
<1>8. RunOK(Looked(Advance(run), G), o.link, o.device, taken, consented)
  <2>1. ~Achieves(Head(run.todo), run.program.goal)
    BY <1>3 DEF Achieves
  <2> QED BY <1>3, <1>5, <2>1, AskAdvance
<1>9. \A e \in Statuses \ {"none"} : RunOK(Looked(Fail(run, e), G), o.link, o.device, taken, consented)
  BY <1>3, <1>5, <1>6, PlainFail
<1>10. RunOK(Looked(z, G), o.link, o.device, taken, consented)
  BY <1>2, <1>5, <1>6, <1>8, <1>9
<1> QED BY <1>1, <1>5, <1>7, <1>10, TypesNow, Preserved

LEMMA ReadRowKeeps == IInv /\ ReadRow => IInv'
<1> SUFFICES ASSUME IInv, ReadRow PROVE IInv'
  OBVIOUS
<1>1. Doing("row") /\ UNCHANGED <<batch, vault, interrupt, left, consented, taken>> /\ run.phase # "idle"
  BY DEF ReadRow, Doing
<1> DEFINE y == [run EXCEPT !.row = RowOf(Current)]
<1>2. PICK o \in Outcomes(Current) : After(o, IF o.error = "none" THEN Advance(y) ELSE Fail(run, o.error))
  BY DEF ReadRow
<1>3. /\ run.todo # <<>> /\ Head(run.todo).do = "row" /\ StepOK(Head(run.todo))
      /\ Working(run, link, taken, consented) /\ link # "down"
  BY <1>1, DoingWork DEF LocalKinds
<1>4. /\ Current = Head(run.todo).req /\ Current.code = "get_contact" /\ Current.contact \in Contacts
      /\ Current.value # "malformed"
  BY <1>3 DEF Current, StepOK, ContactKinds, AnyStep, Requests, Values
<1>5. ReqOK(Current)
  BY <1>4 DEF ReqOK
<1>6. /\ o.device \in Devices /\ o.link \in {"down", "up", "lost"} /\ o.link # "down" /\ o.error \in Statuses
      /\ o.error = "none" => Succeeds(Current, Handle(device, Current).replies)
  BY <1>3, <1>5, RequestIs
<1> DEFINE G == GoalHolds(run.program.goal, o.device, vault)
<1>7. CASE o.error = "none"
  <2>1. device' = o.device /\ link' = o.link /\ run' = Looked(Advance(y), G)
    BY <1>2, <1>7, AfterIs
  <2>2. Current.contact \in Listed(device)
    BY <1>4, <1>5, <1>6, <1>7, TypesNow, EffectIs
  <2>3. RowOf(Current) \in Rows
    BY <1>4, <2>2, TypesNow DEF RowOf, Listed, Devices, Rows
  <2>4. Like(y, run, {"row"}) /\ y.row = RowOf(Current)
    BY TypesNow, Updated DEF RunFields
  <2> HIDE DEF G, y
  <2>5. Like(y, run, {"owed", "row", "password"}) /\ y.password = run.password
    BY <2>4 DEF Like, RunFields
  <2>6. Passing(run, y, consented) /\ Counted(y, taken)
    BY <1>3, <2>3, <2>4, <2>5, PassLike
  <2>7. ~Achieves(Head(run.todo), run.program.goal)
    BY <1>3 DEF Achieves
  <2>8. RunOK(Looked(Advance(y), G), o.link, o.device, taken, consented)
    BY <1>3, <1>6, <2>6, <2>7, AdvanceAfterKeeps
  <2> QED BY <1>1, <1>6, <2>1, <2>8, TypesNow, Preserved
<1>8. CASE o.error # "none"
  <2>1. device' = o.device /\ link' = o.link /\ run' = Looked(Fail(run, o.error), G)
    BY <1>2, <1>8, AfterIs
  <2> HIDE DEF G, y
  <2>2. RunOK(Looked(Fail(run, o.error), G), o.link, o.device, taken, consented)
    BY <1>3, <1>6, <1>8, PlainFail DEF SendingKinds
  <2> QED BY <1>1, <1>6, <2>1, <2>2, TypesNow, Preserved
<1> QED BY <1>7, <1>8

LEMMA WriteRowKeeps == IInv /\ WriteRow => IInv'
<1> SUFFICES ASSUME IInv, WriteRow PROVE IInv'
  OBVIOUS
<1>1. Doing("write") /\ UNCHANGED <<batch, vault, interrupt, left, consented, taken>> /\ run.phase # "idle"
  BY DEF WriteRow, Doing
<1> DEFINE row == IF Current.value = "name" THEN [run.row EXCEPT !.name = "new"] ELSE [run.row EXCEPT !.route = "chosen"]
           req == [Current EXCEPT !.row = row]
<1>2. PICK o \in Outcomes(req) : After(o, IF o.error = "none" THEN Advance(run) ELSE Fail(run, o.error))
  BY DEF WriteRow
<1>3. /\ run.todo # <<>> /\ Head(run.todo).do = "write" /\ StepOK(Head(run.todo))
      /\ Working(run, link, taken, consented) /\ link # "down"
  BY <1>1, DoingWork DEF LocalKinds
<1>4. /\ Current = Head(run.todo).req /\ Current.code = "update_contact" /\ Current.contact \in Contacts
      /\ Current.value \in {"name", "route"} /\ Current \in Requests
  BY <1>3 DEF Current, StepOK, ContactKinds, AnyStep
<1>5. run.row \in Rows
  <2>1. run.todo \in Seq(AnyStep) /\ (Behind(run.todo, "write", "row") \/ run.row \in Rows)
    BY <1>3 DEF Working, RunBase, KeptWork
  <2> QED BY <1>3, <2>1, TailBehind
<1>6. row \in Rows /\ (Current.value = "name" => row.name = "new") /\ (Current.value = "route" => row.route = "chosen")
  BY <1>4, <1>5 DEF Rows, Routes, Names
<1> HIDE DEF row
<1>7. /\ req.code = "update_contact" /\ req.contact = Current.contact /\ req.value = Current.value /\ req.row = row
  BY <1>4 DEF Requests
<1> HIDE DEF req
<1>8. ReqOK(req) /\ req.value # "malformed"
  BY <1>4, <1>6, <1>7 DEF ReqOK
<1>9. /\ o.device \in Devices /\ o.link \in {"down", "up", "lost"} /\ o.link # "down" /\ o.error \in Statuses
      /\ o.error = "none" => Succeeds(req, Handle(device, req).replies) /\ o.device = Handle(device, req).device
  BY <1>3, <1>8, RequestIs
<1> DEFINE G == GoalHolds(run.program.goal, o.device, vault)
<1>10. CASE o.error = "none"
  <2>1. device' = o.device /\ link' = o.link /\ run' = Looked(Advance(run), G)
    BY <1>2, <1>10, AfterIs
  <2>2. o.device.rows[Current.contact] = row
    BY <1>7, <1>8, <1>9, <1>10, TypesNow, EffectIs
  <2>3. ASSUME Achieves(Head(run.todo), run.program.goal) PROVE G
    <3> DEFINE g == run.program.goal
    <3>1. g.field \in {"name", "route"} /\ row[g.field] = g.value /\ g.contact = Current.contact
      BY <1>3, <1>4, <1>6, <2>3 DEF Achieves
    <3> QED BY <2>2, <3>1 DEF GoalHolds
  <2> HIDE DEF G
  <2>4. RunOK(Looked(Advance(run), G), o.link, o.device, taken, consented)
    BY <1>3, <1>9, <2>3, AskAdvance
  <2> QED BY <1>1, <1>9, <2>1, <2>4, TypesNow, Preserved
<1>11. CASE o.error # "none"
  <2>1. device' = o.device /\ link' = o.link /\ run' = Looked(Fail(run, o.error), G)
    BY <1>2, <1>11, AfterIs
  <2> HIDE DEF G
  <2>2. RunOK(Looked(Fail(run, o.error), G), o.link, o.device, taken, consented)
    BY <1>3, <1>9, <1>11, PlainFail DEF SendingKinds
  <2> QED BY <1>1, <1>9, <2>1, <2>2, TypesNow, Preserved
<1> QED BY <1>10, <1>11

LEMMA CollectKeeps == IInv /\ Collect => IInv'
<1> SUFFICES ASSUME IInv, Collect PROVE IInv'
  OBVIOUS
<1>1. /\ Doing("collect") /\ run' \in {Advance(run), Fail(run, "protocol"), Fail(run, "connection")}
      /\ UNCHANGED <<device, link, batch, vault, interrupt, left, consented, taken>> /\ run.phase # "idle"
  BY DEF Collect, Doing
<1>2. {"protocol", "connection"} \subseteq Statuses \ {"none"} /\ "collect" \notin SendingKinds
  BY DEF Statuses, SendingKinds
<1>3. /\ run.todo # <<>> /\ Head(run.todo).do = "collect" /\ Working(run, link, taken, consented) /\ link # "down"
  BY <1>1, DoingWork DEF LocalKinds
<1>4. RunOK(Advance(run), link, device, taken, consented)
  <2>1. /\ Head(run.todo).do \notin {"print", "row", "login", "transmit", "await", "ask", "write", "forget"}
        /\ Head(run.todo).do # "confirm"
    BY <1>3
  <2> QED BY <1>3, <2>1, PlainAdvance
<1>5. \A e \in Statuses \ {"none"} : RunOK(Fail(run, e), link, device, taken, consented)
  BY <1>2, <1>3, PlainFail
<1>6. RunOK(run', link, device, taken, consented)
  BY <1>1, <1>2, <1>4, <1>5
<1> QED BY <1>1, <1>6, TypesNow, Preserved

LEMMA PasswordKeeps == IInv /\ Password => IInv'
<1> SUFFICES ASSUME IInv, Password PROVE IInv'
  OBVIOUS
<1>1. /\ Doing("password") /\ UNCHANGED <<device, link, batch, vault, interrupt, left, consented, taken>> /\ run.phase # "idle"
  BY DEF Password, Doing
<1>2. "authentication" \in Statuses \ {"none"} /\ "password" \notin SendingKinds
  BY DEF Statuses, SendingKinds
<1>3. /\ run.todo # <<>> /\ Head(run.todo).do = "password" /\ StepOK(Head(run.todo))
      /\ Working(run, link, taken, consented) /\ link # "down"
  BY <1>1, DoingWork DEF LocalKinds
<1>4. Current.contact \in Contacts
  BY <1>3 DEF Current, StepOK, ContactKinds
<1>5. \/ \E p \in {"right", "wrong"} : run' = Advance([run EXCEPT !.password = p])
      \/ run' = Fail(run, "authentication")
  BY <1>4, TypesNow DEF Password
<1>6. RunOK(Fail(run, "authentication"), link, device, taken, consented)
  BY <1>2, <1>3, PlainFail
<1>7. ASSUME NEW p \in {"right", "wrong"}
      PROVE  RunOK(Advance([run EXCEPT !.password = p]), link, device, taken, consented)
  <2> DEFINE y == [run EXCEPT !.password = p]
  <2>1. Like(y, run, {"password"}) /\ y.password = p
    BY TypesNow, Updated DEF RunFields
  <2> HIDE DEF y
  <2>2. Like(y, run, {"owed", "row", "password"}) /\ y.row = run.row
    BY <2>1 DEF Like, RunFields
  <2>3. Passing(run, y, consented) /\ Counted(y, taken)
    BY <1>3, <2>1, <2>2, PassLike
  <2>4. ~Achieves(Head(run.todo), run.program.goal)
    BY <1>3 DEF Achieves
  <2>5. RunOK(Advance(y), link, device, taken, consented)
    BY <1>3, <2>3, <2>4, AdvanceKeeps
  <2> QED BY <2>5 DEF y
<1>8. RunOK(run', link, device, taken, consented)
  BY <1>5, <1>6, <1>7
<1> QED BY <1>1, <1>8, TypesNow, Preserved

LEMMA LoginKeeps == IInv /\ Login => IInv'
<1> SUFFICES ASSUME IInv, Login PROVE IInv'
  OBVIOUS
<1>1. Doing("login") /\ UNCHANGED <<batch, vault, interrupt, left, consented, taken>> /\ run.phase # "idle"
  BY DEF Login, Doing
<1> DEFINE req == [Current EXCEPT !.value = run.password]
<1>2. PICK o \in Outcomes(req) : After(o, IF o.error = "none" THEN Advance(run) ELSE Fail(run, o.error))
  BY DEF Login
<1>3. /\ run.todo # <<>> /\ Head(run.todo).do = "login" /\ StepOK(Head(run.todo))
      /\ Working(run, link, taken, consented) /\ link # "down"
  BY <1>1, DoingWork DEF LocalKinds
<1>4. Current = Head(run.todo).req /\ Current.code = "login" /\ Current.contact \in Contacts /\ Current \in Requests
  BY <1>3 DEF Current, StepOK, ContactKinds, AnyStep
<1>5. run.password \in {"none", "right", "wrong"}
  BY TypesNow DEF RunBase
<1>6. req.code = "login" /\ req.contact = Current.contact /\ req.value = run.password
  BY <1>4 DEF Requests
<1> HIDE DEF req
<1>7. ReqOK(req) /\ req.value # "malformed"
  BY <1>4, <1>5, <1>6 DEF ReqOK
<1>8. /\ o.device \in Devices /\ o.link \in {"down", "up", "lost"} /\ o.link # "down" /\ o.error \in Statuses
      /\ o.error = "none" => Succeeds(req, Handle(device, req).replies) /\ o.device = Handle(device, req).device
  BY <1>3, <1>7, RequestIs
<1> DEFINE G == GoalHolds(run.program.goal, o.device, vault)
<1>9. CASE o.error = "none"
  <2>1. device' = o.device /\ link' = o.link /\ run' = Looked(Advance(run), G)
    BY <1>2, <1>9, AfterIs
  <2>2. Current.contact \in o.device.sessions /\ run.password = "right"
    BY <1>6, <1>7, <1>8, <1>9, TypesNow, EffectIs
  <2>3. ASSUME Achieves(Head(run.todo), run.program.goal) PROVE G
    <3> DEFINE g == run.program.goal
    <3>1. g.field = "session" /\ g.value = "open" /\ g.contact = Current.contact
      BY <1>3, <1>4, <2>3 DEF Achieves
    <3> QED BY <2>2, <3>1 DEF GoalHolds
  <2> HIDE DEF G
  <2>4. Passing(run, run, consented) /\ Counted(run, taken)
    <3>1. Like(run, run, {"reached", "post", "owed", "row", "password", "record", "unstored", "accepted", "printed"})
      BY TypesNow DEF Like
    <3>2. Counted(run, taken)
      BY <1>3 DEF Working
    <3> QED BY <1>3, <2>2, <3>1, <3>2, TypesNow DEF Passing
  <2>5. RunOK(Looked(Advance(run), G), o.link, o.device, taken, consented)
    BY <1>3, <1>8, <2>3, <2>4, AdvanceAfterKeeps
  <2> QED BY <1>1, <1>8, <2>1, <2>5, TypesNow, Preserved
<1>10. CASE o.error # "none"
  <2>1. device' = o.device /\ link' = o.link /\ run' = Looked(Fail(run, o.error), G)
    BY <1>2, <1>10, AfterIs
  <2> HIDE DEF G
  <2>2. RunOK(Looked(Fail(run, o.error), G), o.link, o.device, taken, consented)
    BY <1>3, <1>8, <1>10, PlainFail DEF SendingKinds
  <2> QED BY <1>1, <1>8, <2>1, <2>2, TypesNow, Preserved
<1> QED BY <1>9, <1>10

LEMMA KeepCredentialKeeps == IInv /\ KeepCredential => IInv'
<1> SUFFICES ASSUME IInv, KeepCredential PROVE IInv'
  OBVIOUS
<1>1. PICK k \in {"save", "forget"} : Doing(k)
  BY DEF KeepCredential
<1>2. UNCHANGED <<device, link, batch, interrupt, left, consented, taken>> /\ run.phase # "idle"
  BY <1>1 DEF KeepCredential, Doing
<1>3. "authentication" \in Statuses \ {"none"} /\ k \notin SendingKinds /\ k \notin LocalKinds
  BY DEF Statuses, SendingKinds, LocalKinds
<1>4. /\ run.todo # <<>> /\ Head(run.todo).do = k /\ StepOK(Head(run.todo))
      /\ Working(run, link, taken, consented) /\ link # "down"
  BY <1>1, <1>3, DoingWork
<1>5. Current.contact \in Contacts
  BY <1>4 DEF Current, StepOK, ContactKinds
<1>6. CASE run' = Fail(run, "authentication") /\ UNCHANGED vault
  <2>1. RunOK(Fail(run, "authentication"), link, device, taken, consented)
    BY <1>3, <1>4, PlainFail
  <2> QED BY <1>2, <1>6, <2>1, TypesNow, Preserved
<1>7. CASE /\ vault' = [vault EXCEPT ![Current.contact] = IF Doing("save") THEN run.password ELSE "none"]
           /\ run' = Advance([run EXCEPT !.reached = @ \/ Doing("forget")])
  <2>1. k = "save" => run.password = "right"
    <3>1. run.todo \in Seq(AnyStep) /\ (Behind(run.todo, "save", "login") \/ run.password = "right")
      BY <1>4 DEF Working, RunBase, KeptWork
    <3> QED BY <1>4, <3>1, TailBehind
  <2>2. (Doing("save") => k = "save") /\ (Doing("forget") <=> k = "forget")
    BY <1>1, <1>4 DEF Doing
  <2>3. vault' \in [Contacts -> {"none", "right"}]
    BY <1>5, <1>7, <2>1, <2>2, TypesNow
  <2> DEFINE q == run.reached \/ Doing("forget")
             y == [run EXCEPT !.reached = q]
  <2>4. run' = Advance(y)
    BY <1>7
  <2>5. (run.reached => q) /\ (k = "forget" => q)
    BY <2>2
  <2> HIDE DEF q
  <2>6. Like(y, run, {"reached"}) /\ y.reached = q
    BY TypesNow, Updated DEF RunFields
  <2> HIDE DEF y
  <2>7. /\ y.program = run.program /\ y.phase = run.phase /\ y.todo = run.todo /\ y.error = run.error /\ y.post = run.post
        /\ y.record = run.record /\ y.unstored = run.unstored /\ y.accepted = run.accepted /\ y.printed = run.printed
        /\ y.row = run.row /\ y.password = run.password /\ DOMAIN y = RunFields /\ y = [f \in RunFields |-> y[f]]
        /\ Like(y, run, {"reached", "post", "owed", "row", "password", "record", "unstored", "accepted", "printed"})
    BY <2>6 DEF Like, RunFields
  <2>8. RunBase(y)
    BY <2>7, TypesNow DEF RunBase
  <2>9. Passing(run, y, consented)
    BY <1>4, <2>5, <2>6, <2>7, <2>8 DEF Passing
  <2>10. Counted(y, taken)
    BY <1>4, <2>7 DEF Working, Counted, Counts
  <2>11. Achieves(Head(run.todo), run.program.goal) => y.reached
    BY <1>4, <2>5, <2>6 DEF Achieves
  <2>12. RunOK(Advance(y), link, device, taken, consented)
    BY <1>4, <2>9, <2>10, <2>11, AdvanceKeeps
  <2> QED BY <1>2, <2>3, <2>4, <2>12, TypesNow, Preserved
<1> QED BY <1>6, <1>7 DEF KeepCredential

LEMMA CheckSessionKeeps == IInv /\ CheckSession => IInv'
<1> SUFFICES ASSUME IInv, CheckSession PROVE IInv'
  OBVIOUS
<1>1. Doing("session") /\ UNCHANGED <<batch, vault, interrupt, left, consented, taken>> /\ run.phase # "idle"
  BY DEF CheckSession, Doing
<1>2. PICK o \in Outcomes(Current) :
          After(o, IF o.error # "none" THEN Fail(run, o.error)
                   ELSE IF o.replies = Ok THEN Advance(run) ELSE Fail(run, "authentication"))
  BY DEF CheckSession
<1>3. /\ run.todo # <<>> /\ Head(run.todo).do = "session" /\ StepOK(Head(run.todo))
      /\ Working(run, link, taken, consented) /\ link # "down"
  BY <1>1, DoingWork DEF LocalKinds
<1>4. ReqOK(Current)
  BY <1>3 DEF Current, StepOK, AskKinds
<1>5. o.device \in Devices /\ o.link \in {"down", "up", "lost"} /\ o.link # "down" /\ o.error \in Statuses
  BY <1>3, <1>4, RequestIs
<1>6. "authentication" \in Statuses \ {"none"} /\ "session" \notin SendingKinds
  BY DEF Statuses, SendingKinds
<1> DEFINE G == GoalHolds(run.program.goal, o.device, vault)
           z == IF o.error # "none" THEN Fail(run, o.error)
                ELSE IF o.replies = Ok THEN Advance(run) ELSE Fail(run, "authentication")
<1>7. device' = o.device /\ link' = o.link /\ run' = Looked(z, G)
  BY <1>2, AfterIs
<1> HIDE DEF G
<1>8. RunOK(Looked(Advance(run), G), o.link, o.device, taken, consented)
  <2>1. ~Achieves(Head(run.todo), run.program.goal)
    BY <1>3 DEF Achieves
  <2> QED BY <1>3, <1>5, <2>1, AskAdvance
<1>9. \A e \in Statuses \ {"none"} : RunOK(Looked(Fail(run, e), G), o.link, o.device, taken, consented)
  BY <1>3, <1>5, <1>6, PlainFail
<1>10. RunOK(Looked(z, G), o.link, o.device, taken, consented)
  BY <1>5, <1>6, <1>8, <1>9
<1> QED BY <1>1, <1>5, <1>7, <1>10, TypesNow, Preserved

LEMMA PollKeeps == IInv /\ Poll => IInv'
<1> SUFFICES ASSUME IInv, Poll PROVE IInv'
  OBVIOUS
<1>1. /\ Doing("poll") /\ run' \in {Advance(run)} \cup FailedSend(run, "interrupted")
      /\ UNCHANGED <<device, link, batch, vault, interrupt, left, consented, taken>> /\ run.phase # "idle"
  BY DEF Poll, Doing
<1>2. "interrupted" \in Statuses \ {"none"} /\ "poll" \notin LocalKinds
  BY DEF Statuses, LocalKinds
<1>3. /\ run.todo # <<>> /\ Head(run.todo).do = "poll" /\ Working(run, link, taken, consented) /\ link # "down"
  BY <1>1, <1>2, DoingWork
<1>4. RunOK(Advance(run), link, device, taken, consented)
  BY <1>3, PlainAdvance
<1>5. \A f \in FailedSend(run, "interrupted") : RunOK(f, link, device, taken, consented)
  BY <1>2, <1>3, FailedSendKeeps
<1> QED BY <1>1, <1>4, <1>5, TypesNow, Preserved

\* What the steps of a send may do to its record.
Recorded(r, y) ==
    /\ y.record \in {"none", "pending", "failed", "acknowledged", "timed_out"}
    /\ \/ y.record = r.record /\ Head(r.todo).do # "await"
       \/ Head(r.todo).do = "begin" /\ y.record \in {"none", "pending"}
       \/ Head(r.todo).do = "await" /\ (y.record \in {"none", "acknowledged"} \/ (y.unstored /\ y.record = "pending"))

LEMMA OfSend ==
    ASSUME NEW r, NEW l, NEW t, NEW a, Working(r, l, t, a), r.todo # <<>>, Head(r.todo).do \in SendKinds
    PROVE  r.program.name = "send"
<1>1. r.todo \in Seq(AnyStep) /\ (r.program.name # "send" => Only(r.todo, WorkKinds \ SendKinds))
  BY DEF Working, RunBase, SendWork
<1> QED BY <1>1, TailOnly

LEMMA SendPass ==
    ASSUME NEW r, NEW l, NEW t, NEW a, Working(r, l, t, a), r.todo # <<>>,
           NEW y, Like(y, r, {"post", "record", "unstored", "accepted"}), y.post \in Statuses,
           Head(r.todo).do \in {"begin", "transmit", "sent", "await"}, Recorded(r, y),
           y.accepted <=> r.accepted \/ Head(r.todo).do = "transmit"
    PROVE  Passing(r, y, a) /\ Counted(y, t) /\ ~Achieves(Head(r.todo), r.program.goal)
<1>1. /\ y.program = r.program /\ y.phase = r.phase /\ y.todo = r.todo /\ y.error = r.error /\ y.row = r.row
      /\ y.password = r.password /\ y.printed = r.printed
      /\ y.reached = r.reached /\ DOMAIN y = RunFields /\ y = [f \in RunFields |-> y[f]]
  BY DEF Like, RunFields
<1>2. Like(y, r, {"reached", "post", "owed", "row", "password", "record", "unstored", "accepted", "printed"})
  BY DEF Like
<1>3. RunBase(r) /\ Counted(r, t)
  BY DEF Working
<1>4. r.program.name = "send"
  BY OfSend DEF SendKinds
<1>5. RunBase(y)
  BY <1>1, <1>3 DEF RunBase, Recorded
<1>6. Counted(y, t)
  BY <1>1, <1>3, <1>4 DEF Counted, Counts
<1>7. ~Achieves(Head(r.todo), r.program.goal)
  BY DEF Achieves
<1>8. /\ \/ y.record = r.record /\ Head(r.todo).do # "await"
         \/ Head(r.todo).do = "begin" /\ y.record \in {"none", "pending"}
         \/ Head(r.todo).do = "await" /\ (y.record \in {"none", "acknowledged"} \/ (y.unstored /\ y.record = "pending"))
  BY DEF Recorded
<1>9. Passing(r, y, a)
  BY <1>1, <1>2, <1>4, <1>5, <1>8 DEF Passing
<1> QED BY <1>6, <1>7, <1>9

LEMMA LaterKeeps ==
    ASSUME NEW r, NEW l0, NEW t, NEW a, Working(r, l0, t, a), r.todo # <<>>, NEW l, l # "down", NEW d,
           NEW y, Like(y, r, {"record", "unstored"}), Head(r.todo).do \in {"sent", "await"}, Recorded(r, y),
           NEW e \in Statuses
    PROVE  RunOK(Later(y, e), l, d, t, a) /\ RunOK(Advance(y), l, d, t, a)
<1>1. /\ DOMAIN y = RunFields /\ y = [f \in RunFields |-> y[f]] /\ y.post = r.post /\ y.accepted = r.accepted
      /\ Like(y, r, {"post", "record", "unstored", "accepted"})
  BY DEF Like, RunFields
<1>2. y.post \in Statuses
  BY <1>1 DEF Working, RunBase
<1>3. RunOK(Advance(y), l, d, t, a)
  <2>1. Passing(r, y, a) /\ Counted(y, t) /\ ~Achieves(Head(r.todo), r.program.goal)
    BY <1>1, <1>2, SendPass
  <2> QED BY <2>1, AdvanceKeeps
<1> DEFINE p == IF y.post = "none" THEN e ELSE y.post
           z == [y EXCEPT !.post = p]
<1>4. Later(y, e) = Advance(z)
  BY DEF Later
<1>5. p \in Statuses
  BY <1>2
<1> HIDE DEF p
<1>6. Like(z, y, {"post"}) /\ z.post = p
  BY <1>1, Updated DEF RunFields
<1> HIDE DEF z
<1>7. z.record = y.record /\ z.unstored = y.unstored /\ z.accepted = r.accepted
  BY <1>1, <1>6 DEF Like, RunFields
<1>8. Like(z, r, {"post", "record", "unstored", "accepted"})
  BY <1>6 DEF Like
<1>9. Recorded(r, z)
  BY <1>7 DEF Recorded
<1>10. Passing(r, z, a) /\ Counted(z, t) /\ ~Achieves(Head(r.todo), r.program.goal)
  BY <1>5, <1>6, <1>7, <1>8, <1>9, SendPass
<1>11. RunOK(Advance(z), l, d, t, a)
  BY <1>10, AdvanceKeeps
<1> QED BY <1>3, <1>4, <1>11

LEMMA BeginKeeps == IInv /\ Begin => IInv'
<1> SUFFICES ASSUME IInv, Begin PROVE IInv'
  OBVIOUS
<1> DEFINE v == IF HistoryEnabled THEN "pending" ELSE "none"
           y == [run EXCEPT !.record = v]
<1>1. /\ Doing("begin") /\ UNCHANGED <<device, link, batch, vault, interrupt, left, consented, taken>> /\ run.phase # "idle"
      /\ (run' = Advance(y) \/ run' = Fail(run, "configuration"))
  BY DEF Begin, Doing
<1>2. "configuration" \in Statuses \ {"none"} /\ "begin" \notin SendingKinds
  BY DEF Statuses, SendingKinds
<1>3. /\ run.todo # <<>> /\ Head(run.todo).do = "begin" /\ Working(run, link, taken, consented) /\ link # "down"
  BY <1>1, DoingWork DEF LocalKinds
<1>4. RunOK(Fail(run, "configuration"), link, device, taken, consented)
  BY <1>2, <1>3, PlainFail
<1>5. v \in {"none", "pending"}
  OBVIOUS
<1> HIDE DEF v
<1>6. Like(y, run, {"record"}) /\ y.record = v
  BY TypesNow, Updated DEF RunFields
<1> HIDE DEF y
<1>7. Like(y, run, {"post", "record", "unstored", "accepted"}) /\ y.post = run.post /\ y.accepted = run.accepted
  BY <1>6 DEF Like, RunFields
<1>8. y.post \in Statuses /\ Recorded(run, y)
  BY <1>3, <1>5, <1>6, <1>7, TypesNow DEF RunBase, Recorded
<1>9. Passing(run, y, consented) /\ Counted(y, taken) /\ ~Achieves(Head(run.todo), run.program.goal)
  BY <1>3, <1>7, <1>8, SendPass
<1>10. RunOK(Advance(y), link, device, taken, consented)
  BY <1>3, <1>9, AdvanceKeeps
<1> QED BY <1>1, <1>4, <1>10, TypesNow, Preserved

LEMMA TransmitKeeps == IInv /\ Transmit => IInv'
<1> SUFFICES ASSUME IInv, Transmit PROVE IInv'
  OBVIOUS
<1> DEFINE y == [run EXCEPT !.accepted = TRUE]
<1>1. Doing("transmit") /\ UNCHANGED <<batch, vault, interrupt, left, consented, taken>> /\ run.phase # "idle"
  BY DEF Transmit, Doing
<1>2. PICK o \in Outcomes(Current) : IF o.error = "none" THEN After(o, Advance(y))
                                     ELSE \E r \in FailedSend(run, o.error) : After(o, r)
  BY DEF Transmit
<1>3. /\ run.todo # <<>> /\ Head(run.todo).do = "transmit" /\ StepOK(Head(run.todo))
      /\ Working(run, link, taken, consented) /\ link # "down"
  BY <1>1, DoingWork DEF LocalKinds
<1>4. ReqOK(Current)
  BY <1>3 DEF Current, StepOK, AskKinds
<1>5. o.device \in Devices /\ o.link \in {"down", "up", "lost"} /\ o.link # "down" /\ o.error \in Statuses
  BY <1>3, <1>4, RequestIs
<1> DEFINE G == GoalHolds(run.program.goal, o.device, vault)
<1>6. CASE o.error = "none"
  <2>1. device' = o.device /\ link' = o.link /\ run' = Looked(Advance(y), G)
    BY <1>2, <1>6, AfterIs
  <2>2. Like(y, run, {"accepted"}) /\ y.accepted = TRUE
    BY TypesNow, Updated DEF RunFields
  <2> HIDE DEF G, y
  <2>3. Like(y, run, {"post", "record", "unstored", "accepted"}) /\ y.post = run.post /\ y.record = run.record
    BY <2>2 DEF Like, RunFields
  <2>4. y.post \in Statuses /\ Recorded(run, y)
    BY <1>3, <2>3, TypesNow DEF RunBase, Recorded
  <2>5. Passing(run, y, consented) /\ Counted(y, taken) /\ ~Achieves(Head(run.todo), run.program.goal)
    BY <1>3, <2>2, <2>3, <2>4, SendPass
  <2>6. RunOK(Looked(Advance(y), G), o.link, o.device, taken, consented)
    BY <1>3, <1>5, <2>5, AdvanceAfterKeeps
  <2> QED BY <1>1, <1>5, <2>1, <2>6, TypesNow, Preserved
<1>7. CASE o.error # "none"
  <2>1. PICK r \in FailedSend(run, o.error) : After(o, r)
    BY <1>2, <1>7
  <2>2. device' = o.device /\ link' = o.link /\ run' = Looked(r, G)
    BY <2>1, AfterIs
  <2> HIDE DEF G, y
  <2>3. RunOK(Looked(r, G), o.link, o.device, taken, consented)
    BY <1>3, <1>5, <1>7, FailedSendKeeps
  <2> QED BY <1>1, <1>5, <2>2, <2>3, TypesNow, Preserved
<1> QED BY <1>6, <1>7

LEMMA RecordSentKeeps == IInv /\ RecordSent => IInv'
<1> SUFFICES ASSUME IInv, RecordSent PROVE IInv'
  OBVIOUS
<1> DEFINE y == [run EXCEPT !.unstored = TRUE]
<1>1. /\ Doing("sent") /\ UNCHANGED <<device, link, batch, vault, interrupt, left, consented, taken>> /\ run.phase # "idle"
      /\ run' \in {Advance(run), Later(run, "interrupted"), Later(run, "hook"), Later(y, "configuration")}
  BY DEF RecordSent, Doing, Accepted
<1>2. "configuration" \in Statuses /\ "hook" \in Statuses /\ "interrupted" \in Statuses
  BY DEF Statuses
<1>3. /\ run.todo # <<>> /\ Head(run.todo).do = "sent" /\ Working(run, link, taken, consented) /\ link # "down"
  BY <1>1, DoingWork DEF LocalKinds
<1>4. Like(y, run, {"unstored"})
  BY TypesNow, Updated DEF RunFields
<1> HIDE DEF y
<1>5. /\ Like(y, run, {"record", "unstored"}) /\ y.record = run.record /\ Like(run, run, {"record", "unstored"})
  BY <1>4, TypesNow DEF Like, RunFields
<1>6. Recorded(run, y) /\ Recorded(run, run)
  BY <1>3, <1>5, TypesNow DEF RunBase, Recorded
<1>7. RunOK(Later(y, "configuration"), link, device, taken, consented)
  BY <1>2, <1>3, <1>5, <1>6, LaterKeeps
<1>8. /\ \A e \in Statuses : RunOK(Later(run, e), link, device, taken, consented)
      /\ RunOK(Advance(run), link, device, taken, consented)
  BY <1>2, <1>3, <1>5, <1>6, LaterKeeps
<1>9. RunOK(run', link, device, taken, consented)
  BY <1>1, <1>2, <1>7, <1>8
<1> QED BY <1>1, <1>9, TypesNow, Preserved

LEMMA MarkFails ==
    ASSUME NEW r, NEW l0, NEW t, NEW a, Working(r, l0, t, a), r.todo # <<>>, Head(r.todo).do = "await",
           NEW y, Like(y, r, {"record", "unstored"}), NEW e \in WaitErrors,
           \/ y.unstored /\ y.record = r.record
           \/ y.record \in {"none", "timed_out"} /\ (y.record # "none" => r.record # "none")
           \/ /\ y.record \in {"none", "failed"} /\ (y.record # "none" => r.record # "none")
              /\ e \in {"connection", "protocol", "usage"}
           \/ y.record = r.record /\ e = "interrupted",
           NEW l, l # "down", NEW d
    PROVE  RunOK(Fail(y, e), l, d, t, a)
<1>1. /\ y.program = r.program /\ y.phase = r.phase /\ y.todo = r.todo /\ y.error = r.error /\ y.post = r.post
      /\ y.accepted = r.accepted /\ y.row = r.row /\ y.password = r.password
      /\ DOMAIN y = RunFields /\ y = [f \in RunFields |-> y[f]]
      /\ Like(y, r, {"owed", "doubtful", "record", "unstored", "printed"})
  BY DEF Like, RunFields
<1>2. RunBase(r) /\ Counted(r, t) /\ r.record \in {"none", "pending"}
  BY DEF Working, SendWork
<1>3. r.program.name = "send"
  BY OfSend DEF SendKinds
<1>4. y.record \in {"none", "pending", "failed", "acknowledged", "timed_out"} /\ e \in Statuses \ {"none"}
  BY <1>2 DEF Statuses, WaitErrors
<1>5. RunBase(y)
  BY <1>1, <1>2, <1>4 DEF RunBase
<1>6. Counts(y, e, t)
  BY <1>1, <1>2, <1>3 DEF Counted, Counts
<1>7. Has(r.program.work, "await")
  <2>1. r.todo \in Seq(AnyStep) /\ (Has(r.todo, "await") => Has(r.program.work, "await"))
    BY DEF Working, RunBase, SendWork
  <2> QED BY <2>1, HasTail
<1>8. Failing(r, y, e)
  BY <1>1, <1>2, <1>4, <1>5, <1>7 DEF Failing
<1> QED BY <1>6, <1>8, FailKeeps

LEMMA AwaitAckKeeps == IInv /\ AwaitAck => IInv'
<1> SUFFICES ASSUME IInv, AwaitAck PROVE IInv'
  OBVIOUS
<1> DEFINE S(status) == IF run.record = "none" THEN run.record ELSE status
           A == [run EXCEPT !.record = S("acknowledged")]
           T == [run EXCEPT !.record = S("timed_out")]
           F == [run EXCEPT !.record = S("failed")]
           U == [run EXCEPT !.unstored = TRUE]
<1>1. Doing("await") /\ UNCHANGED <<device, batch, vault, interrupt, left, consented, taken>> /\ run.phase # "idle"
  BY DEF AwaitAck, Doing
<1>2. \/ /\ link = "up" /\ link' = link
         /\ \/ run' \in {Later(A, "configuration"), Later(U, "configuration"), Advance(A), Advance(U),
                          Later(A, "interrupted"), Later(U, "interrupted")}
            \/ run.unstored /\ run' = Later(run, "protocol")
            \/ run' \in {Later(A, "hook"), Later(U, "hook")}
            \/ run' \in {Fail(T, "timeout"), Fail(U, "timeout")}
            \/ run' \in {Fail(F, "protocol"), Fail(U, "protocol"), Fail(F, "usage"), Fail(U, "usage")}
      \/ link' = "lost" /\ run' \in {Fail(F, "connection"), Fail(U, "connection")}
      \/ link' = "lost" /\ run' = Fail(run, "interrupted")
  BY DEF AwaitAck, Accepted
<1>3. /\ {"configuration", "protocol", "hook", "interrupted"} \subseteq Statuses
      /\ {"timeout", "connection", "interrupted", "protocol", "usage"} = WaitErrors
  BY DEF Statuses, WaitErrors
<1>4. /\ run.todo # <<>> /\ Head(run.todo).do = "await" /\ Working(run, link, taken, consented) /\ link # "down"
  BY <1>1, DoingWork DEF LocalKinds
<1>5. run.record \in {"none", "pending"}
  BY <1>4 DEF Working, SendWork
<1>6. /\ S("acknowledged") \in {"none", "acknowledged"} /\ S("timed_out") \in {"none", "timed_out"}
      /\ S("failed") \in {"none", "failed"} /\ (run.record = "none" => S("timed_out") = "none" /\ S("failed") = "none")
  BY <1>5
<1> HIDE DEF S
<1>7. Like(A, run, {"record"}) /\ A.record = S("acknowledged")
  BY TypesNow, Updated DEF RunFields
<1>8. Like(T, run, {"record"}) /\ T.record = S("timed_out")
  BY TypesNow, Updated DEF RunFields
<1>9. Like(F, run, {"record"}) /\ F.record = S("failed")
  BY TypesNow, Updated DEF RunFields
<1>10. Like(U, run, {"unstored"}) /\ U.unstored = TRUE
  BY TypesNow, Updated DEF RunFields
<1> HIDE DEF A, T, F, U
<1>11. /\ Like(A, run, {"record", "unstored"}) /\ Like(T, run, {"record", "unstored"}) /\ Like(F, run, {"record", "unstored"})
       /\ Like(U, run, {"record", "unstored"}) /\ Like(run, run, {"record", "unstored"}) /\ U.record = run.record
  BY <1>7, <1>8, <1>9, <1>10, TypesNow DEF Like, RunFields
<1>12. Recorded(run, A) /\ Recorded(run, U) /\ (run.unstored => Recorded(run, run))
  BY <1>4, <1>5, <1>6, <1>7, <1>10, <1>11 DEF Recorded
<1>13. \A e \in Statuses : /\ RunOK(Later(A, e), link, device, taken, consented) /\ RunOK(Advance(A), link, device, taken, consented)
  BY <1>4, <1>11, <1>12, LaterKeeps
<1>14. \A e \in Statuses : /\ RunOK(Later(U, e), link, device, taken, consented) /\ RunOK(Advance(U), link, device, taken, consented)
  BY <1>4, <1>11, <1>12, LaterKeeps
<1>15. run.unstored => RunOK(Later(run, "protocol"), link, device, taken, consented)
  BY <1>3, <1>4, <1>11, <1>12, LaterKeeps
<1>16. /\ RunOK(Fail(T, "timeout"), link, device, taken, consented)
  BY <1>3, <1>4, <1>6, <1>8, <1>11, MarkFails
<1>17. \A e \in WaitErrors : /\ RunOK(Fail(U, e), link, device, taken, consented)
                             /\ RunOK(Fail(U, e), "lost", device, taken, consented)
  BY <1>4, <1>10, <1>11, MarkFails
<1>18. \A e \in {"connection", "protocol", "usage"} : /\ RunOK(Fail(F, e), link, device, taken, consented)
                                                     /\ RunOK(Fail(F, e), "lost", device, taken, consented)
  BY <1>3, <1>4, <1>6, <1>9, <1>11, MarkFails
<1>19. /\ RunOK(Fail(run, "interrupted"), "lost", device, taken, consented)
  BY <1>3, <1>4, <1>11, MarkFails
<1>20. RunOK(run', link', device, taken, consented)
  <2>1. CASE link' = link /\ run' \in {Later(A, "configuration"), Later(U, "configuration"), Advance(A), Advance(U),
                                       Later(A, "interrupted"), Later(U, "interrupted"), Later(A, "hook"), Later(U, "hook")}
    BY <1>3, <1>13, <1>14, <2>1
  <2>2. CASE link' = link /\ run.unstored /\ run' = Later(run, "protocol")
    BY <1>15, <2>2
  <2>3. CASE link' = link /\ run' \in {Fail(T, "timeout"), Fail(U, "timeout"), Fail(F, "protocol"), Fail(U, "protocol"),
                                       Fail(F, "usage"), Fail(U, "usage")}
    BY <1>3, <1>16, <1>17, <1>18, <2>3
  <2>4. CASE link' = "lost" /\ run' \in {Fail(F, "connection"), Fail(U, "connection"), Fail(run, "interrupted")}
    BY <1>3, <1>17, <1>18, <1>19, <2>4
  <2> QED BY <1>2, <2>1, <2>2, <2>3, <2>4
<1>21. link' \in {"down", "up", "lost"}
  BY <1>2, TypesNow
<1> QED BY <1>1, <1>20, <1>21, TypesNow, Preserved

LEMMA FailError ==
    ASSUME NEW y, DOMAIN y = RunFields, y = [f \in RunFields |-> y[f]], NEW e
    PROVE  Fail(y, e).error = e
<1>1. PICK x : Fail(y, e) = Settle(x) /\ Like(x, y, {"todo", "error", "reached"}) /\ x.todo = <<>> /\ x.error = e
  BY FailIs
<1>2. DOMAIN x = RunFields /\ x = [f \in RunFields |-> x[f]]
  BY <1>1 DEF Like
<1> DEFINE P == IF x.error = "none" THEN "connect" ELSE "exit"
           Q == IF x.program.style = "workflow" THEN "disconnect_hook"
                ELSE IF ShouldEmitError(x.error) THEN "error_hook" ELSE "shutdown"
<1>3. \/ Settle(x) = x \/ Settle(x) = [x EXCEPT !.phase = P]
      \/ Settle(x) = [x EXCEPT !.phase = "restore", !.todo = x.program.restore] \/ Settle(x) = [x EXCEPT !.phase = Q]
  BY DEF Settle, Finish
<1> HIDE DEF P, Q
<1>4. Settle(x).error = x.error
  BY <1>2, <1>3 DEF RunFields
<1> QED BY <1>1, <1>4

LEMMA TakenIs ==
    ASSUME NEW u \in [off : Nat, known : Nat, shown : Nat], NEW k \in {0, 1}
    PROVE  LET v == [u EXCEPT !.off = @ + 1, !.known = @ + k] IN
           v \in [off : Nat, known : Nat, shown : Nat] /\ v.off = u.off + 1 /\ v.known = u.known + k
<1>1. u.off + 1 \in Nat /\ u.known + k \in Nat
  OBVIOUS
<1> DEFINE p == u.off + 1
           q == u.known + k
           v == [[u EXCEPT !.off = p] EXCEPT !.known = q]
<1>2. v = [u EXCEPT !.off = @ + 1, !.known = @ + k]
  OBVIOUS
<1> HIDE DEF p, q
<1>3. p \in Nat /\ q \in Nat
  BY <1>1 DEF p, q
<1>4. v \in [off : Nat, known : Nat, shown : Nat] /\ v.off = p /\ v.known = q
  BY <1>3
<1> HIDE DEF v
<1> QED BY <1>2, <1>4 DEF p, q

\* What a sync that fails has taken off the device.
LEMMA MailIs ==
    ASSUME device \in Devices, NEW req, req.code = "sync_next_message", NEW o \in Outcomes(req), o.error # "none"
    PROVE  /\ device.mail - o.device.mail \in {0, 1}
           /\ o.error \in {"timeout", "connection"} \/ device.mail - o.device.mail = 0
<1> DEFINE h == Handle(device, req)
<1>1. device.mail \in Nat
  BY DeviceAssumption DEF Devices
<1>2. \/ h.device = device
      \/ h.device = [device EXCEPT !.mail = @ - 1] /\ h.replies = <<"message">> /\ Succeeds(req, h.replies)
  <2>1. CASE req.value = "malformed"
    BY <2>1 DEF Handle, Answer
  <2>2. CASE req.value # "malformed"
    <3>1. h = OnSyncNextMessage(device, req)
      BY <2>2 DEF Handle
    <3>2. Succeeds(req, <<"message">>)
      BY DEF Succeeds, ExpectOk, FinalPacket
    <3> QED BY <3>1, <3>2 DEF OnSyncNextMessage, Answer
  <2> QED BY <2>1, <2>2
<1>3. device.mail - h.device.mail \in {0, 1}
  <2>1. [device EXCEPT !.mail = @ - 1].mail = device.mail - 1
    BY DEF Devices
  <2>2. h.device.mail \in {device.mail, device.mail - 1}
    BY <1>2, <2>1
  <2> HIDE DEF h
  <2> QED BY <1>1, <2>2
<1>4. device.mail - device.mail = 0
  BY <1>1
<1>5. CASE link # "up"
  <2>1. o = [device |-> device, link |-> link, error |-> "connection", replies |-> <<>>]
    BY <1>5 DEF Outcomes
  <2> QED BY <1>4, <2>1
<1>6. CASE link = "up"
  <2> DEFINE e == IF Succeeds(req, h.replies) THEN "none" ELSE Refusal(req, h.replies)
  <2>1. \/ o = [device |-> h.device, link |-> IF req.code = "reboot" THEN "lost" ELSE "up", error |-> e,
                replies |-> h.replies]
        \/ \E d \in {device, h.device}, l \in {"up", "lost"} :
              o = [device |-> d, link |-> l, error |-> IF l = "up" THEN "timeout" ELSE "connection", replies |-> <<>>]
    BY <1>6 DEF Outcomes
  <2>2. h.device = device \/ e = "none"
    BY <1>2
  <2> HIDE DEF h, e
  <2>3. CASE o = [device |-> h.device, link |-> IF req.code = "reboot" THEN "lost" ELSE "up", error |-> e,
                  replies |-> h.replies]
    <3>1. o.device = h.device /\ o.error = e
      BY <2>3
    <3> QED BY <1>4, <2>2, <3>1
  <2>4. CASE \E d \in {device, h.device}, l \in {"up", "lost"} :
                o = [device |-> d, link |-> l, error |-> IF l = "up" THEN "timeout" ELSE "connection", replies |-> <<>>]
    <3>1. o.device \in {device, h.device} /\ o.error \in {"timeout", "connection"}
      BY <2>4
    <3> QED BY <1>3, <1>4, <3>1
  <2> QED BY <2>1, <2>3, <2>4
<1> QED BY <1>5, <1>6

LEMMA DrainKeeps == IInv /\ Drain => IInv'
<1> SUFFICES ASSUME IInv, Drain PROVE IInv'
  OBVIOUS
<1> DEFINE y == [run EXCEPT !.unstored = TRUE]
           t(k) == [taken EXCEPT !.off = @ + 1, !.known = @ + k]
<1>1. Doing("drain") /\ UNCHANGED <<batch, vault, interrupt, left, consented>> /\ run.phase # "idle"
  BY DEF Drain, Doing
<1>2. PICK o \in Outcomes(Current) :
          /\ device' = o.device /\ link' = o.link
          /\ \/ /\ o.error # "none" /\ run' = Fail([run EXCEPT !.told = @ + 1], o.error)
                /\ taken' = [taken EXCEPT !.off = @ + (device.mail - o.device.mail)]
             \/ run' = Advance(run) /\ UNCHANGED taken
             \/ \E i \in Incoming :
                      /\ taken' = [taken EXCEPT !.off = @ + 1, !.known = @ + i.known]
                      /\ run' \in IF i.run = run THEN {run, Advance(run)} ELSE {i.run}
  BY DEF Drain
<1>3. /\ run.todo # <<>> /\ Head(run.todo).do = "drain" /\ StepOK(Head(run.todo)) /\ run.phase = "work"
      /\ Working(run, link, taken, consented) /\ link # "down"
  BY <1>1, DoingWork DEF LocalKinds
<1>4. ReqOK(Current)
  BY <1>3 DEF Current, StepOK, AskKinds
<1>5. o.device \in Devices /\ o.link \in {"down", "up", "lost"} /\ o.link # "down" /\ o.error \in Statuses
  BY <1>3, <1>4, RequestIs
<1>6. {"hook", "configuration"} \subseteq Statuses \ {"none"} /\ "drain" \notin SendingKinds
  BY DEF Statuses, SendingKinds
<1>7. run.program.name = "inbox" /\ ~run.unstored /\ ~run.accepted /\ run.record = "none"
  <2>1. run.todo \in Seq(AnyStep) /\ MailWork(run)
    BY <1>3 DEF Working, RunBase
  <2>2. run.program.name = "inbox" /\ ~run.unstored
    BY <1>3, <2>1, TailOnly DEF MailWork
  <2> QED BY <1>3, <1>6, <2>2, NotSending
<1>8. taken \in [off : Nat, known : Nat, shown : Nat] /\ taken.off <= taken.known
  <2>1. taken \in [off : Nat, known : Nat, shown : Nat] /\ Counted(run, taken)
    BY <1>3, TypesNow DEF Working
  <2>2. run.error = "none"
    BY <1>3 DEF Working
  <2> QED BY <1>7, <2>1, <2>2 DEF Counted, Counts
<1>9. /\ t(1) \in [off : Nat, known : Nat, shown : Nat] /\ t(1).off <= t(1).known
      /\ t(0) \in [off : Nat, known : Nat, shown : Nat] /\ t(0).off <= t(0).known + 1
  <2>1. ASSUME NEW k \in {0, 1}
        PROVE  /\ t(k) \in [off : Nat, known : Nat, shown : Nat] /\ t(k).off = taken.off + 1 /\ t(k).known = taken.known + k
    BY <1>8, TakenIs
  <2> HIDE DEF t
  <2>2. taken.off \in Nat /\ taken.known \in Nat
    BY <1>8
  <2> QED BY <1>8, <2>1, <2>2
<1>10. CASE /\ o.error # "none" /\ run' = Fail([run EXCEPT !.told = @ + 1], o.error)
            /\ taken' = [taken EXCEPT !.off = @ + (device.mail - o.device.mail)]
  <2> DEFINE n == run.told + 1
             z == [run EXCEPT !.told = n]
             m == device.mail - o.device.mail
             u == [taken EXCEPT !.off = @ + m]
  <2>1. m \in {0, 1} /\ (o.error \in {"timeout", "connection"} \/ m = 0)
    <3>1. Current.code = "sync_next_message"
      BY <1>3 DEF Current, StepOK
    <3> QED BY <1>10, <3>1, MailIs, TypesNow
  <2>2. run.told = 0 /\ n = 1
    BY <1>3 DEF Working
  <2> HIDE DEF n, m
  <2>3. Like(z, run, {"told"}) /\ z.told = n
    BY TypesNow, Updated DEF RunFields
  <2>4. run' = Fail(z, o.error) /\ taken' = u
    BY <1>10 DEF n, m
  <2>5. u \in [off : Nat, known : Nat, shown : Nat] /\ u.off = taken.off + m /\ u.known = taken.known
    <3>1. taken.off + m \in Nat
      BY <1>8, <2>1
    <3> QED BY <1>8, <3>1
  <2> HIDE DEF z, u
  <2>6. /\ z.program = run.program /\ z.phase = run.phase /\ z.todo = run.todo /\ z.error = run.error /\ z.post = run.post
        /\ z.accepted = run.accepted /\ z.row = run.row /\ z.password = run.password /\ z.record = run.record
        /\ z.unstored = run.unstored /\ DOMAIN z = RunFields /\ z = [f \in RunFields |-> z[f]]
    BY <2>3 DEF Like, RunFields
  <2>7. RunBase(z)
    BY <2>6, TypesNow DEF RunBase
  <2>8. run.program.style = "workflow" /\ run.program.restore = <<>>
    BY <1>7, TypesNow DEF RunBase, ProgramOK
  <2>9. Failing(run, z, o.error)
    BY <1>5, <1>7, <1>10, <2>2, <2>3, <2>6, <2>7, <2>8 DEF Failing
  <2>10. taken.off \in Nat /\ taken.known \in Nat
    BY <1>8
  <2>11. Counts(z, o.error, u)
    BY <1>8, <2>1, <2>5, <2>10 DEF Counts
  <2>12. RunOK(Fail(z, o.error), o.link, o.device, u, consented)
    BY <1>3, <1>5, <2>9, <2>11, FailKeeps
  <2> QED BY <1>1, <1>2, <1>5, <2>4, <2>5, <2>12, TypesNow, Preserved
<1>11. ASSUME NEW u, Counted(run, u)
       PROVE  /\ Working(run, link, u, consented)
              /\ RunOK(run, o.link, o.device, u, consented)
              /\ RunOK(Advance(run), o.link, o.device, u, consented)
              /\ RunOK(Fail(run, "hook"), o.link, o.device, u, consented)
  <2>1. Working(run, link, u, consented) /\ Working(run, o.link, u, consented)
    BY <1>3, <1>5, <1>11 DEF Working
  <2>2. RunOK(run, o.link, o.device, u, consented)
    BY <1>3, <2>1, WorkGoesOn
  <2>3. RunOK(Advance(run), o.link, o.device, u, consented)
    BY <1>3, <1>5, <2>1, PlainAdvance
  <2>4. RunOK(Fail(run, "hook"), o.link, o.device, u, consented)
    BY <1>3, <1>5, <1>6, <2>1, PlainFail
  <2> QED BY <2>1, <2>2, <2>3, <2>4
<1>12. CASE run' = Advance(run) /\ UNCHANGED taken
  <2>1. Counted(run, taken)
    BY <1>3 DEF Working
  <2>2. RunOK(Advance(run), o.link, o.device, taken, consented)
    BY <1>11, <2>1
  <2> QED BY <1>1, <1>2, <1>5, <1>12, <2>2, TypesNow, Preserved
<1>13. CASE \E i \in Incoming : /\ taken' = [taken EXCEPT !.off = @ + 1, !.known = @ + i.known]
                                /\ run' \in IF i.run = run THEN {run, Advance(run)} ELSE {i.run}
  <2>1. PICK i \in Incoming : taken' = t(i.known) /\ run' \in IF i.run = run THEN {run, Advance(run)} ELSE {i.run}
    BY <1>13
  <2>2. run.error = "none" /\ DOMAIN run = RunFields /\ run = [f \in RunFields |-> run[f]]
    BY <1>3, TypesNow DEF Working
  <2>3. Like(y, run, {"unstored"}) /\ y.unstored = TRUE
    BY <2>2, Updated DEF RunFields
  <2>4. (i.known = 1 /\ (i.run = run \/ i.run = Fail(run, "hook"))) \/ (i.known = 0 /\ i.run = Fail(y, "configuration"))
    BY DEF Incoming
  <2> HIDE DEF y, t
  <2>5. /\ y.program = run.program /\ y.phase = run.phase /\ y.todo = run.todo /\ y.error = run.error /\ y.post = run.post
        /\ y.accepted = run.accepted /\ y.row = run.row /\ y.password = run.password /\ y.record = run.record
        /\ DOMAIN y = RunFields /\ y = [f \in RunFields |-> y[f]]
        /\ Like(y, run, {"owed", "doubtful", "record", "unstored", "printed"})
    BY <2>3 DEF Like, RunFields
  <2>6. CASE i.known = 1
    <3>1. Counted(run, t(1))
      BY <1>7, <1>9 DEF Counted, Counts
    <3>2. run' \in {run, Advance(run), Fail(run, "hook")} /\ taken' = t(1)
      BY <2>1, <2>4, <2>6
    <3>3. RunOK(run', o.link, o.device, t(1), consented)
      BY <1>11, <3>1, <3>2
    <3> QED BY <1>1, <1>2, <1>5, <1>9, <3>2, <3>3, TypesNow, Preserved
  <2>7. CASE i.known = 0 /\ i.run = Fail(y, "configuration")
    <3>1. Fail(y, "configuration").error = "configuration"
      BY <2>5, FailError
    <3>2. i.run # run
      BY <2>2, <2>7, <3>1
    <3>3. run' = Fail(y, "configuration") /\ taken' = t(0)
      BY <2>1, <2>7, <3>2
    <3>4. RunBase(y)
      BY <2>5, TypesNow DEF RunBase
    <3>5. Failing(run, y, "configuration")
      BY <1>6, <1>7, <2>5, <3>4 DEF Failing
    <3>6. Counts(y, "configuration", t(0))
      BY <1>9, <2>3 DEF Counts
    <3>7. RunOK(Fail(y, "configuration"), o.link, o.device, t(0), consented)
      BY <1>3, <1>5, <3>5, <3>6, FailKeeps
    <3> QED BY <1>1, <1>2, <1>5, <1>9, <3>3, <3>7, TypesNow, Preserved
  <2> QED BY <2>4, <2>6, <2>7
<1> QED BY <1>2, <1>10, <1>12, <1>13

LEMMA PrintInsideKeeps == IInv /\ PrintInside => IInv'
<1> SUFFICES ASSUME IInv, PrintInside PROVE IInv'
  OBVIOUS
<1> DEFINE y == [run EXCEPT !.printed = TRUE]
           z == [run EXCEPT !.error = "output"]
<1>1. /\ Doing("print") /\ UNCHANGED <<device, link, batch, vault, interrupt, left, consented, taken>> /\ run.phase # "idle"
      /\ run' \in {IF r.error = "none" THEN Advance(r) ELSE Fail(r, r.error) : r \in {y, z}}
  BY DEF PrintInside, Doing, Printing
<1>2. "output" \in Statuses \ {"none"} /\ "print" \notin SendingKinds
  BY DEF Statuses, SendingKinds
<1>3. /\ run.todo # <<>> /\ Head(run.todo).do = "print" /\ Working(run, link, taken, consented) /\ link # "down"
  BY <1>1, DoingWork DEF LocalKinds
<1>4. run.error = "none" /\ DOMAIN run = RunFields /\ run = [f \in RunFields |-> run[f]]
  BY <1>3, TypesNow DEF Working
<1>5. Like(y, run, {"printed"}) /\ y.printed = TRUE
  BY <1>4, Updated DEF RunFields
<1>6. z.error = "output" /\ Fail(z, "output") = Fail(run, "output")
  <2>1. z.error = "output"
    BY <1>4 DEF RunFields
  <2>2. [[z EXCEPT !.error = "output"] EXCEPT !.todo = <<>>] = [[run EXCEPT !.error = "output"] EXCEPT !.todo = <<>>]
    BY <1>4 DEF RunFields
  <2> QED BY <2>1, <2>2 DEF Fail
<1> HIDE DEF y, z
<1>7. /\ y.program = run.program /\ y.phase = run.phase /\ y.todo = run.todo /\ y.error = run.error /\ y.post = run.post
      /\ y.accepted = run.accepted /\ y.row = run.row /\ y.password = run.password /\ y.record = run.record
      /\ y.unstored = run.unstored /\ y.reached = run.reached /\ DOMAIN y = RunFields /\ y = [f \in RunFields |-> y[f]]
      /\ Like(y, run, {"reached", "post", "owed", "row", "password", "record", "unstored", "accepted", "printed"})
  BY <1>5 DEF Like, RunFields
<1>8. RunBase(y)
  BY <1>7, TypesNow DEF RunBase
<1>9. Passing(run, y, consented)
  BY <1>3, <1>5, <1>7, <1>8 DEF Passing
<1>10. Counted(y, taken)
  BY <1>3, <1>7 DEF Working, Counted, Counts
<1>11. ~Achieves(Head(run.todo), run.program.goal)
  BY <1>3 DEF Achieves
<1>12. RunOK(Advance(y), link, device, taken, consented)
  BY <1>3, <1>9, <1>10, <1>11, AdvanceKeeps
<1>13. RunOK(Fail(run, "output"), link, device, taken, consented)
  BY <1>2, <1>3, PlainFail
<1>14. run' \in {Advance(y), Fail(run, "output")}
  BY <1>1, <1>4, <1>6, <1>7
<1>15. RunOK(run', link, device, taken, consented)
  BY <1>12, <1>13, <1>14
<1> QED BY <1>1, <1>15, TypesNow, Preserved

-----------------------------------------------------------------------------
(* The session around the work.                                            *)

\* A command whose work is over.
Winding(r, d, t) ==
    /\ RunBase(r)
    /\ r.doubtful => r.error # "none" \/ r.post # "none"
    /\ r.program.restore # <<>> /\ r.owed /\ ~r.doubtful => Undone(r, d)
    /\ r.error = "none" => r.reached
    /\ r.program.inside /\ r.error = "none" => r.printed
    /\ r.accepted \/ r.record # "none" => r.program.name = "send"
    /\ SendLate(r) /\ Counted(r, t)

LEMMA WindingIs ==
    ASSUME NEW r, NEW l, NEW d, NEW t, NEW a, RunOK(r, l, d, t, a), r.phase \in Ended
    PROVE  Winding(r, d, t)
<1>1. r.phase \in Late
  BY DEF Ended, Late
<1>2. RunBase(r) /\ SendLate(r) /\ Counted(r, t) /\ (r.accepted \/ r.record # "none" => r.program.name = "send")
  BY <1>1 DEF RunOK, SendOK, MailOK
<1>3. /\ r.doubtful => r.error # "none" \/ r.post # "none"
      /\ r.program.restore # <<>> /\ r.owed /\ ~r.doubtful => Undone(r, d)
  BY DEF RunOK, SettingOK
<1>4. (r.error = "none" => r.reached) /\ (r.program.inside /\ r.error = "none" => r.printed)
  BY <1>1 DEF RunOK, ResultOK
<1> QED BY <1>2, <1>3, <1>4 DEF Winding

LEMMA WindingOK ==
    ASSUME NEW r, NEW l, NEW d, NEW t, NEW a, Winding(r, d, t), r.phase \in Ended, HooksOK(r, l),
           r.phase = "exit" /\ r.error = "none" => r.printed
    PROVE  RunOK(r, l, d, t, a)
<1>1. r.phase \notin Early /\ r.phase \notin {"local", "work", "restore"}
  BY DEF Ended, Early
<1>2. RunBase(r) /\ TodoOK(r) /\ KeptOK(r) /\ ConsentOK(r, a)
  BY <1>1 DEF Winding, TodoOK, KeptOK, ConsentOK, Early
<1>3. SettingOK(r, d)
  BY <1>1 DEF Winding, SettingOK
<1>4. ResultOK(r)
  BY <1>1 DEF Winding, ResultOK
<1>5. SendOK(r) /\ MailOK(r, t)
  BY <1>1 DEF Winding, SendOK, MailOK
<1> QED BY <1>2, <1>3, <1>4, <1>5 DEF RunOK

\* What may still change then.
LEMMA WindingMoves ==
    ASSUME NEW r, NEW d, NEW t, Winding(r, d, t), NEW x, Like(x, r, {"phase", "on", "off", "told", "error", "post", "printed"}),
           x.phase \in Phases, x.post \in Statuses, r.post # "none" => x.post # "none", r.printed => x.printed,
           \/ x.error = r.error
           \/ r.error = "none" /\ x.error \in Statuses \ {"none"} /\ (r.program.name # "send" \/ x.error = "output")
    PROVE  Winding(x, d, t)
<1>1. /\ x.program = r.program /\ x.todo = r.todo /\ x.row = r.row /\ x.password = r.password /\ x.record = r.record
      /\ x.unstored = r.unstored /\ x.accepted = r.accepted /\ x.reached = r.reached /\ x.owed = r.owed
      /\ x.doubtful = r.doubtful /\ DOMAIN x = RunFields /\ x = [f \in RunFields |-> x[f]]
  BY DEF Like, RunFields
<1>2. x.error \in Statuses
  BY DEF Winding, RunBase
<1>3. RunBase(x)
  BY <1>1, <1>2 DEF Winding, RunBase
<1>4. Undone(r, d) => Undone(x, d)
  BY <1>1 DEF Undone
<1>5. Counted(x, t)
  BY <1>1 DEF Winding, Counted, Counts
<1>6. SendLate(x)
  <2>1. CASE x.error = r.error
    BY <1>1, <2>1 DEF Winding, SendLate
  <2>2. CASE r.error = "none" /\ r.program.name # "send"
    <3>1. ~r.accepted /\ r.record = "none"
      BY <2>2 DEF Winding
    <3> QED BY <1>1, <3>1 DEF SendLate
  <2>3. CASE r.error = "none" /\ x.error = "output"
    <3>1. SendLate(r)
      BY DEF Winding
    <3> QED BY <1>1, <2>3, <3>1 DEF SendLate
  <2> QED BY <2>1, <2>2, <2>3
<1>7. x.error = "none" => r.error = "none"
  OBVIOUS
<1> QED BY <1>1, <1>3, <1>4, <1>5, <1>6, <1>7 DEF Winding

LEMMA ErrorHookKeeps == IInv /\ ErrorHook => IInv'
<1> SUFFICES ASSUME IInv, ErrorHook PROVE IInv'
  OBVIOUS
<1>1. /\ run.phase = "error_hook" /\ UNCHANGED <<device, link, batch, vault, interrupt, left, consented, taken>>
  BY DEF ErrorHook
<1>2. RunOK(run, link, device, taken, consented) /\ DOMAIN run = RunFields /\ run = [f \in RunFields |-> run[f]]
  BY TypesNow
<1>3. run.on = 1 /\ run.off = 0 /\ run.told = 0 /\ run.program.style = "session"
  BY <1>1, <1>2 DEF RunOK, HooksOK
<1> DEFINE P == IF link = "down" THEN "disconnect_hook" ELSE "shutdown"
           v == run.told + 1
           x == [[run EXCEPT !.told = v] EXCEPT !.phase = P]
<1>4. run' = x /\ v = 1
  BY <1>3 DEF ErrorHook
<1>5. P \in {"disconnect_hook", "shutdown"} /\ (P = "disconnect_hook" => link = "down")
  OBVIOUS
<1> HIDE DEF P, v
<1>6. Like(x, run, {"told", "phase"}) /\ x.told = v /\ x.phase = P
  <2>1. "told" \in RunFields /\ "phase" \in RunFields /\ "told" # "phase"
    BY DEF RunFields
  <2> QED BY <1>2, <2>1, UpdatedTwice
<1> HIDE DEF x
<1>7. /\ x.program = run.program /\ x.error = run.error /\ x.post = run.post /\ x.printed = run.printed
      /\ x.on = run.on /\ x.off = run.off /\ Like(x, run, {"phase", "on", "off", "told", "error", "post", "printed"})
  BY <1>6 DEF Like, RunFields
<1>8. Winding(run, device, taken) /\ run.post \in Statuses /\ run.phase \in Ended /\ x.phase \in Phases /\ x.phase \in Ended
  BY <1>1, <1>2, <1>5, <1>6, WindingIs DEF Ended, Phases, RunOK, RunBase
<1>9. Winding(x, device, taken)
  BY <1>7, <1>8, WindingMoves
<1>10. run.error # "none"
  BY <1>1, <1>2 DEF RunOK, HooksOK
<1>11. HooksOK(x, link)
  BY <1>3, <1>4, <1>5, <1>6, <1>7, <1>10 DEF HooksOK
<1>12. RunOK(x, link, device, taken, consented)
  BY <1>5, <1>6, <1>8, <1>9, <1>11, WindingOK
<1> QED BY <1>1, <1>4, <1>12, TypesNow, Preserved

LEMMA CleanupIs ==
    ASSUME NEW r, NEW d, NEW t, Winding(r, d, t), NEW e \in Statuses \ {"none"}, NEW y \in {r, WithCleanupError(r, e)}
    PROVE  /\ Like(y, r, {"error", "post"}) /\ y.post \in Statuses /\ (r.post # "none" => y.post # "none")
           /\ y.error = r.error \/ (r.error = "none" /\ y.error = e /\ r.program.name # "send")
<1>1. DOMAIN r = RunFields /\ r = [f \in RunFields |-> r[f]] /\ r.post \in Statuses
  BY DEF Winding, RunBase
<1>2. CASE y = r
  BY <1>1, <1>2 DEF Like
<1>3. CASE y = WithCleanupError(r, e)
  <2> DEFINE p == IF r.post = "none" THEN e ELSE r.post
             u == [r EXCEPT !.post = p]
             w == [r EXCEPT !.error = e]
  <2>1. y = r \/ y = u \/ (y = w /\ r.error = "none" /\ r.program.name # "send")
    BY <1>3 DEF WithCleanupError
  <2>2. p \in Statuses /\ (r.post # "none" => p # "none")
    BY <1>1
  <2> HIDE DEF p
  <2>3. Like(u, r, {"post"}) /\ u.post = p
    BY <1>1, Updated DEF RunFields
  <2>4. Like(w, r, {"error"}) /\ w.error = e
    BY <1>1, Updated DEF RunFields
  <2> HIDE DEF u, w
  <2>5. Like(u, r, {"error", "post"}) /\ u.error = r.error
    BY <2>3 DEF Like, RunFields
  <2>6. Like(w, r, {"error", "post"}) /\ w.post = r.post
    BY <2>4 DEF Like, RunFields
  <2>7. CASE y = u
    BY <2>2, <2>3, <2>5, <2>7
  <2>8. CASE y = w /\ r.error = "none" /\ r.program.name # "send"
    BY <1>1, <2>4, <2>6, <2>8
  <2> QED BY <1>2, <2>1, <2>7, <2>8
<1> QED BY <1>2, <1>3

LEMMA ShutdownKeeps == IInv /\ Shutdown => IInv'
<1> SUFFICES ASSUME IInv, Shutdown PROVE IInv'
  OBVIOUS
<1>1. /\ run.phase = "shutdown" /\ link' = "down" /\ UNCHANGED <<device, batch, vault, interrupt, left, consented, taken>>
  BY DEF Shutdown
<1>2. RunOK(run, link, device, taken, consented) /\ run.phase \in Ended
  BY <1>1, TypesNow DEF Ended
<1>3. /\ run.on = 1 /\ run.told \in 0 .. 1 /\ (run.told = 1 => run.error # "none")
      /\ (run.program.style = "workflow" => run.off = 1) /\ (run.program.style # "workflow" => run.off = 0)
  BY <1>1, <1>2 DEF RunOK, HooksOK
<1>4. run.program.style \in {"session", "workflow"}
  BY <1>2 DEF RunOK, RunBase, ProgramOK
<1>5. Winding(run, device, taken)
  BY <1>2, WindingIs
<1>6. "connection" \in Statuses \ {"none"}
  BY DEF Statuses
<1>7. PICK y \in {run, WithCleanupError(run, "connection")} :
          run' = [y EXCEPT !.phase = IF y.program.style = "workflow" THEN "print"
                                     ELSE IF y.error # run.error THEN "error_hook" ELSE "disconnect_hook"]
  BY DEF Shutdown
<1>8. /\ Like(y, run, {"error", "post"}) /\ y.post \in Statuses /\ (run.post # "none" => y.post # "none")
      /\ y.error = run.error \/ (run.error = "none" /\ y.error = "connection" /\ run.program.name # "send")
  BY <1>5, <1>6, CleanupIs
<1>9. /\ y.program = run.program /\ y.on = run.on /\ y.off = run.off /\ y.told = run.told /\ y.printed = run.printed
      /\ DOMAIN y = RunFields /\ y = [f \in RunFields |-> y[f]]
  BY <1>8 DEF Like, RunFields
<1> DEFINE P == IF y.program.style = "workflow" THEN "print" ELSE IF y.error # run.error THEN "error_hook" ELSE "disconnect_hook"
           x == [y EXCEPT !.phase = P]
<1>10. run' = x
  BY <1>7
<1>11. /\ P \in {"print", "error_hook", "disconnect_hook"} /\ (P = "print" <=> run.program.style = "workflow")
       /\ (P = "error_hook" => y.error # run.error) /\ (P = "disconnect_hook" => y.error = run.error)
  BY <1>9
<1> HIDE DEF P
<1>12. Like(x, y, {"phase"}) /\ x.phase = P
  BY <1>9, Updated DEF RunFields
<1> HIDE DEF x
<1>13. /\ x.program = run.program /\ x.on = run.on /\ x.off = run.off /\ x.told = run.told /\ x.printed = run.printed
       /\ x.error = y.error /\ x.post = y.post
  BY <1>9, <1>12 DEF Like, RunFields
<1>14. Like(x, run, {"phase", "on", "off", "told", "error", "post", "printed"})
  BY <1>8, <1>12 DEF Like
<1>15. x.phase \in Phases /\ x.phase \in Ended
  BY <1>11, <1>12 DEF Phases, Ended
<1>16. Winding(x, device, taken)
  BY <1>5, <1>6, <1>8, <1>13, <1>14, <1>15, WindingMoves
<1>17. HooksOK(x, "down")
  <2>1. CASE P = "print"
    BY <1>3, <1>11, <1>12, <1>13, <2>1 DEF HooksOK
  <2>2. CASE P = "error_hook"
    <3>1. run.error = "none" /\ y.error = "connection" /\ run.told = 0 /\ run.program.style = "session" /\ run.off = 0
      BY <1>3, <1>4, <1>8, <1>11, <2>2
    <3> QED BY <1>3, <1>12, <1>13, <2>2, <3>1 DEF HooksOK
  <2>3. CASE P = "disconnect_hook"
    BY <1>3, <1>11, <1>12, <1>13, <2>3 DEF HooksOK
  <2> QED BY <1>11, <2>1, <2>2, <2>3
<1>18. RunOK(x, "down", device, taken, consented)
  BY <1>11, <1>12, <1>15, <1>16, <1>17, WindingOK
<1> QED BY <1>1, <1>10, <1>18, TypesNow, Preserved

LEMMA DisconnectHookKeeps == IInv /\ DisconnectHook => IInv'
<1> SUFFICES ASSUME IInv, DisconnectHook PROVE IInv'
  OBVIOUS
<1>1. run.phase = "disconnect_hook" /\ UNCHANGED <<device, link, batch, vault, interrupt, left, consented, taken>>
  BY DEF DisconnectHook
<1>2. RunOK(run, link, device, taken, consented) /\ run.phase \in Ended
  BY <1>1, TypesNow DEF Ended
<1>3. /\ run.on = 1 /\ run.off = 0 /\ run.told \in 0 .. 1 /\ (run.told = 1 => run.error # "none")
      /\ (run.program.style = "session" => link = "down")
  BY <1>1, <1>2 DEF RunOK, HooksOK
<1>4. run.program.style \in {"session", "workflow"}
  BY <1>2 DEF RunOK, RunBase, ProgramOK
<1>5. Winding(run, device, taken)
  BY <1>2, WindingIs
<1>6. "hook" \in Statuses \ {"none"}
  BY DEF Statuses
<1>7. PICK y \in {run, WithCleanupError(run, "hook")} :
          run' = [y EXCEPT !.off = @ + 1, !.phase = IF y.program.style = "workflow" THEN "shutdown" ELSE "print"]
  BY DEF DisconnectHook
<1>8. /\ Like(y, run, {"error", "post"}) /\ y.post \in Statuses /\ (run.post # "none" => y.post # "none")
      /\ y.error = run.error \/ (run.error = "none" /\ y.error = "hook" /\ run.program.name # "send")
  BY <1>5, <1>6, CleanupIs
<1>9. /\ y.program = run.program /\ y.on = run.on /\ y.off = run.off /\ y.told = run.told /\ y.printed = run.printed
      /\ DOMAIN y = RunFields /\ y = [f \in RunFields |-> y[f]]
  BY <1>8 DEF Like, RunFields
<1> DEFINE P == IF y.program.style = "workflow" THEN "shutdown" ELSE "print"
           v == y.off + 1
           x == [[y EXCEPT !.off = v] EXCEPT !.phase = P]
<1>10. run' = x
  BY <1>7
<1>11. P \in {"shutdown", "print"} /\ (P = "shutdown" <=> run.program.style = "workflow") /\ v = 1
  BY <1>3, <1>9
<1> HIDE DEF P, v
<1>12. Like(x, y, {"off", "phase"}) /\ x.off = v /\ x.phase = P
  <2>1. "off" \in RunFields /\ "phase" \in RunFields /\ "off" # "phase"
    BY DEF RunFields
  <2> QED BY <1>9, <2>1, UpdatedTwice
<1> HIDE DEF x
<1>13. /\ x.program = run.program /\ x.on = run.on /\ x.told = run.told /\ x.printed = run.printed
       /\ x.error = y.error /\ x.post = y.post
  BY <1>9, <1>12 DEF Like, RunFields
<1>14. Like(x, run, {"phase", "on", "off", "told", "error", "post", "printed"})
  BY <1>8, <1>12 DEF Like
<1>15. x.phase \in Phases /\ x.phase \in Ended
  BY <1>11, <1>12 DEF Phases, Ended
<1>16. Winding(x, device, taken)
  BY <1>5, <1>6, <1>8, <1>13, <1>14, <1>15, WindingMoves
<1>17. HooksOK(x, link)
  <2>1. CASE P = "print"
    BY <1>3, <1>4, <1>11, <1>12, <1>13, <2>1 DEF HooksOK
  <2>2. CASE P = "shutdown"
    <3>1. run.told = 1 => x.error # "none"
      BY <1>3, <1>8, <1>13
    <3> QED BY <1>3, <1>11, <1>12, <1>13, <2>2, <3>1 DEF HooksOK
  <2> QED BY <1>11, <2>1, <2>2
<1>18. RunOK(x, link, device, taken, consented)
  BY <1>11, <1>12, <1>15, <1>16, <1>17, WindingOK
<1> QED BY <1>1, <1>10, <1>18, TypesNow, Preserved

LEMMA ReportKeeps == IInv /\ Report => IInv'
<1> SUFFICES ASSUME IInv, Report PROVE IInv'
  OBVIOUS
<1>1. run.phase = "print" /\ UNCHANGED <<device, link, batch, vault, interrupt, left, consented>>
  BY DEF Report
<1>2. RunOK(run, link, device, taken, consented) /\ run.phase \in Ended /\ DOMAIN run = RunFields /\ run = [f \in RunFields |-> run[f]]
  BY <1>1, TypesNow DEF Ended
<1>3. run.on = 1 /\ run.off = 1 /\ run.told \in 0 .. 1 /\ link = "down"
  BY <1>1, <1>2 DEF RunOK, HooksOK
<1>4. taken' \in [off : Nat, known : Nat, shown : Nat] /\ taken'.off = taken.off /\ taken'.known = taken.known
  <2>1. taken' = taken \/ taken' = [taken EXCEPT !.shown = taken.off]
    BY DEF Report
  <2> QED BY <2>1, TypesNow
<1>5. Winding(run, device, taken')
  <2>1. Winding(run, device, taken)
    BY <1>2, WindingIs
  <2>2. Counted(run, taken')
    BY <1>4, <2>1 DEF Winding, Counted, Counts
  <2> QED BY <2>1, <2>2 DEF Winding
<1>6. ASSUME Like(run', run, {"phase", "printed", "error"}), run'.phase = "exit",
             run.printed => run'.printed, run'.error = "none" => run'.printed,
             run'.error = run.error \/ (run.error = "none" /\ run'.error = "output")
      PROVE  IInv'
  <2> DEFINE x == run'
  <2>1. Like(x, run, {"phase", "printed", "error"}) /\ x.phase = "exit" /\ (run.printed => x.printed)
        /\ (x.error = "none" => x.printed) /\ (x.error = run.error \/ (run.error = "none" /\ x.error = "output"))
    BY <1>6
  <2> HIDE DEF x
  <2>2. /\ x.on = run.on /\ x.off = run.off /\ x.told = run.told /\ x.post = run.post
        /\ Like(x, run, {"phase", "on", "off", "told", "error", "post", "printed"})
    BY <2>1 DEF Like, RunFields
  <2>3. run.post \in Statuses /\ x.phase \in Phases /\ x.phase \in Ended /\ "output" \in Statuses \ {"none"}
    BY <1>5, <2>1 DEF Winding, RunBase, Phases, Ended, Statuses
  <2>4. Winding(x, device, taken')
    BY <1>5, <2>1, <2>2, <2>3, WindingMoves
  <2>5. HooksOK(x, link)
    BY <1>3, <2>1, <2>2 DEF HooksOK
  <2>6. RunOK(x, link, device, taken', consented)
    BY <2>1, <2>3, <2>4, <2>5, WindingOK
  <2> QED BY <1>1, <1>4, <2>6, TypesNow, Preserved DEF x
<1>7. CASE run.error # "none" \/ run.program.inside
  <2> DEFINE x == [run EXCEPT !.phase = "exit"]
  <2>1. run' = x
    BY <1>7 DEF Report
  <2>2. Like(x, run, {"phase"}) /\ x.phase = "exit"
    BY <1>2, Updated DEF RunFields
  <2> HIDE DEF x
  <2>3. Like(x, run, {"phase", "printed", "error"}) /\ x.printed = run.printed /\ x.error = run.error
    BY <2>2 DEF Like, RunFields
  <2>4. run.error = "none" => run.printed
    BY <1>5, <1>7 DEF Winding
  <2> QED BY <1>6, <2>1, <2>2, <2>3, <2>4
<1>8. CASE ~(run.error # "none" \/ run.program.inside)
  <2> DEFINE u == [[run EXCEPT !.printed = TRUE] EXCEPT !.phase = "exit"]
             w == [[run EXCEPT !.error = "output"] EXCEPT !.phase = "exit"]
  <2>1. run' = u \/ run' = w
    BY <1>8 DEF Report, Printing
  <2>3. Like(u, run, {"printed", "phase"}) /\ u.printed = TRUE /\ u.phase = "exit"
    <3>1. "printed" \in RunFields /\ "phase" \in RunFields /\ "printed" # "phase"
      BY DEF RunFields
    <3> QED BY <1>2, <3>1, UpdatedTwice
  <2>4. Like(w, run, {"error", "phase"}) /\ w.error = "output" /\ w.phase = "exit"
    <3>1. "error" \in RunFields /\ "phase" \in RunFields /\ "error" # "phase"
      BY DEF RunFields
    <3> QED BY <1>2, <3>1, UpdatedTwice
  <2> HIDE DEF u, w
  <2>5. Like(u, run, {"phase", "printed", "error"}) /\ u.error = run.error
    BY <2>3 DEF Like, RunFields
  <2>6. Like(w, run, {"phase", "printed", "error"}) /\ w.printed = run.printed
    BY <2>4 DEF Like, RunFields
  <2>7. CASE run' = u
    BY <1>6, <2>3, <2>5, <2>7
  <2>8. CASE run' = w
    BY <1>6, <1>8, <2>4, <2>6, <2>8
  <2> QED BY <2>1, <2>7, <2>8
<1> QED BY <1>7, <1>8

LEMMA EarlyExit ==
    ASSUME NEW r, NEW l, NEW d, NEW t, NEW a, RunOK(r, l, d, t, a), r.phase \in {"connect", "activate"},
           NEW x, Like(x, r, {"phase", "error", "on", "off"}), x.phase = "exit", x.error \in Statuses \ {"none"},
           x.on \in 0 .. 1, x.off = x.on
    PROVE  RunOK(x, "down", d, t, a)
<1>1. /\ x.program = r.program /\ x.todo = r.todo /\ x.row = r.row /\ x.password = r.password /\ x.record = r.record
      /\ x.post = r.post /\ x.unstored = r.unstored /\ x.accepted = r.accepted /\ x.reached = r.reached /\ x.owed = r.owed
      /\ x.doubtful = r.doubtful /\ x.told = r.told /\ DOMAIN x = RunFields /\ x = [f \in RunFields |-> x[f]]
  BY DEF Like, RunFields
<1>2. r.phase \in Early
  BY DEF Early
<1>3. RunBase(x)
  BY <1>1 DEF RunOK, RunBase, Phases
<1>4. ~r.owed /\ ~r.doubtful /\ ~r.accepted /\ r.record = "none" /\ r.told = 0
  BY <1>2 DEF RunOK, SettingOK, SendOK, HooksOK
<1>5. SendLate(x)
  BY <1>1, <1>4 DEF SendLate
<1>6. Counted(x, t)
  <2>1. Counts(r, "none", t)
    BY <1>2 DEF RunOK, TodoOK, MailOK, Counted
  <2> QED BY <1>1, <2>1 DEF Counted, Counts
<1>7. Winding(x, d, t)
  BY <1>1, <1>3, <1>4, <1>5, <1>6 DEF Winding
<1>8. HooksOK(x, "down")
  BY <1>1, <1>4 DEF HooksOK
<1>9. x.phase \in Ended
  BY DEF Ended
<1> QED BY <1>7, <1>8, <1>9, WindingOK

LEMMA ConnectedOK ==
    ASSUME NEW r, NEW l, NEW d, NEW t, NEW a, RunOK(r, l, d, t, a), r.phase = "connect",
           NEW x, Like(x, r, {"phase"}), x.phase = "activate"
    PROVE  RunOK(x, "up", d, t, a)
<1>1. /\ x.program = r.program /\ x.todo = r.todo /\ x.row = r.row /\ x.password = r.password /\ x.record = r.record
      /\ x.error = r.error /\ x.yes = r.yes
      /\ x.post = r.post /\ x.unstored = r.unstored /\ x.accepted = r.accepted /\ x.reached = r.reached /\ x.owed = r.owed
      /\ x.doubtful = r.doubtful /\ x.told = r.told /\ x.on = r.on /\ x.off = r.off
      /\ DOMAIN x = RunFields /\ x = [f \in RunFields |-> x[f]]
  BY DEF Like, RunFields
<1>2. "connect" \in Early /\ "activate" \in Early /\ "activate" \notin Late /\ "activate" \notin Ended
  BY DEF Early, Late, Ended
<1>3. RunBase(x) /\ TodoOK(x)
  BY <1>1, <1>2 DEF RunOK, RunBase, TodoOK, Phases
<1>4. HooksOK(x, "up")
  BY <1>1 DEF RunOK, HooksOK
<1>5. SettingOK(x, d) /\ ResultOK(x)
  BY <1>1, <1>2 DEF RunOK, SettingOK, ResultOK
<1>6. SendOK(x) /\ MailOK(x, t) /\ KeptOK(x)
  BY <1>1, <1>2 DEF RunOK, SendOK, MailOK, KeptOK, Counted, Counts
<1>7. ConsentOK(x, a)
  BY <1>1, <1>2 DEF RunOK, ConsentOK
<1> QED BY <1>3, <1>4, <1>5, <1>6, <1>7 DEF RunOK

LEMMA OpenSessionKeeps == IInv /\ OpenSession => IInv'
<1> SUFFICES ASSUME IInv, OpenSession PROVE IInv'
  OBVIOUS
<1>1. run.phase = "connect" /\ UNCHANGED <<device, batch, vault, interrupt, left, consented, taken>>
  BY DEF OpenSession
<1>2. RunOK(run, link, device, taken, consented) /\ DOMAIN run = RunFields /\ run = [f \in RunFields |-> run[f]]
  BY TypesNow
<1>3. \/ link' = "up" /\ run' = [run EXCEPT !.phase = "activate"]
      \/ \E e \in {"connection", "interrupted"} : link' = "down" /\ run' = [run EXCEPT !.phase = "exit", !.error = e]
  BY DEF OpenSession
<1>4. CASE link' = "up" /\ run' = [run EXCEPT !.phase = "activate"]
  <2> DEFINE x == [run EXCEPT !.phase = "activate"]
  <2>1. Like(x, run, {"phase"}) /\ x.phase = "activate"
    BY <1>2, Updated DEF RunFields
  <2>2. run' = x
    BY <1>4
  <2> HIDE DEF x
  <2>3. RunOK(x, "up", device, taken, consented)
    BY <1>1, <1>2, <2>1, ConnectedOK
  <2> QED BY <1>1, <1>4, <2>2, <2>3, TypesNow, Preserved
<1>5. ASSUME NEW e \in {"connection", "interrupted"}, link' = "down", run' = [run EXCEPT !.phase = "exit", !.error = e]
      PROVE  IInv'
  <2> DEFINE x == [[run EXCEPT !.phase = "exit"] EXCEPT !.error = e]
  <2>1. run' = x
    BY <1>5
  <2>2. Like(x, run, {"phase", "error"}) /\ x.phase = "exit" /\ x.error = e
    <3>1. "phase" \in RunFields /\ "error" \in RunFields /\ "phase" # "error"
      BY DEF RunFields
    <3> QED BY <1>2, <3>1, UpdatedTwice
  <2> HIDE DEF x
  <2>3. Like(x, run, {"phase", "error", "on", "off"}) /\ x.on = run.on /\ x.off = run.off
    BY <2>2 DEF Like, RunFields
  <2>4. run.on = 0 /\ run.off = 0 /\ e \in Statuses \ {"none"}
    BY <1>1, <1>2 DEF RunOK, HooksOK, Statuses
  <2>5. RunOK(x, "down", device, taken, consented)
    BY <1>1, <1>2, <2>2, <2>3, <2>4, EarlyExit
  <2> QED BY <1>1, <1>5, <2>1, <2>5, TypesNow, Preserved
<1> QED BY <1>3, <1>4, <1>5

\* The work begins.
LEMMA WorkBegins ==
    ASSUME NEW r, NEW l, NEW d, NEW t, NEW a, RunOK(r, l, d, t, a), r.phase = "activate",
           NEW x, Like(x, r, {"phase", "on", "todo"}), x.phase = "work", x.on = 1, x.todo = r.program.work
    PROVE  Working(x, l, t, a)
<1> DEFINE w == r.program.work
<1>1. /\ x.program = r.program /\ x.row = r.row /\ x.password = r.password /\ x.record = r.record
      /\ x.error = r.error /\ x.yes = r.yes
      /\ x.post = r.post /\ x.unstored = r.unstored /\ x.accepted = r.accepted /\ x.reached = r.reached /\ x.owed = r.owed
      /\ x.doubtful = r.doubtful /\ x.told = r.told /\ x.off = r.off
      /\ DOMAIN x = RunFields /\ x = [f \in RunFields |-> x[f]]
  BY DEF Like, RunFields
<1>2. /\ "activate" \in Early /\ RunBase(r) /\ ProgramOK(r.program) /\ WorkOK(w) /\ w \in Seq(AnyStep)
  BY DEF Early, RunOK, RunBase, ProgramOK
<1>3. /\ r.error = "none" /\ l # "down" /\ r.off = 0 /\ r.told = 0 /\ ~r.doubtful
      /\ ~r.accepted /\ r.record = "none" /\ ~r.unstored /\ (r.reached \/ r.program.goal # NoGoal)
      /\ (r.yes => a) /\ (a \/ Guarded(w))
  BY <1>2 DEF RunOK, TodoOK, HooksOK, SettingOK, SendOK, ResultOK, ConsentOK
<1>4. RunBase(x)
  BY <1>1, <1>2 DEF RunBase, Phases
<1>5. (\A n \in 1 .. Len(w) : StepOK(w[n])) /\ Only(w, WorkKinds)
  BY <1>2 DEF WorkOK
<1>6. x.reached \/ \E n \in 1 .. Len(x.todo) : Achieves(x.todo[n], x.program.goal)
  BY <1>1, <1>2, <1>3 DEF ProgramOK
<1>7. x.program.inside => Has(x.todo, "print")
  BY <1>1, <1>2 DEF ProgramOK
<1>8. SendWork(x)
  <2>1. /\ r.program.name # "send" => Only(w, WorkKinds \ SendKinds)
        /\ r.program.name = "send" => SendWorkOK(w) /\ Has(w, "transmit")
    BY <1>2 DEF ProgramOK
  <2> QED BY <1>1, <1>3, <2>1 DEF SendWork
<1>9. MailWork(x)
  BY <1>1, <1>2, <1>3 DEF ProgramOK, MailWork
<1>10. KeptWork(x)
  BY <1>2 DEF WorkOK, KeptWork
<1>11. SendLate(x)
  BY <1>1, <1>3 DEF SendLate
<1>12. Counted(x, t)
  BY <1>1 DEF RunOK, MailOK, Counted, Counts
<1>13. x.program.name = "send" \/ ~(x.accepted \/ x.record # "none")
  BY <1>1, <1>3
<1> QED BY <1>1, <1>3, <1>4, <1>5, <1>6, <1>7, <1>8, <1>9, <1>10, <1>11, <1>12, <1>13 DEF Working

LEMMA ActivateKeeps == IInv /\ Activate => IInv'
<1> SUFFICES ASSUME IInv, Activate PROVE IInv'
  OBVIOUS
<1>1. run.phase = "activate" /\ UNCHANGED <<device, batch, vault, interrupt, left, consented, taken>>
  BY DEF Activate
<1>2. /\ RunOK(run, link, device, taken, consented) /\ DOMAIN run = RunFields /\ run = [f \in RunFields |-> run[f]]
      /\ link \in {"down", "up", "lost"}
  BY TypesNow
<1>3. run.on = 0 /\ run.off = 0
  BY <1>1, <1>2 DEF RunOK, HooksOK
<1> DEFINE v == run.on + 1
           u == run.off + 1
<1>4. v = 1 /\ u = 1
  BY <1>3
<1>5. \/ run' = Settle([run EXCEPT !.on = v, !.phase = "work", !.todo = run.program.work]) /\ link' = link
      \/ run' = [run EXCEPT !.on = v, !.off = u, !.phase = "exit", !.error = "hook"] /\ link' = "down"
  BY DEF Activate
<1> HIDE DEF u, v
<1>6. CASE run' = Settle([run EXCEPT !.on = v, !.phase = "work", !.todo = run.program.work]) /\ link' = link
  <2> DEFINE y == [[run EXCEPT !.on = v] EXCEPT !.phase = "work"]
             x == [y EXCEPT !.todo = run.program.work]
  <2>1. run' = Settle(x)
    BY <1>6
  <2>2. Like(y, run, {"on", "phase"}) /\ y.on = v /\ y.phase = "work"
    <3>1. "on" \in RunFields /\ "phase" \in RunFields /\ "on" # "phase"
      BY DEF RunFields
    <3> QED BY <1>2, <3>1, UpdatedTwice
  <2> HIDE DEF y
  <2>3. DOMAIN y = RunFields /\ y = [f \in RunFields |-> y[f]]
    BY <2>2 DEF Like
  <2>4. Like(x, y, {"todo"}) /\ x.todo = run.program.work
    BY <2>3, Updated DEF RunFields
  <2> HIDE DEF x
  <2>5. Like(x, run, {"phase", "on", "todo"})
    BY <2>2, <2>4 DEF Like
  <2>6. x.on = v /\ x.phase = "work"
    BY <2>2, <2>4 DEF Like, RunFields
  <2>7. Working(x, link, taken, consented)
    BY <1>1, <1>2, <1>4, <2>4, <2>5, <2>6, WorkBegins
  <2>8. RunOK(Settle(x), link, device, taken, consented)
    BY <2>7, SettleKeeps
  <2> QED BY <1>1, <1>6, <2>1, <2>8, TypesNow, Preserved
<1>7. CASE run' = [run EXCEPT !.on = v, !.off = u, !.phase = "exit", !.error = "hook"] /\ link' = "down"
  <2> DEFINE y == [[run EXCEPT !.on = v] EXCEPT !.off = u]
             x == [[y EXCEPT !.phase = "exit"] EXCEPT !.error = "hook"]
  <2>1. run' = x
    BY <1>7
  <2>2. Like(y, run, {"on", "off"}) /\ y.on = v /\ y.off = u
    <3>1. "on" \in RunFields /\ "off" \in RunFields /\ "on" # "off"
      BY DEF RunFields
    <3> QED BY <1>2, <3>1, UpdatedTwice
  <2> HIDE DEF y
  <2>3. DOMAIN y = RunFields /\ y = [f \in RunFields |-> y[f]]
    BY <2>2 DEF Like
  <2>4. Like(x, y, {"phase", "error"}) /\ x.phase = "exit" /\ x.error = "hook"
    <3>1. "phase" \in RunFields /\ "error" \in RunFields /\ "phase" # "error"
      BY DEF RunFields
    <3> QED BY <2>3, <3>1, UpdatedTwice
  <2> HIDE DEF x
  <2>5. Like(x, run, {"phase", "error", "on", "off"})
    BY <2>2, <2>4 DEF Like
  <2>6. x.on = v /\ x.off = u
    BY <2>2, <2>4 DEF Like, RunFields
  <2>7. "hook" \in Statuses \ {"none"}
    BY DEF Statuses
  <2>8. RunOK(x, "down", device, taken, consented)
    BY <1>1, <1>2, <1>4, <2>4, <2>5, <2>6, <2>7, EarlyExit
  <2> QED BY <1>1, <1>7, <2>1, <2>8, TypesNow, Preserved
<1> QED BY <1>5, <1>6, <1>7

LEMMA RestoreIsOne ==
    /\ ResetScope # <<>> /\ Tail(ResetScope) = <<>> /\ Head(ResetScope) = AskOf("set_flood_scope", NoContact, "default")
    /\ ResetHash # <<>> /\ Tail(ResetHash) = <<>> /\ Head(ResetHash) = AskOf("set_path_hash_mode", NoContact, "before")
<1>1. \A e : <<e>> # <<>> /\ Tail(<<e>>) = <<>> /\ Head(<<e>>) = e
  OBVIOUS
<1> QED BY <1>1 DEF ResetScope, ResetHash

LEMMA RestoreEnds ==
    ASSUME NEW r, NEW l0, NEW d0, NEW t, NEW a, RunOK(r, l0, d0, t, a), r.phase = "restore", NEW l, NEW d,
           NEW y, Like(y, r, {"doubtful", "post", "error"}), y.post \in Statuses,
           y.doubtful => y.error # "none" \/ y.post # "none", ~y.doubtful => Undone(r, d),
           y.error = r.error \/ (r.error = "none" /\ y.error \in Statuses \ {"none"} /\ r.program.name # "send"),
           NEW G
    PROVE  RunOK(Looked(Advance(y), G), l, d, t, a)
<1>1. /\ y.program = r.program /\ y.phase = "restore" /\ y.todo = r.todo /\ y.row = r.row /\ y.password = r.password
      /\ y.record = r.record /\ y.unstored = r.unstored /\ y.accepted = r.accepted /\ y.reached = r.reached /\ y.owed = r.owed
      /\ y.on = r.on /\ y.off = r.off /\ y.told = r.told /\ y.printed = r.printed
      /\ DOMAIN y = RunFields /\ y = [f \in RunFields |-> y[f]]
  BY DEF Like, RunFields
<1>2. /\ RunBase(r) /\ ProgramOK(r.program) /\ r.todo = r.program.restore /\ r.todo # <<>> /\ r.on = 1 /\ r.off = 0 /\ r.told = 0
      /\ r.error \in Statuses
  BY DEF RunOK, RunBase, TodoOK, HooksOK
<1>3. Tail(y.todo) = <<>>
  BY <1>1, <1>2, RestoreIsOne DEF ProgramOK
<1>4. /\ r.error = "none" => r.reached
      /\ r.program.inside /\ r.error = "none" => r.printed
      /\ r.accepted \/ r.record # "none" => r.program.name = "send"
      /\ SendLate(r) /\ Counted(r, t)
  BY DEF RunOK, ResultOK, SendOK, MailOK, Late
<1>5. PICK x : /\ Looked(Advance(y), G) = Settle(x) /\ Like(x, y, {"todo", "reached"})
               /\ x.todo = Tail(y.todo) /\ (y.reached \/ G => x.reached)
  <2>1. DOMAIN y = RunFields /\ y = [f \in RunFields |-> y[f]]
    BY <1>1
  <2> QED BY <2>1, AdvanceAfter
<1>6. /\ x.program = r.program /\ x.phase = "restore" /\ x.todo = <<>> /\ x.row = r.row /\ x.password = r.password
      /\ x.record = r.record /\ x.unstored = r.unstored /\ x.accepted = r.accepted /\ x.owed = r.owed
      /\ x.on = 1 /\ x.off = 0 /\ x.told = 0 /\ x.printed = r.printed /\ x.error = y.error /\ x.post = y.post
      /\ x.doubtful = y.doubtful /\ DOMAIN x = RunFields /\ x = [f \in RunFields |-> x[f]]
  <2>1. /\ x.program = y.program /\ x.phase = y.phase /\ x.row = y.row /\ x.password = y.password /\ x.record = y.record /\ x.unstored = y.unstored /\ x.accepted = y.accepted /\ x.owed = y.owed
        /\ x.on = y.on /\ x.off = y.off /\ x.told = y.told /\ x.printed = y.printed /\ x.error = y.error /\ x.post = y.post /\ x.doubtful = y.doubtful
        /\ DOMAIN x = RunFields /\ x = [f \in RunFields |-> x[f]]
    BY <1>5 DEF Like, RunFields
  <2> QED BY <1>1, <1>2, <1>3, <1>5, <2>1
<1> DEFINE Q == IF x.program.style = "workflow" THEN "disconnect_hook"
                ELSE IF ShouldEmitError(x.error) THEN "error_hook" ELSE "shutdown"
           z == [x EXCEPT !.phase = Q]
<1>7. Settle(x) = z
  BY <1>6 DEF Settle, Finish
<1>8. /\ Q \in {"disconnect_hook", "error_hook", "shutdown"} /\ (Q = "disconnect_hook" <=> x.program.style = "workflow")
      /\ (Q = "error_hook" => x.error # "none")
  BY DEF ShouldEmitError
<1> HIDE DEF Q
<1>9. Like(z, x, {"phase"}) /\ z.phase = Q
  BY <1>6, Updated DEF RunFields
<1> HIDE DEF z
<1>10. /\ z.program = r.program /\ z.todo = <<>> /\ z.row = r.row /\ z.password = r.password
       /\ z.record = r.record /\ z.unstored = r.unstored /\ z.accepted = r.accepted /\ z.owed = r.owed
       /\ z.on = 1 /\ z.off = 0 /\ z.told = 0 /\ z.printed = r.printed /\ z.error = y.error /\ z.post = y.post
       /\ z.doubtful = y.doubtful /\ z.reached = x.reached /\ DOMAIN z = RunFields /\ z = [f \in RunFields |-> z[f]]
  <2>1. /\ z.program = x.program /\ z.row = x.row /\ z.password = x.password /\ z.record = x.record /\ z.unstored = x.unstored /\ z.accepted = x.accepted /\ z.owed = x.owed /\ z.on = x.on
        /\ z.off = x.off /\ z.told = x.told /\ z.printed = x.printed /\ z.error = x.error /\ z.post = x.post /\ z.doubtful = x.doubtful /\ z.todo = x.todo /\ z.reached = x.reached
        /\ DOMAIN z = RunFields /\ z = [f \in RunFields |-> z[f]]
    BY <1>9 DEF Like, RunFields
  <2> QED BY <1>6, <2>1
<1>11. y.error \in Statuses /\ z.phase \in Phases /\ z.phase \in Ended /\ z.todo \in Seq(AnyStep)
  BY <1>2, <1>8, <1>9, <1>10 DEF Phases, Ended
<1>12. RunBase(z)
  BY <1>2, <1>10, <1>11 DEF RunBase
<1>13. SendLate(z)
  <2>1. CASE y.error = r.error
    BY <1>4, <1>10, <2>1 DEF SendLate
  <2>2. CASE r.program.name # "send"
    <3>1. ~r.accepted /\ r.record = "none"
      BY <1>4, <2>2
    <3> QED BY <1>10, <3>1 DEF SendLate
  <2> QED BY <2>1, <2>2
<1>14. Counted(z, t)
  BY <1>4, <1>10 DEF Counted, Counts
<1>15. Undone(r, d) => Undone(z, d)
  BY <1>10 DEF Undone
<1>16. y.error = "none" => r.error = "none"
  OBVIOUS
<1>17. z.error = "none" => z.reached
  BY <1>1, <1>4, <1>5, <1>10, <1>16
<1>18. Winding(z, d, t)
  BY <1>4, <1>10, <1>12, <1>13, <1>14, <1>15, <1>16, <1>17 DEF Winding
<1>19. r.program.style \in {"session", "workflow"}
  BY <1>2 DEF ProgramOK
<1>20. HooksOK(z, l)
  BY <1>6, <1>8, <1>9, <1>10, <1>19 DEF HooksOK
<1>21. RunOK(z, l, d, t, a)
  BY <1>8, <1>9, <1>11, <1>18, <1>20, WindingOK
<1> QED BY <1>5, <1>7, <1>21

LEMMA RestoreKeeps == IInv /\ Restore => IInv'
<1> SUFFICES ASSUME IInv, Restore PROVE IInv'
  OBVIOUS
<1>1. run.phase = "restore" /\ UNCHANGED <<batch, vault, interrupt, left, consented, taken>>
  BY DEF Restore
<1>2. /\ RunOK(run, link, device, taken, consented) /\ DOMAIN run = RunFields /\ run = [f \in RunFields |-> run[f]]
      /\ link \in {"down", "up", "lost"} /\ device \in Devices
  BY TypesNow
<1>3. /\ ProgramOK(run.program) /\ run.todo = run.program.restore /\ run.todo # <<>> /\ link # "down"
      /\ run.error \in Statuses /\ run.post \in Statuses
  BY <1>1, <1>2 DEF RunOK, RunBase, TodoOK, HooksOK
<1>4. \/ /\ Current = Request("set_flood_scope", NoContact, "default") /\ run.program.name # "network_trace"
      \/ /\ Current = Request("set_path_hash_mode", NoContact, "before") /\ run.program.name = "network_trace"
  <2>1. \/ run.todo = ResetScope /\ run.program.name # "network_trace"
        \/ run.todo = ResetHash /\ run.program.name = "network_trace"
    BY <1>3 DEF ProgramOK
  <2>2. \A c, n, v : AskOf(c, n, v).req = Request(c, n, v)
    BY DEF AskOf, Step
  <2> QED BY <2>1, <2>2, RestoreIsOne DEF Current
<1>5. \/ /\ Current.code = "set_flood_scope" /\ Current.value = "default" /\ run.program.name # "network_trace"
      \/ /\ Current.code = "set_path_hash_mode" /\ Current.value = "before" /\ run.program.name = "network_trace"
  BY <1>4 DEF Request
<1>6. ReqOK(Current) /\ Current.value # "malformed"
  BY <1>5 DEF ReqOK
<1> DEFINE R(o) == [run EXCEPT !.doubtful = o.error # "none"]
<1>7. PICK o \in Outcomes(Current) :
          After(o, IF o.error = "none" \/ R(o).error # "none" THEN Advance(R(o))
                   ELSE IF R(o).program.name = "send" THEN Later(R(o), o.error)
                   ELSE Advance([R(o) EXCEPT !.error = o.error]))
  BY DEF Restore
<1>8. /\ o.device \in Devices /\ o.link \in {"down", "up", "lost"} /\ o.link # "down" /\ o.error \in Statuses
      /\ o.error = "none" => Succeeds(Current, Handle(device, Current).replies) /\ o.device = Handle(device, Current).device
  BY <1>3, <1>6, RequestIs
<1>9. o.error = "none" => Undone(run, o.device)
  <2> SUFFICES ASSUME o.error = "none" PROVE Undone(run, o.device)
    OBVIOUS
  <2>1. /\ Current.code = "set_flood_scope" => o.device.scope = Current.value
        /\ Current.code = "set_path_hash_mode" => o.device.hash = Current.value
    BY <1>2, <1>6, <1>8, EffectIs
  <2> QED BY <1>5, <2>1 DEF Undone
<1> DEFINE q == o.error # "none"
           r == [run EXCEPT !.doubtful = q]
           p == IF r.post = "none" THEN o.error ELSE r.post
           u == [r EXCEPT !.post = p]
           w == [r EXCEPT !.error = o.error]
           G == GoalHolds(run.program.goal, o.device, vault)
           z == IF o.error = "none" \/ r.error # "none" THEN Advance(r)
                ELSE IF r.program.name = "send" THEN Later(r, o.error)
                ELSE Advance(w)
<1>10. device' = o.device /\ link' = o.link /\ run' = Looked(z, G)
  BY <1>7, AfterIs
<1>11. Later(r, o.error) = Advance(u)
  BY DEF Later
<1>12. q <=> o.error # "none"
  OBVIOUS
<1> HIDE DEF q, G
<1>13. Like(r, run, {"doubtful"}) /\ r.doubtful = q
  BY <1>2, Updated DEF RunFields
<1> HIDE DEF r
<1>14. r.error = run.error /\ r.post = run.post /\ r.program = run.program /\ DOMAIN r = RunFields /\ r = [f \in RunFields |-> r[f]]
  BY <1>13 DEF Like, RunFields
<1>15. p \in Statuses /\ (p = "none" => r.post = "none" /\ o.error = "none")
  BY <1>3, <1>8, <1>14
<1> HIDE DEF p
<1>16. Like(u, r, {"post"}) /\ u.post = p
  BY <1>14, Updated DEF RunFields
<1>17. Like(w, r, {"error"}) /\ w.error = o.error
  BY <1>14, Updated DEF RunFields
<1> HIDE DEF u, w
<1>18. /\ Like(r, run, {"doubtful", "post", "error"}) /\ Like(u, run, {"doubtful", "post", "error"})
       /\ Like(w, run, {"doubtful", "post", "error"})
  BY <1>13, <1>16, <1>17 DEF Like
<1>19. u.doubtful = q /\ u.error = run.error /\ w.doubtful = q /\ w.post = run.post
  BY <1>13, <1>14, <1>16, <1>17 DEF Like, RunFields
<1>20. RunOK(Looked(z, G), o.link, o.device, taken, consented)
  <2>1. CASE o.error = "none" \/ r.error # "none"
    <3>1. z = Advance(r)
      BY <2>1
    <3>2. r.doubtful => r.error # "none"
      BY <1>12, <1>13, <2>1
    <3>3. ~r.doubtful => Undone(run, o.device)
      BY <1>9, <1>12, <1>13
    <3> QED BY <1>1, <1>2, <1>3, <1>14, <1>18, <3>1, <3>2, <3>3, RestoreEnds
  <2>2. CASE ~(o.error = "none" \/ r.error # "none") /\ r.program.name = "send"
    <3>1. z = Advance(u)
      BY <1>11, <2>2
    <3>2. u.post # "none"
      BY <1>15, <1>16, <2>2
    <3>3. ~u.doubtful => Undone(run, o.device)
      BY <1>9, <1>12, <1>19
    <3> QED BY <1>1, <1>2, <1>15, <1>16, <1>18, <1>19, <3>1, <3>2, <3>3, RestoreEnds
  <2>3. CASE ~(o.error = "none" \/ r.error # "none") /\ r.program.name # "send"
    <3>1. z = Advance(w)
      BY <2>3
    <3>2. w.error \in Statuses \ {"none"} /\ run.error = "none" /\ run.program.name # "send"
      BY <1>8, <1>14, <1>17, <2>3
    <3>3. ~w.doubtful => Undone(run, o.device)
      BY <1>9, <1>12, <1>19
    <3> QED BY <1>1, <1>2, <1>3, <1>18, <1>19, <3>1, <3>2, <3>3, RestoreEnds
  <2> QED BY <2>1, <2>2, <2>3
<1> QED BY <1>1, <1>8, <1>10, <1>20, TypesNow, Preserved

\* The commands in groups.
Plain == {Connect, DeviceInfo, DeviceTelemetry, DeviceReboot, ContactList, ChannelRead, ChannelSet, ChannelRemove, Inbox}
Clocks == {DeviceClock(b) : b \in BOOLEAN}
Adverts == {DeviceAdvertise(b) : b \in BOOLEAN}
Discoveries == {NetworkDiscover(b) : b \in BOOLEAN}
Scopes == {NetworkScope(a) : a \in {"query", "set", "set_default", "clear_default"}}
OfContacts == UNION {ContactCommands(c) \cup Sessions(c) : c \in Contacts}
Sends == {Send(s, c, w) : s \in BOOLEAN, c \in Contacts, w \in BOOLEAN}
Broadcasts == {Send(s, NoContact, FALSE) : s \in BOOLEAN}

LEMMA ProgramsAre == Programs = Plain \cup Clocks \cup Adverts \cup Discoveries \cup Scopes \cup OfContacts \cup Sends \cup Broadcasts
BY DEF Programs, Plain, Clocks, Adverts, Discoveries, Scopes, OfContacts, Sends, Broadcasts

-----------------------------------------------------------------------------
(* The programs.                                                           *)

\* The steps of most commands, those of them that destroy nothing, and the steps before a connection.
PlainKinds == {"check", "confirm", "ask", "set", "differ", "session", "hook", "resolve", "readback", "collect", "print", "forget"}
Simple == {s \in AnyStep : StepOK(s) /\ s.do \in PlainKinds}
Harmless == {s \in Simple : ~Destructive(s.req)}
LocalSteps == {s \in AnyStep : s.do \in LocalKinds}

LEMMA ConcatIs ==
    ASSUME NEW a \in Seq(AnyStep), NEW b \in Seq(AnyStep)
    PROVE  /\ a \o b \in Seq(AnyStep) /\ Len(a) \in Nat /\ Len(b) \in Nat /\ Len(a \o b) = Len(a) + Len(b)
           /\ \A n \in 1 .. Len(a) : n \in 1 .. Len(a \o b) /\ (a \o b)[n] = a[n]
           /\ \A n \in 1 .. Len(b) : n + Len(a) \in 1 .. Len(a \o b) /\ (a \o b)[n + Len(a)] = b[n]
           /\ \A n \in 1 .. Len(a \o b) : \/ n \in 1 .. Len(a) /\ (a \o b)[n] = a[n]
                                          \/ n - Len(a) \in 1 .. Len(b) /\ (a \o b)[n] = b[n - Len(a)] /\ n > Len(a)
<1> HIDE DEF AnyStep
<1>1. a \o b \in Seq(AnyStep) /\ Len(a) \in Nat /\ Len(b) \in Nat /\ Len(a \o b) = Len(a) + Len(b)
  OBVIOUS
<1>2. \A n \in 1 .. Len(a) : n \in 1 .. Len(a \o b) /\ (a \o b)[n] = a[n]
  BY <1>1
<1>3. \A n \in 1 .. Len(b) : n + Len(a) \in 1 .. Len(a \o b) /\ (a \o b)[n + Len(a)] = b[n]
  BY <1>1
<1>4. \A n \in 1 .. Len(a \o b) : \/ n \in 1 .. Len(a) /\ (a \o b)[n] = a[n]
                                  \/ n - Len(a) \in 1 .. Len(b) /\ (a \o b)[n] = b[n - Len(a)] /\ n > Len(a)
  BY <1>1
<1> QED BY <1>1, <1>2, <1>3, <1>4

LEMMA ConcatHas ==
    ASSUME NEW a \in Seq(AnyStep), NEW b \in Seq(AnyStep), NEW k, Has(a, k) \/ Has(b, k)
    PROVE  Has(a \o b, k)
<1>1. CASE Has(a, k)
  <2>1. PICK n \in 1 .. Len(a) : a[n].do = k
    BY <1>1 DEF Has
  <2>2. n \in 1 .. Len(a \o b) /\ (a \o b)[n] = a[n]
    BY ConcatIs
  <2> QED BY <2>1, <2>2 DEF Has
<1>2. CASE Has(b, k)
  <2>1. PICK n \in 1 .. Len(b) : b[n].do = k
    BY <1>2 DEF Has
  <2>2. n + Len(a) \in 1 .. Len(a \o b) /\ (a \o b)[n + Len(a)] = b[n]
    BY ConcatIs
  <2> QED BY <2>1, <2>2 DEF Has
<1> QED BY <1>1, <1>2

LEMMA ConcatAchieves ==
    ASSUME NEW a \in Seq(AnyStep), NEW b \in Seq(AnyStep), NEW g,
           (\E n \in 1 .. Len(a) : Achieves(a[n], g)) \/ (\E n \in 1 .. Len(b) : Achieves(b[n], g))
    PROVE  \E n \in 1 .. Len(a \o b) : Achieves((a \o b)[n], g)
<1>1. CASE \E n \in 1 .. Len(a) : Achieves(a[n], g)
  <2>1. PICK n \in 1 .. Len(a) : Achieves(a[n], g)
    BY <1>1
  <2>2. n \in 1 .. Len(a \o b) /\ (a \o b)[n] = a[n]
    BY ConcatIs
  <2> QED BY <2>1, <2>2
<1>2. CASE \E n \in 1 .. Len(b) : Achieves(b[n], g)
  <2>1. PICK n \in 1 .. Len(b) : Achieves(b[n], g)
    BY <1>2
  <2>2. n + Len(a) \in 1 .. Len(a \o b) /\ (a \o b)[n + Len(a)] = b[n]
    BY ConcatIs
  <2> QED BY <2>1, <2>2
<1> QED BY <1>1, <1>2

LEMMA ConcatGuarded ==
    ASSUME NEW a \in Seq(AnyStep), NEW b \in Seq(AnyStep), Guarded(a), Guarded(b) \/ Has(a, "confirm")
    PROVE  Guarded(a \o b)
<1> SUFFICES ASSUME NEW n \in 1 .. Len(a \o b), Destructive((a \o b)[n].req)
             PROVE  \E m \in 1 .. Len(a \o b) : m < n /\ (a \o b)[m].do = "confirm"
  BY DEF Guarded
<1>1. Len(a) \in Nat /\ Len(b) \in Nat
  BY ConcatIs
<1>2. CASE n \in 1 .. Len(a) /\ (a \o b)[n] = a[n]
  <2>1. PICK m \in 1 .. Len(a) : m < n /\ a[m].do = "confirm"
    BY <1>2 DEF Guarded
  <2>2. m \in 1 .. Len(a \o b) /\ (a \o b)[m] = a[m]
    BY ConcatIs
  <2> QED BY <2>1, <2>2
<1>3. CASE n - Len(a) \in 1 .. Len(b) /\ (a \o b)[n] = b[n - Len(a)] /\ n > Len(a)
  <2>1. CASE Has(a, "confirm")
    <3>1. PICK m \in 1 .. Len(a) : a[m].do = "confirm"
      BY <2>1 DEF Has
    <3>2. m \in 1 .. Len(a \o b) /\ (a \o b)[m] = a[m]
      BY ConcatIs
    <3>3. m < n
      BY <1>1, <1>3
    <3> QED BY <3>1, <3>2, <3>3
  <2>2. CASE Guarded(b)
    <3>1. PICK m \in 1 .. Len(b) : m < n - Len(a) /\ b[m].do = "confirm"
      BY <1>3, <2>2 DEF Guarded
    <3>2. m + Len(a) \in 1 .. Len(a \o b) /\ (a \o b)[m + Len(a)] = b[m]
      BY ConcatIs
    <3>3. m + Len(a) < n
      BY <1>1, <1>3, <3>1
    <3> QED BY <3>1, <3>2, <3>3
  <2> QED BY <2>1, <2>2
<1> QED BY <1>2, <1>3, ConcatIs

LEMMA HarmlessSeq ==
    ASSUME NEW w \in Seq(Harmless)
    PROVE  w \in Seq(Simple) /\ w \in Seq(AnyStep) /\ Guarded(w)
<1>1. Harmless \subseteq Simple /\ Simple \subseteq AnyStep /\ \A s \in Harmless : ~Destructive(s.req)
  BY DEF Harmless, Simple
<1> HIDE DEF Harmless, Simple, AnyStep
<1>2. w \in Seq(Simple) /\ w \in Seq(AnyStep) /\ \A n \in 1 .. Len(w) : w[n] \in Harmless
  BY <1>1
<1> QED BY <1>1, <1>2 DEF Guarded

LEMMA SimpleSeq ==
    ASSUME NEW w \in Seq(Simple)
    PROVE  w \in Seq(AnyStep) /\ WorkOK(w) /\ Only(w, WorkKinds \ SendKinds) /\ Only(w, WorkKinds \ {"drain"})
<1>1. Simple \subseteq AnyStep /\ \A s \in Simple : StepOK(s) /\ s.do \in PlainKinds
  BY DEF Simple
<1>2. PlainKinds \subseteq (WorkKinds \ SendKinds) /\ PlainKinds \subseteq (WorkKinds \ {"drain"}) /\ PlainKinds \subseteq WorkKinds
  BY DEF PlainKinds, WorkKinds, SendKinds, AskKinds, ContactKinds, OtherKinds
<1>3. "write" \notin PlainKinds /\ "save" \notin PlainKinds /\ "login" \notin PlainKinds
  BY DEF PlainKinds
<1> HIDE DEF Simple, AnyStep, PlainKinds
<1>4. w \in Seq(AnyStep) /\ \A n \in 1 .. Len(w) : w[n] \in Simple
  BY <1>1
<1>5. \A n \in 1 .. Len(w) : StepOK(w[n]) /\ w[n].do \in PlainKinds
  BY <1>1, <1>4
<1>6. Behind(w, "write", "row") /\ Behind(w, "save", "login") /\ Then(w, "login", {"save"})
  BY <1>3, <1>5 DEF Behind, Then
<1>7. Only(w, WorkKinds \ SendKinds) /\ Only(w, WorkKinds \ {"drain"}) /\ Only(w, WorkKinds)
  BY <1>2, <1>5 DEF Only
<1> QED BY <1>4, <1>5, <1>6, <1>7 DEF WorkOK

LEMMA LocalSeq ==
    ASSUME NEW w \in Seq(LocalSteps)
    PROVE  w \in Seq(AnyStep) /\ Only(w, LocalKinds)
<1>1. LocalSteps \subseteq AnyStep /\ \A s \in LocalSteps : s.do \in LocalKinds
  BY DEF LocalSteps
<1> HIDE DEF LocalSteps, AnyStep
<1>2. w \in Seq(AnyStep) /\ \A n \in 1 .. Len(w) : w[n] \in LocalSteps
  BY <1>1
<1> QED BY <1>1, <1>2 DEF Only

\* A command of one of the three shapes.
LEMMA FramedOK ==
    ASSUME NEW name, name # "send", name # "inbox", NEW local \in Seq(LocalSteps), NEW work \in Seq(AnyStep), WorkOK(work),
           Only(work, WorkKinds \ SendKinds), Only(work, WorkKinds \ {"drain"}), NEW goal,
           goal = NoGoal \/ \E n \in 1 .. Len(work) : Achieves(work[n], goal),
           Has(local, "confirm") \/ Guarded(work)
    PROVE  /\ ProgramOK(Framed(name, local, work, goal))
           /\ name # "network_trace" => ProgramOK(Restoring(Framed(name, local, work, goal), ResetScope))
           /\ name = "network_trace" => ProgramOK(Restoring(Framed(name, local, work, goal), ResetHash))
           /\ name # "none" => ProgramOK([Framed(name, local, work, goal) EXCEPT !.style = "workflow"])
<1> DEFINE p == Framed(name, local, work, goal)
           q == Restoring(p, ResetScope)
           h == Restoring(p, ResetHash)
           f == [p EXCEPT !.style = "workflow"]
           Same(x) == /\ DOMAIN x = ProgramFields /\ x.name = name /\ x.local = local /\ x.work = work /\ x.inside = FALSE
                      /\ x.goal = goal /\ x.style \in {"session", "workflow"}
           Undoes(x) == \/ x.restore = <<>>
                        \/ x.restore = ResetScope /\ name # "network_trace"
                        \/ x.restore = ResetHash /\ name = "network_trace"
<1>1. local \in Seq(AnyStep) /\ Only(local, LocalKinds)
  BY LocalSeq
<1>2. Same(p) /\ Undoes(p)
  <2>1. Same(p)
    BY DEF Framed, ProgramFields
  <2>2. p.restore = <<>>
    BY DEF Framed
  <2> HIDE DEF p, Same
  <2>3. Undoes(p)
    BY <2>2
  <2> QED BY <2>1, <2>3
<1>3. Same(q) /\ (name # "network_trace" => Undoes(q))
  BY DEF Framed, Restoring, ProgramFields
<1>4. Same(h) /\ (name = "network_trace" => Undoes(h))
  BY DEF Framed, Restoring, ProgramFields
<1>5. Same(f) /\ Undoes(f)
  <2>1. Same(f)
    BY DEF Framed, ProgramFields
  <2>2. f.restore = <<>>
    BY DEF Framed
  <2> HIDE DEF f, Same
  <2>3. Undoes(f)
    BY <2>2
  <2> QED BY <2>1, <2>3
<1>6. ASSUME NEW x, Same(x), Undoes(x)
      PROVE  ProgramOK(x)
  <2> HIDE DEF AnyStep, p, q, h, f
  <2> QED BY <1>1, <1>6 DEF ProgramOK
<1> HIDE DEF p, q, h, f, Same, Undoes
<1>7. ProgramOK(p)
  BY <1>2, <1>6
<1>8. name # "network_trace" => ProgramOK(q)
  BY <1>3, <1>6
<1>9. name = "network_trace" => ProgramOK(h)
  BY <1>4, <1>6
<1>10. ProgramOK(f)
  BY <1>5, <1>6
<1> QED BY <1>7, <1>8, <1>9, <1>10 DEF p, q, h, f

LEMMA ConcatOnly ==
    ASSUME NEW a \in Seq(AnyStep), NEW b \in Seq(AnyStep), NEW K, Only(a, K), Only(b, K)
    PROVE  Only(a \o b, K)
<1> SUFFICES ASSUME NEW n \in 1 .. Len(a \o b) PROVE (a \o b)[n].do \in K
  BY DEF Only
<1>1. CASE n \in 1 .. Len(a) /\ (a \o b)[n] = a[n]
  BY <1>1 DEF Only
<1>2. CASE n - Len(a) \in 1 .. Len(b) /\ (a \o b)[n] = b[n - Len(a)] /\ n > Len(a)
  BY <1>2 DEF Only
<1> QED BY <1>1, <1>2, ConcatIs

LEMMA ConcatSteps ==
    ASSUME NEW a \in Seq(AnyStep), NEW b \in Seq(AnyStep), \A n \in 1 .. Len(a) : StepOK(a[n]), \A n \in 1 .. Len(b) : StepOK(b[n])
    PROVE  \A n \in 1 .. Len(a \o b) : StepOK((a \o b)[n])
<1> SUFFICES ASSUME NEW n \in 1 .. Len(a \o b) PROVE StepOK((a \o b)[n])
  OBVIOUS
<1>1. CASE n \in 1 .. Len(a) /\ (a \o b)[n] = a[n]
  BY <1>1
<1>2. CASE n - Len(a) \in 1 .. Len(b) /\ (a \o b)[n] = b[n - Len(a)] /\ n > Len(a)
  BY <1>2
<1> QED BY <1>1, <1>2, ConcatIs

LEMMA ConcatBehind ==
    ASSUME NEW a \in Seq(AnyStep), NEW b \in Seq(AnyStep), NEW k, NEW j, Behind(a, k, j), Behind(b, k, j) \/ Has(a, j)
    PROVE  Behind(a \o b, k, j)
<1> SUFFICES ASSUME NEW n \in 1 .. Len(a \o b), (a \o b)[n].do = k
             PROVE  \E m \in 1 .. Len(a \o b) : m < n /\ (a \o b)[m].do = j
  BY DEF Behind
<1>1. Len(a) \in Nat /\ Len(b) \in Nat
  BY ConcatIs
<1>2. CASE n \in 1 .. Len(a) /\ (a \o b)[n] = a[n]
  <2>1. PICK m \in 1 .. Len(a) : m < n /\ a[m].do = j
    BY <1>2 DEF Behind
  <2>2. m \in 1 .. Len(a \o b) /\ (a \o b)[m] = a[m]
    BY ConcatIs
  <2> QED BY <2>1, <2>2
<1>3. CASE n - Len(a) \in 1 .. Len(b) /\ (a \o b)[n] = b[n - Len(a)] /\ n > Len(a)
  <2>1. CASE Has(a, j)
    <3>1. PICK m \in 1 .. Len(a) : a[m].do = j
      BY <2>1 DEF Has
    <3>2. m \in 1 .. Len(a \o b) /\ (a \o b)[m] = a[m]
      BY ConcatIs
    <3>3. m < n
      BY <1>1, <1>3
    <3> QED BY <3>1, <3>2, <3>3
  <2>2. CASE Behind(b, k, j)
    <3>1. PICK m \in 1 .. Len(b) : m < n - Len(a) /\ b[m].do = j
      BY <1>3, <2>2 DEF Behind
    <3>2. m + Len(a) \in 1 .. Len(a \o b) /\ (a \o b)[m + Len(a)] = b[m]
      BY ConcatIs
    <3>3. m + Len(a) < n
      BY <1>1, <1>3, <3>1
    <3> QED BY <3>1, <3>2, <3>3
  <2> QED BY <2>1, <2>2
<1> QED BY <1>2, <1>3, ConcatIs

LEMMA ConcatThen ==
    ASSUME NEW a \in Seq(AnyStep), NEW b \in Seq(AnyStep), NEW k, NEW K, Then(a, k, K), Then(b, k, K), ~Has(a, k) \/ Only(b, K)
    PROVE  Then(a \o b, k, K)
<1> SUFFICES ASSUME NEW m \in 1 .. Len(a \o b), NEW n \in 1 .. Len(a \o b), m < n, (a \o b)[m].do = k
             PROVE  (a \o b)[n].do \in K
  BY DEF Then
<1>1. Len(a) \in Nat /\ Len(b) \in Nat
  BY ConcatIs
<1>2. CASE n \in 1 .. Len(a) /\ (a \o b)[n] = a[n]
  <2>1. m \in 1 .. Len(a)
    BY <1>1, <1>2
  <2>2. (a \o b)[m] = a[m]
    BY <2>1, ConcatIs
  <2> QED BY <1>2, <2>1, <2>2 DEF Then
<1>3. CASE n - Len(a) \in 1 .. Len(b) /\ (a \o b)[n] = b[n - Len(a)] /\ n > Len(a)
  <2>1. CASE m \in 1 .. Len(a) /\ (a \o b)[m] = a[m]
    <3>1. Has(a, k)
      BY <2>1 DEF Has
    <3> QED BY <1>3, <3>1 DEF Only
  <2>2. CASE m - Len(a) \in 1 .. Len(b) /\ (a \o b)[m] = b[m - Len(a)] /\ m > Len(a)
    <3>1. m - Len(a) < n - Len(a)
      BY <1>1
    <3> QED BY <1>3, <2>2, <3>1 DEF Then
  <2> QED BY <2>1, <2>2, ConcatIs
<1> QED BY <1>2, <1>3, ConcatIs

LEMMA ConcatWork ==
    ASSUME NEW a \in Seq(AnyStep), NEW b \in Seq(AnyStep), WorkOK(a), ~Has(a, "login"),
           \A n \in 1 .. Len(b) : StepOK(b[n]), Only(b, WorkKinds), Behind(b, "save", "login"), Then(b, "login", {"save"}),
           Behind(b, "write", "row") \/ Has(a, "row")
    PROVE  a \o b \in Seq(AnyStep) /\ WorkOK(a \o b)
<1>1. a \o b \in Seq(AnyStep)
  BY ConcatIs
<1>2. \A n \in 1 .. Len(a \o b) : StepOK((a \o b)[n])
  BY ConcatSteps DEF WorkOK
<1>3. Only(a \o b, WorkKinds)
  BY ConcatOnly DEF WorkOK
<1>4. Behind(a \o b, "write", "row") /\ Behind(a \o b, "save", "login")
  BY ConcatBehind DEF WorkOK
<1>5. Then(a \o b, "login", {"save"})
  BY ConcatThen DEF WorkOK
<1> QED BY <1>1, <1>2, <1>3, <1>4, <1>5 DEF WorkOK

\* The steps that most commands are made of.
LEMMA StepHas ==
    ASSUME NEW do, NEW code, NEW contact, NEW value
    PROVE  LET s == Step(do, code, contact, value)
           IN /\ s.do = do /\ s.req.code = code /\ s.req.contact = contact /\ s.req.value = value
              /\ do \in LocalKinds \cup WorkKinds /\ code \in Codes /\ contact \in Contacts \cup {NoContact} /\ value \in Values
                   => s \in AnyStep
BY DEF Step, Request, AnyStep, Requests

LEMMA LocalIs ==
    /\ \A k \in {"check", "confirm", "hook", "readback", "collect", "print"} : Local(k) \in Harmless /\ Local(k).do = k
    /\ Local("check") \in LocalSteps /\ Local("confirm") \in LocalSteps /\ Local("gate") \in LocalSteps
<1>1. "none" \in Codes /\ "none" \in Values
  BY DEF Codes, Values
<1>2. {"check", "confirm", "hook", "readback", "collect", "print"} \cup {"gate"} \subseteq LocalKinds \cup WorkKinds
  BY DEF LocalKinds, WorkKinds, OtherKinds
<1>3. ASSUME NEW k \in {"check", "confirm", "hook", "readback", "collect", "print"} \cup {"gate"}
      PROVE  Local(k) \in AnyStep /\ Local(k).do = k /\ Local(k).req.code = "none"
  BY <1>1, <1>2, StepHas DEF Local
<1>4. ASSUME NEW k \in {"check", "confirm", "hook", "readback", "collect", "print"}
      PROVE  Local(k) \in Harmless
  <2> HIDE DEF AnyStep
  <2>1. k \in PlainKinds /\ k \notin AskKinds /\ k \notin ContactKinds /\ k \notin {"row", "write", "login", "drain"}
    BY DEF PlainKinds, AskKinds, ContactKinds
  <2>2. StepOK(Local(k))
    BY <1>3, <2>1 DEF StepOK
  <2> QED BY <1>3, <2>1, <2>2 DEF Harmless, Simple, Destructive
<1>5. Local("check") \in LocalSteps /\ Local("confirm") \in LocalSteps /\ Local("gate") \in LocalSteps
  <2> HIDE DEF AnyStep
  <2> QED BY <1>3 DEF LocalSteps, LocalKinds
<1> QED BY <1>3, <1>4, <1>5

\* Requests that destroy nothing and carry no value that the device keeps.
Quiet ==
    {"list_contacts", "query_device_info", "get_battery", "get_self_telemetry", "get_time", "send_self_advert",
     "send_node_discovery", "get_default_flood_scope", "get_path_hash_mode", "discover_path", "export_contact",
     "get_advert_path", "get_channel", "logout", "remote_status", "binary_request", "anonymous_request"}

LEMMA QuietIs ==
    ASSUME NEW code \in Quiet, NEW contact \in Contacts \cup {NoContact}, NEW value \in {"none", "known"}
    PROVE  AskOf(code, contact, value) \in Harmless
<1> DEFINE s == AskOf(code, contact, value)
<1>1. code \in Codes /\ value \in Values /\ "ask" \in LocalKinds \cup WorkKinds
  BY DEF Quiet, Codes, Values, WorkKinds, AskKinds
<1>2. s \in AnyStep /\ s.do = "ask" /\ s.req.code = code
  BY <1>1, StepHas DEF AskOf
<1> HIDE DEF s
<1>3. "ask" \in PlainKinds /\ "ask" \notin ContactKinds
  BY DEF PlainKinds, ContactKinds
<1>4. ReqOK(s.req) /\ ~Destructive(s.req)
  BY <1>2 DEF Quiet, ReqOK, Destructive
<1> HIDE DEF AnyStep
<1>5. StepOK(s)
  BY <1>2, <1>3, <1>4 DEF StepOK
<1>6. s \in Simple
  BY <1>2, <1>3, <1>5 DEF Simple
<1> QED BY <1>4, <1>6 DEF Harmless, s

LEMMA AskIs ==
    ASSUME NEW code \in Quiet
    PROVE  Ask(code) \in Harmless
<1>1. Ask(code) = AskOf(code, NoContact, "none")
  BY DEF Ask, AskOf
<1> QED BY <1>1, QuietIs

\* The other requests, by kind of step, and whether they destroy something.
LEMMA RequestStep ==
    ASSUME NEW do \in {"ask", "set", "differ", "session", "resolve", "forget"}, NEW code \in Codes,
           NEW contact \in Contacts \cup {NoContact}, NEW value \in Values, do = "forget" => contact \in Contacts,
           \/ do \in {"resolve", "forget"} /\ code = "none"
           \/ code = "set_time" /\ value = "host"
           \/ code \in {"set_channel", "clear_channel"} /\ value \in {"empty", "second"}
           \/ code = "set_flood_scope" /\ value \in {"default", "temporary", "chosen"}
           \/ code = "set_default_flood_scope" /\ value \in {"none", "named"}
           \/ code = "set_path_hash_mode" /\ value \in {"before", "requested"}
           \/ code = "import_contact" /\ contact \in Contacts
           \/ code \in {"reboot", "remove_contact", "reset_path", "has_connection", "send_direct_command"}
    PROVE  LET s == Step(do, code, contact, value)
           IN /\ s \in Simple
              /\ code \notin {"remove_contact", "reset_path", "clear_channel", "reboot"} /\ (code = "send_direct_command" => value # "destructive")
                   => s \in Harmless
<1> DEFINE s == Step(do, code, contact, value)
<1>1. do \in LocalKinds \cup WorkKinds /\ do \in PlainKinds /\ do \notin {"row", "write", "login", "drain"}
  BY DEF PlainKinds, WorkKinds, AskKinds, OtherKinds, ContactKinds
<1>2. s \in AnyStep /\ s.do = do /\ s.req.code = code /\ s.req.contact = contact /\ s.req.value = value
  BY <1>1, StepHas
<1> HIDE DEF s
<1>3. do \in AskKinds => code # "none" \/ do \notin {"resolve", "forget"}
  BY DEF AskKinds
<1>4. ReqOK(s.req)
  BY <1>2 DEF ReqOK
<1>5. do \in ContactKinds => contact \in Contacts
  BY DEF ContactKinds
<1>6. code \notin {"remove_contact", "reset_path", "clear_channel", "reboot"} /\ (code = "send_direct_command" => value # "destructive")
        => ~Destructive(s.req)
  BY <1>2 DEF Destructive
<1> HIDE DEF AnyStep
<1>7. StepOK(s)
  BY <1>1, <1>2, <1>4, <1>5 DEF StepOK
<1>8. s \in Simple
  BY <1>1, <1>2, <1>7 DEF Simple
<1>9. code \notin {"remove_contact", "reset_path", "clear_channel", "reboot"} /\ (code = "send_direct_command" => value # "destructive")
        => s \in Harmless
  BY <1>6, <1>8 DEF Harmless
<1> QED BY <1>8, <1>9 DEF s

LEMMA ConfirmIs ==
    /\ Confirm \in Seq(LocalSteps) /\ Confirm \in Seq(Harmless) /\ Confirm \in Seq(AnyStep) /\ Has(Confirm, "confirm")
    /\ <<>> \in Seq(LocalSteps) /\ <<>> \in Seq(Harmless) /\ <<Local("check")>> \in Seq(LocalSteps)
<1>1. Local("confirm") \in LocalSteps /\ Local("confirm") \in Harmless /\ Local("confirm").do = "confirm" /\ Local("check") \in LocalSteps
  BY LocalIs
<1> HIDE DEF LocalSteps, Harmless
<1>2. Confirm \in Seq(LocalSteps) /\ Confirm \in Seq(Harmless)
  BY <1>1 DEF Confirm
<1>3. Has(Confirm, "confirm")
  BY <1>1 DEF Has, Confirm
<1> QED BY <1>1, <1>2, <1>3, HarmlessSeq

LEMMA ContactSteps ==
    ASSUME NEW c \in Contacts
    PROVE  ListAndResolve(c) \in Seq(Harmless) /\ RequireSession(c) \in Seq(Harmless)
<1>1. Ask("list_contacts") \in Harmless
  BY AskIs DEF Quiet
<1>2. Step("resolve", "none", c, "none") \in Harmless /\ Step("session", "has_connection", c, "none") \in Harmless
  BY RequestStep DEF Codes, Values
<1> HIDE DEF Harmless
<1> QED BY <1>1, <1>2 DEF ListAndResolve, RequireSession

LEMMA NoLogin ==
    ASSUME NEW w \in Seq(Simple)
    PROVE  ~Has(w, "login") /\ ~Has(w, "row") /\ ~Has(w, "save")
<1>1. \A s \in Simple : s.do \notin {"login", "row", "save"}
  BY DEF Simple, PlainKinds
<1> HIDE DEF Simple
<1>2. \A n \in 1 .. Len(w) : w[n] \in Simple
  OBVIOUS
<1> QED BY <1>1, <1>2 DEF Has

\* A command that prints before it closes.
LEMMA InsideOK ==
    ASSUME NEW p, ProgramOK(p), p.name \notin {"send", "inbox"}, ~Has(p.work, "login")
    PROVE  ProgramOK(PrintedInside(p))
<1> DEFINE q == PrintedInside(p)
           last == <<Local("print")>>
           w == p.work \o last
<1>1. Local("print") \in Harmless /\ Local("print").do = "print"
  BY LocalIs
<1>2. last \in Seq(Harmless) /\ Has(last, "print")
  <2> HIDE DEF Harmless
  <2>1. last \in Seq(Harmless) /\ Len(last) = 1 /\ last[1].do = "print"
    BY <1>1
  <2> QED BY <2>1 DEF Has
<1>3. p.work \in Seq(AnyStep) /\ last \in Seq(AnyStep) /\ last \in Seq(Simple) /\ Guarded(last)
  BY <1>2, HarmlessSeq DEF ProgramOK
<1>4. WorkOK(last) /\ Only(last, WorkKinds \ SendKinds) /\ Only(last, WorkKinds \ {"drain"})
  BY <1>3, SimpleSeq
<1> HIDE DEF last
<1>5. w \in Seq(AnyStep) /\ WorkOK(w)
  <2>1. WorkOK(p.work)
    BY DEF ProgramOK
  <2>2. \A n \in 1 .. Len(last) : StepOK(last[n])
    BY <1>4 DEF WorkOK
  <2>3. Only(last, WorkKinds) /\ Behind(last, "save", "login") /\ Then(last, "login", {"save"}) /\ Behind(last, "write", "row")
    BY <1>4 DEF WorkOK
  <2> QED BY <1>3, <2>1, <2>2, <2>3, ConcatWork
<1>6. Has(w, "print")
  BY <1>2, <1>3, ConcatHas
<1>7. p.goal = NoGoal \/ \E n \in 1 .. Len(w) : Achieves(w[n], p.goal)
  <2>1. CASE p.goal = NoGoal
    BY <2>1
  <2>2. CASE \E n \in 1 .. Len(p.work) : Achieves(p.work[n], p.goal)
    BY <1>3, <2>2, ConcatAchieves
  <2> QED BY <2>1, <2>2 DEF ProgramOK
<1>8. Has(p.local, "confirm") \/ Guarded(w)
  BY <1>3, ConcatGuarded DEF ProgramOK
<1>9. Only(w, WorkKinds \ SendKinds) /\ Only(w, WorkKinds \ {"drain"})
  BY <1>3, <1>4, ConcatOnly DEF ProgramOK
<1>10. /\ DOMAIN p = ProgramFields /\ p.style \in {"session", "workflow"} /\ p.local \in Seq(AnyStep) /\ Only(p.local, LocalKinds)
       /\ \/ p.restore = <<>>
          \/ p.restore = ResetScope /\ p.name # "network_trace"
          \/ p.restore = ResetHash /\ p.name = "network_trace"
  BY DEF ProgramOK
<1> HIDE DEF w
<1>11. /\ DOMAIN q = ProgramFields /\ q.style = p.style /\ q.local = p.local /\ q.restore = p.restore /\ q.name = p.name
       /\ q.inside = TRUE /\ q.goal = p.goal /\ q.work = w
  BY <1>10 DEF PrintedInside, ProgramFields, w, last
<1> HIDE DEF q
<1>12. ProgramOK(q)
  BY <1>5, <1>6, <1>7, <1>8, <1>9, <1>10, <1>11 DEF ProgramOK
<1> QED BY <1>12 DEF q

\* Commands of harmless steps, and of steps that a confirmation before the connection guards.
LEMMA HarmlessOK ==
    ASSUME NEW name, name \notin {"send", "inbox", "none"}, NEW local \in Seq(LocalSteps), NEW work \in Seq(Harmless), NEW goal,
           goal = NoGoal \/ \E n \in 1 .. Len(work) : Achieves(work[n], goal)
    PROVE  /\ ProgramOK(Framed(name, local, work, goal))
           /\ ProgramOK(PrintedInside(Framed(name, local, work, goal)))
           /\ name # "network_trace" => ProgramOK(Restoring(Framed(name, local, work, goal), ResetScope))
           /\ name = "network_trace" => ProgramOK(Restoring(Framed(name, local, work, goal), ResetHash))
           /\ ProgramOK([Framed(name, local, work, goal) EXCEPT !.style = "workflow"])
<1>1. work \in Seq(Simple) /\ work \in Seq(AnyStep) /\ Guarded(work)
  BY HarmlessSeq
<1>2. WorkOK(work) /\ Only(work, WorkKinds \ SendKinds) /\ Only(work, WorkKinds \ {"drain"})
  BY <1>1, SimpleSeq
<1> DEFINE p == Framed(name, local, work, goal)
<1>3. /\ ProgramOK(p)
      /\ name # "network_trace" => ProgramOK(Restoring(p, ResetScope))
      /\ name = "network_trace" => ProgramOK(Restoring(p, ResetHash))
      /\ ProgramOK([p EXCEPT !.style = "workflow"])
  BY <1>1, <1>2, FramedOK
<1>4. p.name = name /\ p.work = work
  BY DEF Framed
<1>5. ~Has(work, "login")
  BY <1>1, NoLogin
<1> HIDE DEF p
<1>6. ProgramOK(PrintedInside(p))
  BY <1>3, <1>4, <1>5, InsideOK
<1> QED BY <1>3, <1>6 DEF p

LEMMA SimpleOK ==
    ASSUME NEW name, name \notin {"send", "inbox", "none"}, NEW local \in Seq(LocalSteps), NEW work \in Seq(Simple), NEW goal,
           goal = NoGoal \/ \E n \in 1 .. Len(work) : Achieves(work[n], goal), Has(local, "confirm") \/ Guarded(work)
    PROVE  /\ ProgramOK(Framed(name, local, work, goal))
           /\ ProgramOK(PrintedInside(Framed(name, local, work, goal)))
<1>1. work \in Seq(AnyStep) /\ WorkOK(work) /\ Only(work, WorkKinds \ SendKinds) /\ Only(work, WorkKinds \ {"drain"})
  BY SimpleSeq
<1> DEFINE p == Framed(name, local, work, goal)
<1>2. ProgramOK(p)
  BY <1>1, FramedOK
<1>3. p.name = name /\ p.work = work
  BY DEF Framed
<1>4. ~Has(work, "login")
  BY NoLogin
<1> HIDE DEF p
<1>5. ProgramOK(PrintedInside(p))
  BY <1>2, <1>3, <1>4, InsideOK
<1> QED BY <1>2, <1>5 DEF p

LEMMA PlainReadsOK ==
    /\ ProgramOK(NoProgram) /\ ProgramOK(Connect) /\ ProgramOK(DeviceInfo) /\ ProgramOK(DeviceTelemetry) /\ ProgramOK(ContactList)
    /\ ProgramOK(ChannelRead) /\ \A b \in BOOLEAN : ProgramOK(NetworkDiscover(b))
    /\ \A b \in BOOLEAN : ProgramOK(DeviceAdvertise(b))
<1> USE ConfirmIs
<1>1. \A k \in Quiet : Ask(k) \in Harmless
  BY AskIs
<1>2. /\ Ask("query_device_info") \in Harmless /\ Ask("get_battery") \in Harmless /\ Ask("get_self_telemetry") \in Harmless
      /\ Ask("list_contacts") \in Harmless /\ Ask("get_channel") \in Harmless /\ Ask("send_node_discovery") \in Harmless
      /\ Ask("send_self_advert") \in Harmless
  BY <1>1 DEF Quiet
<1>3. Local("check") \in Harmless /\ Local("collect") \in Harmless
  BY LocalIs
<1>4. Step("set", "set_flood_scope", NoContact, "temporary") \in Harmless
  BY RequestStep DEF Codes, Values
<1> HIDE DEF Harmless, LocalSteps
<1>5. ProgramOK(NoProgram)
  <2>1. <<>> \in Seq(AnyStep) /\ WorkOK(<<>>) /\ Only(<<>>, WorkKinds \ SendKinds) /\ Only(<<>>, WorkKinds \ {"drain"}) /\ Guarded(<<>>)
    BY HarmlessSeq, SimpleSeq
  <2> QED BY <2>1, FramedOK DEF NoProgram
<1>6. ProgramOK(Connect)
  BY HarmlessOK DEF Connect
<1>7. ProgramOK(DeviceInfo)
  <2>1. <<Ask("query_device_info")>> \in Seq(Harmless)
    BY <1>2
  <2> QED BY <2>1, HarmlessOK DEF DeviceInfo
<1>8. ProgramOK(DeviceTelemetry)
  <2>1. <<Ask("get_battery"), Ask("get_self_telemetry")>> \in Seq(Harmless)
    BY <1>2
  <2> QED BY <2>1, HarmlessOK DEF DeviceTelemetry
<1>9. ProgramOK(ContactList)
  <2>1. <<Ask("list_contacts")>> \in Seq(Harmless)
    BY <1>2
  <2> QED BY <2>1, HarmlessOK DEF ContactList
<1>10. ProgramOK(ChannelRead)
  <2>1. CollectChannelViews \in Seq(Harmless) /\ <<Local("check")>> \in Seq(Harmless)
    BY <1>2, <1>3 DEF CollectChannelViews
  <2>2. CollectChannelViews \o <<Local("check")>> \in Seq(Harmless)
    BY <2>1
  <2> QED BY <2>2, HarmlessOK DEF ChannelRead
<1>11. ASSUME NEW b \in BOOLEAN PROVE ProgramOK(NetworkDiscover(b))
  <2> DEFINE ask == <<Ask("send_node_discovery"), Local("collect")>>
             first == <<Step("set", "set_flood_scope", NoContact, "temporary")>>
  <2>1. ask \in Seq(Harmless) /\ first \in Seq(Harmless)
    BY <1>2, <1>3, <1>4
  <2> HIDE DEF ask, first
  <2>2. first \o ask \in Seq(Harmless)
    BY <2>1
  <2>3. CASE b
    <3>1. ProgramOK(Restoring(Framed("network_discover", <<Local("check")>>, first \o ask, NoGoal), ResetScope))
      BY <2>2, HarmlessOK
    <3> QED BY <2>3, <3>1 DEF NetworkDiscover, first, ask
  <2>4. CASE ~b
    <3>1. ProgramOK(Framed("network_discover", <<>>, ask, NoGoal))
      BY <2>1, HarmlessOK
    <3> QED BY <2>4, <3>1 DEF NetworkDiscover, ask
  <2> QED BY <2>3, <2>4
<1>12. ASSUME NEW b \in BOOLEAN PROVE ProgramOK(DeviceAdvertise(b))
  <2> DEFINE long == <<Step("set", "set_flood_scope", NoContact, "temporary"), Ask("send_self_advert")>>
             short == <<Ask("send_self_advert")>>
  <2>1. long \in Seq(Harmless) /\ short \in Seq(Harmless)
    BY <1>2, <1>4
  <2> HIDE DEF long, short
  <2>2. CASE b
    <3>1. ProgramOK(Restoring(Framed("device_advertise", <<Local("check")>>, long, NoGoal), ResetScope))
      BY <2>1, HarmlessOK
    <3> QED BY <2>2, <3>1 DEF DeviceAdvertise, long
  <2>3. CASE ~b
    <3>1. ProgramOK(Framed("device_advertise", <<>>, short, NoGoal))
      BY <2>1, HarmlessOK
    <3> QED BY <2>3, <3>1 DEF DeviceAdvertise, short
  <2> QED BY <2>2, <2>3
<1> QED BY <1>5, <1>6, <1>7, <1>8, <1>9, <1>10, <1>11, <1>12

LEMMA SettingsOK ==
    /\ \A b \in BOOLEAN : ProgramOK(DeviceClock(b))
    /\ \A a \in {"query", "set", "set_default", "clear_default"} : ProgramOK(NetworkScope(a))
    /\ ProgramOK(DeviceReboot) /\ ProgramOK(ChannelSet) /\ ProgramOK(ChannelRemove)
<1> USE ConfirmIs
<1>1. \A k \in Quiet : Ask(k) \in Harmless
  BY AskIs
<1>2. /\ Ask("query_device_info") \in Harmless /\ Ask("get_channel") \in Harmless /\ Ask("get_time") \in Harmless
      /\ Ask("get_default_flood_scope") \in Harmless
  BY <1>1 DEF Quiet
<1>3. Local("check") \in Harmless /\ Local("readback") \in Harmless
  BY LocalIs
<1> DEFINE time == AskOf("set_time", NoContact, "host")
           scope == AskOf("set_flood_scope", NoContact, "chosen")
           named == AskOf("set_default_flood_scope", NoContact, "named")
           cleared == AskOf("set_default_flood_scope", NoContact, "none")
           channel == AskOf("set_channel", NoContact, "second")
           emptied == AskOf("clear_channel", NoContact, "empty")
<1>4. time \in Harmless /\ scope \in Harmless /\ named \in Harmless /\ cleared \in Harmless /\ channel \in Harmless
  BY RequestStep DEF Codes, Values, AskOf
<1>5. emptied \in Simple /\ Ask("reboot") \in Simple
  BY RequestStep DEF Codes, Values, AskOf, Ask
<1>6. /\ Achieves(time, Goal("time", NoContact, "host")) /\ Achieves(scope, Goal("scope", NoContact, "chosen"))
      /\ Achieves(named, Goal("defaultScope", NoContact, "named")) /\ Achieves(cleared, Goal("defaultScope", NoContact, "none"))
      /\ Achieves(channel, Goal("channel", NoContact, "second")) /\ Achieves(emptied, Goal("channel", NoContact, "empty"))
  BY StepHas DEF Achieves, Goal, AskOf
<1> HIDE DEF Harmless, LocalSteps, Simple, time, scope, named, cleared, channel, emptied
<1>7. ASSUME NEW b \in BOOLEAN PROVE ProgramOK(DeviceClock(b))
  <2> DEFINE long == <<Ask("get_time"), time, Local("readback")>>
             short == <<Ask("get_time")>>
  <2>1. long \in Seq(Harmless) /\ short \in Seq(Harmless) /\ 2 \in 1 .. Len(long) /\ long[2] = time
    BY <1>2, <1>3, <1>4
  <2> HIDE DEF long, short
  <2>2. CASE b
    <3>1. \E n \in 1 .. Len(long) : Achieves(long[n], Goal("time", NoContact, "host"))
      BY <1>6, <2>1
    <3>2. ProgramOK(Framed("device_clock", <<>>, long, Goal("time", NoContact, "host")))
      BY <2>1, <3>1, HarmlessOK
    <3> QED BY <2>2, <3>2 DEF DeviceClock, long, time
  <2>3. CASE ~b
    <3>1. ProgramOK(Framed("device_clock", <<>>, short, NoGoal))
      BY <2>1, HarmlessOK
    <3> QED BY <2>3, <3>1 DEF DeviceClock, short
  <2> QED BY <2>2, <2>3
<1>8. ASSUME NEW s \in Harmless, NEW local \in Seq(LocalSteps), NEW g, g = NoGoal \/ Achieves(s, g)
      PROVE  ProgramOK(Framed("network_scope", local, <<s>>, g))
  <2> DEFINE w == <<s>>
  <2>1. w \in Seq(Harmless) /\ 1 \in 1 .. Len(w) /\ w[1] = s
    OBVIOUS
  <2> HIDE DEF w
  <2>2. g = NoGoal \/ \E n \in 1 .. Len(w) : Achieves(w[n], g)
    BY <1>8, <2>1
  <2>3. ProgramOK(Framed("network_scope", local, w, g))
    BY <2>1, <2>2, HarmlessOK
  <2> QED BY <2>3 DEF w
<1>9. ASSUME NEW a \in {"query", "set", "set_default", "clear_default"} PROVE ProgramOK(NetworkScope(a))
  <2>1. /\ ProgramOK(Framed("network_scope", <<>>, <<Ask("get_default_flood_scope")>>, NoGoal))
        /\ ProgramOK(Framed("network_scope", <<Local("check")>>, <<scope>>, Goal("scope", NoContact, "chosen")))
        /\ ProgramOK(Framed("network_scope", <<Local("check")>>, <<named>>, Goal("defaultScope", NoContact, "named")))
        /\ ProgramOK(Framed("network_scope", <<Local("check")>>, <<cleared>>, Goal("defaultScope", NoContact, "none")))
    BY <1>2, <1>4, <1>6, <1>8
  <2>2. /\ a = "query" => NetworkScope(a) = Framed("network_scope", <<>>, <<Ask("get_default_flood_scope")>>, NoGoal)
        /\ a = "set" => NetworkScope(a) = Framed("network_scope", <<Local("check")>>, <<scope>>, Goal("scope", NoContact, "chosen"))
        /\ a = "set_default" =>
              NetworkScope(a) = Framed("network_scope", <<Local("check")>>, <<named>>, Goal("defaultScope", NoContact, "named"))
        /\ a = "clear_default" =>
              NetworkScope(a) = Framed("network_scope", <<Local("check")>>, <<cleared>>, Goal("defaultScope", NoContact, "none"))
    BY DEF NetworkScope, scope, named, cleared
  <2> QED BY <2>1, <2>2
<1>10. ProgramOK(DeviceReboot)
  <2>1. <<Ask("reboot")>> \in Seq(Simple)
    BY <1>5
  <2> QED BY <2>1, SimpleOK DEF DeviceReboot
<1>11. CollectChannelViews \in Seq(Harmless) /\ <<Local("check")>> \in Seq(Harmless)
  BY <1>2, <1>3 DEF CollectChannelViews
<1>12. ProgramOK(ChannelSet)
  <2> DEFINE last == <<Local("check"), channel>>
             g == Goal("channel", NoContact, "second")
             w == CollectChannelViews \o last
  <2>1. last \in Seq(Harmless) /\ 2 \in 1 .. Len(last) /\ last[2] = channel
    BY <1>3, <1>4
  <2> HIDE DEF last, g
  <2>2. \E n \in 1 .. Len(last) : Achieves(last[n], g)
    BY <1>6, <2>1 DEF g
  <2>3. w \in Seq(Harmless)
    BY <1>11, <2>1
  <2>4. \E n \in 1 .. Len(w) : Achieves(w[n], g)
    BY <1>11, <2>1, <2>2, ConcatAchieves, HarmlessSeq
  <2> HIDE DEF w
  <2>5. ProgramOK(PrintedInside(Framed("channels", <<Local("check")>>, w, g)))
    BY <2>3, <2>4, HarmlessOK
  <2> QED BY <2>5 DEF ChannelSet, w, last, g, channel
<1>13. ProgramOK(ChannelRemove)
  <2> DEFINE first == CollectChannelViews \o <<Local("check")>> \o Confirm
             last == <<emptied>>
             g == Goal("channel", NoContact, "empty")
             w == first \o last
             mid == CollectChannelViews \o <<Local("check")>>
  <2>1. mid \in Seq(Harmless) /\ mid \in Seq(AnyStep)
    <3>1. mid \in Seq(Harmless)
      BY <1>11
    <3> HIDE DEF mid
    <3> QED BY <3>1, HarmlessSeq
  <2>2. last \in Seq(Simple) /\ 1 \in 1 .. Len(last) /\ last[1] = emptied
    BY <1>5
  <2> HIDE DEF last, g, mid
  <2>3. first = mid \o Confirm
    BY DEF mid
  <2> HIDE DEF first
  <2>4. first \in Seq(Harmless)
    BY <2>1, <2>3
  <2>5. Has(first, "confirm")
    BY <2>1, <2>3, ConcatHas
  <2>6. first \in Seq(AnyStep) /\ Guarded(first) /\ first \in Seq(Simple) /\ last \in Seq(AnyStep)
    BY <2>2, <2>4, HarmlessSeq, SimpleSeq
  <2>7. Guarded(w)
    BY <2>5, <2>6, ConcatGuarded
  <2>8. w \in Seq(Simple)
    BY <2>2, <2>6
  <2>9. \E n \in 1 .. Len(last) : Achieves(last[n], g)
    BY <1>6, <2>2 DEF g
  <2>10. \E n \in 1 .. Len(w) : Achieves(w[n], g)
    BY <2>6, <2>9, ConcatAchieves
  <2> HIDE DEF w
  <2>11. ProgramOK(PrintedInside(Framed("channels", <<>>, w, g)))
    BY <2>7, <2>8, <2>10, SimpleOK
  <2> QED BY <2>11 DEF ChannelRemove, w, first, last, g, emptied
<1> QED BY <1>7, <1>9, <1>10, <1>12, <1>13

LEMMA NotHas ==
    ASSUME NEW a \in Seq(AnyStep), NEW b \in Seq(AnyStep), NEW k, ~Has(a, k), ~Has(b, k)
    PROVE  ~Has(a \o b, k)
<1> SUFFICES ASSUME NEW n \in 1 .. Len(a \o b), (a \o b)[n].do = k PROVE FALSE
  BY DEF Has
<1>1. CASE n \in 1 .. Len(a) /\ (a \o b)[n] = a[n]
  BY <1>1 DEF Has
<1>2. CASE n - Len(a) \in 1 .. Len(b) /\ (a \o b)[n] = b[n - Len(a)] /\ n > Len(a)
  BY <1>2 DEF Has
<1> QED BY <1>1, <1>2, ConcatIs

\* A command on a contact: it is looked up, the steps are done and the result is printed.
LEMMA OnContactWork ==
    ASSUME NEW c \in Contacts, NEW steps \in Seq(AnyStep), WorkOK(steps), Only(steps, WorkKinds \ SendKinds),
           Only(steps, WorkKinds \ {"drain"}), ~Has(steps, "login"), Guarded(steps), NEW goal,
           goal = NoGoal \/ \E n \in 1 .. Len(steps) : Achieves(steps[n], goal)
    PROVE  ProgramOK(OnContact(c, steps, goal))
<1> DEFINE first == ListAndResolve(c)
           w == first \o steps
           p == Framed("contacts", <<>>, w, goal)
<1>1. first \in Seq(Simple) /\ first \in Seq(AnyStep) /\ Guarded(first)
  BY ContactSteps, HarmlessSeq
<1>2. WorkOK(first) /\ Only(first, WorkKinds \ SendKinds) /\ Only(first, WorkKinds \ {"drain"}) /\ ~Has(first, "login")
  BY <1>1, SimpleSeq, NoLogin
<1> HIDE DEF first
<1>3. w \in Seq(AnyStep) /\ WorkOK(w)
  BY <1>1, <1>2, ConcatWork DEF WorkOK
<1>4. Only(w, WorkKinds \ SendKinds) /\ Only(w, WorkKinds \ {"drain"})
  BY <1>1, <1>2, ConcatOnly
<1>5. Guarded(w)
  BY <1>1, ConcatGuarded
<1>6. goal = NoGoal \/ \E n \in 1 .. Len(w) : Achieves(w[n], goal)
  <2>1. CASE goal = NoGoal
    BY <2>1
  <2>2. CASE \E n \in 1 .. Len(steps) : Achieves(steps[n], goal)
    BY <1>1, <2>2, ConcatAchieves
  <2> QED BY <2>1, <2>2
<1>7. ~Has(w, "login")
  BY <1>1, <1>2, NotHas
<1> HIDE DEF w
<1>8. ProgramOK(p)
  BY <1>3, <1>4, <1>5, <1>6, ConfirmIs, FramedOK
<1>9. p.name = "contacts" /\ p.work = w
  BY DEF Framed
<1> HIDE DEF p
<1>10. ProgramOK(PrintedInside(p))
  BY <1>7, <1>8, <1>9, InsideOK
<1> QED BY <1>10 DEF OnContact, p, w, first

LEMMA OnContactOK ==
    ASSUME NEW c \in Contacts, NEW steps \in Seq(Simple), Guarded(steps), NEW goal,
           goal = NoGoal \/ \E n \in 1 .. Len(steps) : Achieves(steps[n], goal)
    PROVE  ProgramOK(OnContact(c, steps, goal))
BY SimpleSeq, NoLogin, OnContactWork

LEMMA ConfirmedOK ==
    ASSUME NEW c \in Contacts, NEW s \in Simple, NEW goal, Achieves(s, goal)
    PROVE  ProgramOK(OnContact(c, Confirm \o <<s, Local("hook")>>, goal))
<1> DEFINE last == <<s, Local("hook")>>
           w == Confirm \o last
<1>1. Local("hook") \in Simple
  BY LocalIs DEF Harmless
<1> HIDE DEF Simple
<1>2. last \in Seq(Simple) /\ 1 \in 1 .. Len(last) /\ last[1] = s
  BY <1>1
<1> HIDE DEF last
<1>3. Confirm \in Seq(Simple) /\ Confirm \in Seq(AnyStep) /\ Guarded(Confirm) /\ Has(Confirm, "confirm") /\ last \in Seq(AnyStep)
  BY <1>2, ConfirmIs, HarmlessSeq, SimpleSeq
<1>4. w \in Seq(Simple)
  BY <1>2, <1>3
<1>5. Guarded(w)
  BY <1>3, ConcatGuarded
<1>6. \E n \in 1 .. Len(last) : Achieves(last[n], goal)
  BY <1>2
<1>7. \E n \in 1 .. Len(w) : Achieves(w[n], goal)
  BY <1>3, <1>6, ConcatAchieves
<1> HIDE DEF w
<1>8. ProgramOK(OnContact(c, w, goal))
  BY <1>4, <1>5, <1>7, OnContactOK
<1> QED BY <1>8 DEF w, last

LEMMA ContactReadsOK ==
    ASSUME NEW c \in Contacts
    PROVE  /\ ProgramOK(ContactShow(c)) /\ ProgramOK(ContactForget(c)) /\ ProgramOK(ContactExport(c)) /\ ProgramOK(ContactImport(c))
           /\ \A a \in {"show", "discover", "reset"} : ProgramOK(ContactPath(a, c))
<1> DEFINE removed == AskOf("remove_contact", c, "none")
           reset == AskOf("reset_path", c, "none")
           imported == AskOf("import_contact", c, "card")
<1>1. removed \in Simple /\ reset \in Simple /\ imported \in Harmless
  BY RequestStep DEF Codes, Values, AskOf
<1>2. /\ Achieves(removed, Goal("rows", c, "none")) /\ Achieves(reset, Goal("route", c, "flood"))
      /\ Achieves(imported, Goal("name", c, "new"))
  BY StepHas DEF Achieves, Goal, AskOf
<1>3. Local("check") \in Harmless /\ Local("hook") \in Harmless
  BY LocalIs
<1>4. /\ AskOf("export_contact", c, "none") \in Harmless /\ AskOf("get_advert_path", c, "none") \in Harmless
      /\ AskOf("discover_path", c, "none") \in Harmless
  BY QuietIs DEF Quiet
<1> HIDE DEF removed, reset, imported
<1>5. ASSUME NEW w \in Seq(Harmless) PROVE ProgramOK(OnContact(c, w, NoGoal))
  BY HarmlessSeq, OnContactOK
<1>6. ASSUME NEW s \in Harmless PROVE ProgramOK(OnContact(c, <<s>>, NoGoal))
  <2> HIDE DEF Harmless
  <2>1. <<s>> \in Seq(Harmless)
    OBVIOUS
  <2> QED BY <2>1, <1>5
<1>7. ProgramOK(ContactShow(c))
  BY <1>5, ConfirmIs DEF ContactShow
<1>8. ProgramOK(ContactForget(c))
  <2>1. ProgramOK(OnContact(c, Confirm \o <<removed, Local("hook")>>, Goal("rows", c, "none")))
    BY <1>1, <1>2, ConfirmedOK
  <2> QED BY <2>1 DEF ContactForget, removed
<1>9. ProgramOK(ContactExport(c))
  BY <1>4, <1>6 DEF ContactExport
<1>10. ProgramOK(ContactImport(c))
  <2> DEFINE w == <<Local("check"), imported, Local("hook")>>
             g == Goal("name", c, "new")
  <2> HIDE DEF Harmless
  <2>1. w \in Seq(Harmless) /\ 2 \in 1 .. Len(w) /\ w[2] = imported
    BY <1>1, <1>3
  <2> HIDE DEF w, g
  <2>2. \E n \in 1 .. Len(w) : Achieves(w[n], g)
    BY <1>2, <2>1 DEF g
  <2>3. ProgramOK(PrintedInside(Framed("contacts", <<>>, w, g)))
    BY <2>1, <2>2, HarmlessOK, ConfirmIs
  <2> QED BY <2>3 DEF ContactImport, w, g, imported
<1>11. ASSUME NEW a \in {"show", "discover", "reset"} PROVE ProgramOK(ContactPath(a, c))
  <2>1. ProgramOK(OnContact(c, Confirm \o <<reset, Local("hook")>>, Goal("route", c, "flood")))
    BY <1>1, <1>2, ConfirmedOK
  <2>2. /\ a = "show" => ContactPath(a, c) = OnContact(c, <<AskOf("get_advert_path", c, "none")>>, NoGoal)
        /\ a = "discover" => ContactPath(a, c) = OnContact(c, <<AskOf("discover_path", c, "none")>>, NoGoal)
        /\ a = "reset" => ContactPath(a, c) = OnContact(c, Confirm \o <<reset, Local("hook")>>, Goal("route", c, "flood"))
    BY DEF ContactPath, reset
  <2> QED BY <1>4, <1>6, <2>1, <2>2
<1> QED BY <1>7, <1>8, <1>9, <1>10, <1>11

\* Reading a row and writing it back.
LEMMA RowIs ==
    ASSUME NEW c \in Contacts
    PROVE  /\ LET s == Step("row", "get_contact", c, "none")
              IN s \in AnyStep /\ StepOK(s) /\ s.do = "row" /\ ~Destructive(s.req)
           /\ \A v \in {"name", "route"} :
                 LET s == Step("write", "update_contact", c, v)
                 IN s \in AnyStep /\ StepOK(s) /\ s.do = "write" /\ (v = "name" => ~Destructive(s.req))
<1> DEFINE r == Step("row", "get_contact", c, "none")
           w(v) == Step("write", "update_contact", c, v)
<1>1. /\ "row" \in LocalKinds \cup WorkKinds /\ "write" \in LocalKinds \cup WorkKinds
      /\ "row" \notin AskKinds /\ "write" \notin AskKinds
  BY DEF WorkKinds, ContactKinds, AskKinds
<1>2. {"get_contact", "update_contact"} \subseteq Codes /\ {"none", "name", "route"} \subseteq Values
  BY DEF Codes, Values
<1>3. r \in AnyStep /\ r.do = "row" /\ r.req.code = "get_contact" /\ r.req.contact = c
  BY <1>1, <1>2, StepHas
<1>4. ASSUME NEW v \in {"name", "route"}
      PROVE  w(v) \in AnyStep /\ w(v).do = "write" /\ w(v).req.code = "update_contact" /\ w(v).req.contact = c /\ w(v).req.value = v
  BY <1>1, <1>2, StepHas
<1> HIDE DEF r, w, AnyStep
<1>5. StepOK(r) /\ ~Destructive(r.req)
  BY <1>1, <1>3 DEF StepOK, Destructive
<1>6. ASSUME NEW v \in {"name", "route"} PROVE StepOK(w(v)) /\ (v = "name" => ~Destructive(w(v).req))
  BY <1>1, <1>4 DEF StepOK, Destructive
<1>7. /\ r \in AnyStep /\ StepOK(r) /\ r.do = "row" /\ ~Destructive(r.req)
      /\ \A v \in {"name", "route"} : w(v) \in AnyStep /\ StepOK(w(v)) /\ w(v).do = "write" /\ (v = "name" => ~Destructive(w(v).req))
  BY <1>3, <1>4, <1>5, <1>6
<1> QED BY <1>7 DEF r, w

LEMMA ContactUpdateOK ==
    ASSUME NEW c \in Contacts
    PROVE  ProgramOK(ContactUpdate(c))
<1> DEFINE row == Step("row", "get_contact", c, "none")
           write == Step("write", "update_contact", c, "name")
           w == <<row, Local("check"), write, Local("hook")>>
           g == Goal("name", c, "new")
<1>1. row \in AnyStep /\ StepOK(row) /\ row.do = "row" /\ ~Destructive(row.req)
  BY RowIs
<1>2. write \in AnyStep /\ StepOK(write) /\ write.do = "write" /\ ~Destructive(write.req)
  BY RowIs
<1>3. ASSUME NEW k \in {"check", "hook"}
      PROVE  Local(k) \in AnyStep /\ StepOK(Local(k)) /\ Local(k).do = k /\ ~Destructive(Local(k).req)
  BY LocalIs DEF Harmless, Simple
<1>4. Achieves(write, g)
  BY StepHas DEF Achieves, Goal
<1> HIDE DEF row, write, AnyStep, g
<1>5. w \in Seq(AnyStep) /\ Len(w) = 4 /\ w[1] = row /\ w[2] = Local("check") /\ w[3] = write /\ w[4] = Local("hook")
  BY <1>1, <1>2, <1>3
<1> HIDE DEF w
<1>6. \A n \in 1 .. Len(w) : n \in {1, 2, 3, 4}
  BY <1>5
<1>7. \A n \in 1 .. Len(w) : StepOK(w[n]) /\ ~Destructive(w[n].req) /\ w[n].do \in {"row", "check", "write", "hook"}
  BY <1>1, <1>2, <1>3, <1>5, <1>6
<1>8. /\ {"row", "check", "write", "hook"} \subseteq WorkKinds /\ {"row", "check", "write", "hook"} \subseteq WorkKinds \ SendKinds
      /\ {"row", "check", "write", "hook"} \subseteq WorkKinds \ {"drain"}
  BY DEF WorkKinds, SendKinds, AskKinds, ContactKinds, OtherKinds
<1>9. Behind(w, "write", "row")
  <2> SUFFICES ASSUME NEW n \in 1 .. Len(w), w[n].do = "write" PROVE \E m \in 1 .. Len(w) : m < n /\ w[m].do = "row"
    BY DEF Behind
  <2>1. n # 1 /\ 1 \in 1 .. Len(w) /\ n > 1
    BY <1>1, <1>5, <1>6
  <2> QED BY <1>1, <1>5, <2>1
<1>10. Behind(w, "save", "login") /\ Then(w, "login", {"save"}) /\ ~Has(w, "login")
  BY <1>7 DEF Behind, Then, Has
<1>11. Only(w, WorkKinds \ SendKinds) /\ Only(w, WorkKinds \ {"drain"}) /\ Only(w, WorkKinds)
  BY <1>7, <1>8 DEF Only
<1>12. WorkOK(w)
  BY <1>7, <1>9, <1>10, <1>11 DEF WorkOK
<1>13. Guarded(w)
  BY <1>7 DEF Guarded
<1>14. \E n \in 1 .. Len(w) : Achieves(w[n], g)
  BY <1>4, <1>5
<1>15. ProgramOK(OnContact(c, w, g))
  BY <1>5, <1>10, <1>11, <1>12, <1>13, <1>14, OnContactWork
<1> QED BY <1>15 DEF ContactUpdate, w, row, write, g

LEMMA ContactPathSetOK ==
    ASSUME NEW c \in Contacts
    PROVE  ProgramOK(ContactPathSet(c))
<1> DEFINE row == Step("row", "get_contact", c, "none")
           write == Step("write", "update_contact", c, "route")
           first == <<row, Ask("get_path_hash_mode"), Local("check")>>
           mid == first \o Confirm
           last == <<write, Local("hook")>>
           w == mid \o last
           g == Goal("route", c, "chosen")
<1>1. row \in AnyStep /\ StepOK(row) /\ row.do = "row" /\ ~Destructive(row.req)
  BY RowIs
<1>2. write \in AnyStep /\ StepOK(write) /\ write.do = "write"
  BY RowIs
<1>3. ASSUME NEW k \in {"check", "hook"}
      PROVE  Local(k) \in AnyStep /\ StepOK(Local(k)) /\ Local(k).do = k /\ ~Destructive(Local(k).req)
  BY LocalIs DEF Harmless, Simple
<1>4. Ask("get_path_hash_mode") \in Harmless /\ Ask("get_path_hash_mode").do = "ask"
  BY AskIs, StepHas DEF Ask, Quiet
<1>5. /\ Ask("get_path_hash_mode") \in AnyStep /\ StepOK(Ask("get_path_hash_mode")) /\ ~Destructive(Ask("get_path_hash_mode").req)
  BY <1>4 DEF Harmless, Simple
<1>6. Achieves(write, g)
  BY StepHas DEF Achieves, Goal
<1> HIDE DEF row, write, AnyStep, g
<1>7. first \in Seq(AnyStep) /\ Len(first) = 3 /\ first[1] = row /\ first[2] = Ask("get_path_hash_mode") /\ first[3] = Local("check")
  BY <1>1, <1>3, <1>5
<1>8. last \in Seq(AnyStep) /\ Len(last) = 2 /\ last[1] = write /\ last[2] = Local("hook")
  BY <1>2, <1>3
<1> HIDE DEF first, last
<1>9. \A n \in 1 .. Len(first) : StepOK(first[n]) /\ ~Destructive(first[n].req) /\ first[n].do \in {"row", "ask", "check"}
  <2>1. \A n \in 1 .. Len(first) : n \in {1, 2, 3}
    BY <1>7
  <2> QED BY <1>1, <1>3, <1>4, <1>5, <1>7, <2>1
<1>10. \A n \in 1 .. Len(last) : StepOK(last[n]) /\ last[n].do \in {"write", "hook"}
  <2>1. \A n \in 1 .. Len(last) : n \in {1, 2}
    BY <1>8
  <2> QED BY <1>2, <1>3, <1>8, <2>1
<1>11. /\ {"row", "check", "ask"} \subseteq WorkKinds /\ {"row", "check", "ask"} \subseteq WorkKinds \ SendKinds
       /\ {"row", "check", "ask"} \subseteq WorkKinds \ {"drain"}
       /\ {"write", "hook"} \subseteq WorkKinds /\ {"write", "hook"} \subseteq WorkKinds \ SendKinds
       /\ {"write", "hook"} \subseteq WorkKinds \ {"drain"}
  BY DEF WorkKinds, SendKinds, AskKinds, ContactKinds, OtherKinds
<1>12. /\ WorkOK(first) /\ Only(first, WorkKinds \ SendKinds) /\ Only(first, WorkKinds \ {"drain"}) /\ Guarded(first)
       /\ Has(first, "row") /\ ~Has(first, "login")
  <2>1. Behind(first, "write", "row") /\ Behind(first, "save", "login") /\ Then(first, "login", {"save"}) /\ ~Has(first, "login")
    BY <1>9 DEF Behind, Then, Has
  <2>2. Only(first, WorkKinds \ SendKinds) /\ Only(first, WorkKinds \ {"drain"}) /\ Only(first, WorkKinds)
    BY <1>9, <1>11 DEF Only
  <2>3. Guarded(first)
    BY <1>9 DEF Guarded
  <2>4. Has(first, "row")
    BY <1>1, <1>7 DEF Has
  <2> QED BY <1>9, <2>1, <2>2, <2>3, <2>4 DEF WorkOK
<1>13. /\ Confirm \in Seq(Simple) /\ Confirm \in Seq(AnyStep) /\ Guarded(Confirm) /\ Has(Confirm, "confirm") /\ WorkOK(Confirm)
       /\ Only(Confirm, WorkKinds \ SendKinds) /\ Only(Confirm, WorkKinds \ {"drain"}) /\ ~Has(Confirm, "login")
  BY ConfirmIs, HarmlessSeq, SimpleSeq, NoLogin
<1>14. /\ mid \in Seq(AnyStep) /\ WorkOK(mid)
  BY <1>7, <1>12, <1>13, ConcatWork DEF WorkOK
<1>15. Only(mid, WorkKinds \ SendKinds) /\ Only(mid, WorkKinds \ {"drain"}) /\ Guarded(mid)
  BY <1>7, <1>12, <1>13, ConcatOnly, ConcatGuarded
<1>16. Has(mid, "row") /\ Has(mid, "confirm")
  BY <1>7, <1>12, <1>13, ConcatHas
<1>17. ~Has(mid, "login")
  BY <1>7, <1>12, <1>13, NotHas
<1> HIDE DEF mid
<1>18. Only(last, WorkKinds) /\ Only(last, WorkKinds \ SendKinds) /\ Only(last, WorkKinds \ {"drain"})
  BY <1>10, <1>11 DEF Only
<1>19. Behind(last, "save", "login") /\ Then(last, "login", {"save"}) /\ ~Has(last, "login")
  BY <1>10 DEF Behind, Then, Has
<1>20. w \in Seq(AnyStep) /\ WorkOK(w)
  BY <1>8, <1>10, <1>14, <1>16, <1>17, <1>18, <1>19, ConcatWork
<1>21. Only(w, WorkKinds \ SendKinds) /\ Only(w, WorkKinds \ {"drain"}) /\ Guarded(w)
  BY <1>8, <1>14, <1>15, <1>16, <1>18, ConcatOnly, ConcatGuarded
<1>22. ~Has(w, "login")
  BY <1>8, <1>14, <1>17, <1>19, NotHas
<1>23. \E n \in 1 .. Len(w) : Achieves(w[n], g)
  <2>1. \E n \in 1 .. Len(last) : Achieves(last[n], g)
    BY <1>6, <1>8
  <2> QED BY <1>8, <1>14, <2>1, ConcatAchieves
<1> HIDE DEF w
<1>24. ProgramOK(OnContact(c, w, g))
  BY <1>20, <1>21, <1>22, <1>23, OnContactWork
<1> QED BY <1>24 DEF ContactPathSet, w, mid, first, last, row, write, g

LEMMA NetworkTraceOK ==
    ASSUME NEW c \in Contacts
    PROVE  ProgramOK(NetworkTrace(c))
<1> DEFINE last == <<Ask("get_path_hash_mode"), Step("differ", "set_path_hash_mode", NoContact, "requested"),
                     AskOf("discover_path", c, "none")>>
           w == ListAndResolve(c) \o last
<1>1. Ask("get_path_hash_mode") \in Harmless /\ AskOf("discover_path", c, "none") \in Harmless
  BY AskIs, QuietIs DEF Quiet
<1>2. Step("differ", "set_path_hash_mode", NoContact, "requested") \in Harmless
  BY RequestStep DEF Codes, Values
<1> HIDE DEF Harmless
<1>3. last \in Seq(Harmless)
  BY <1>1, <1>2
<1> HIDE DEF last
<1>4. w \in Seq(Harmless)
  BY <1>3, ContactSteps
<1> HIDE DEF w
<1>5. ProgramOK(Restoring(Framed("network_trace", <<Local("check")>>, w, NoGoal), ResetHash))
  BY <1>4, ConfirmIs, HarmlessOK
<1> QED BY <1>5 DEF NetworkTrace, w, last, ResetHash

LEMMA RemoteReadsOK ==
    ASSUME NEW c \in Contacts
    PROVE  /\ ProgramOK(RemoteLogout(c)) /\ ProgramOK(CredentialsForget(c)) /\ ProgramOK(RemoteStatus(c)) /\ ProgramOK(RemoteBinary(c))
           /\ \A d \in BOOLEAN : ProgramOK(RemoteRun(c, d)) /\ ProgramOK(RemoteAnonymous(c, d))
<1> USE ConfirmIs
<1> DEFINE first == ListAndResolve(c)
           both == first \o RequireSession(c)
           out == AskOf("logout", c, "none")
           forget == Step("forget", "none", c, "none")
           harm == AskOf("send_direct_command", c, "destructive")
           read == AskOf("send_direct_command", c, "read_only")
           sync == AskOf("send_direct_command", c, "clock_sync")
<1>1. /\ out \in Harmless /\ AskOf("remote_status", c, "none") \in Harmless /\ AskOf("binary_request", c, "known") \in Harmless
      /\ AskOf("anonymous_request", c, "known") \in Harmless
  BY QuietIs DEF Quiet
<1>2. forget \in Harmless /\ harm \in Simple /\ read \in Harmless /\ sync \in Harmless
  BY RequestStep DEF Codes, Values, AskOf
<1>3. Achieves(out, Goal("session", c, "closed")) /\ Achieves(forget, Goal("vault", c, "none"))
  BY StepHas DEF Achieves, Goal, AskOf
<1>4. Local("check") \in Harmless /\ Local("check") \in LocalSteps /\ Local("confirm") \in LocalSteps
  BY LocalIs
<1>5. first \in Seq(Harmless) /\ RequireSession(c) \in Seq(Harmless)
  BY ContactSteps
<1> HIDE DEF Harmless, Simple, LocalSteps, first, out, forget, harm, read, sync
<1>6. both \in Seq(Harmless)
  BY <1>5
<1> HIDE DEF both
<1>7. ASSUME NEW w \in Seq(Harmless), NEW s \in Harmless, NEW goal, Achieves(s, goal)
      PROVE  w \o <<s>> \in Seq(Harmless) /\ \E n \in 1 .. Len(w \o <<s>>) : Achieves((w \o <<s>>)[n], goal)
  <2> DEFINE last == <<s>>
  <2>1. last \in Seq(Harmless) /\ 1 \in 1 .. Len(last) /\ last[1] = s
    OBVIOUS
  <2> HIDE DEF last
  <2>2. w \o last \in Seq(Harmless)
    BY <2>1
  <2>3. \E n \in 1 .. Len(last) : Achieves(last[n], goal)
    BY <1>7, <2>1
  <2>4. \E n \in 1 .. Len(w \o last) : Achieves((w \o last)[n], goal)
    BY <2>1, <2>3, HarmlessSeq, ConcatAchieves
  <2> QED BY <2>2, <2>4 DEF last
<1>8. ProgramOK(RemoteLogout(c))
  <2>1. ProgramOK(Framed("remote_logout", <<>>, both \o <<out>>, Goal("session", c, "closed")))
    BY <1>1, <1>3, <1>6, <1>7, HarmlessOK
  <2> QED BY <2>1 DEF RemoteLogout, both, first, out
<1>9. ProgramOK(CredentialsForget(c))
  <2>1. ProgramOK(Framed("remote_credentials_forget", Confirm, first \o <<forget>>, Goal("vault", c, "none")))
    BY <1>2, <1>3, <1>5, <1>7, HarmlessOK
  <2> QED BY <2>1 DEF CredentialsForget, first, forget
<1>10. ProgramOK(RemoteStatus(c))
  <2>1. both \o <<AskOf("remote_status", c, "none")>> \in Seq(Harmless)
    BY <1>1, <1>6
  <2> QED BY <2>1, HarmlessOK DEF RemoteStatus, both, first
<1>11. ProgramOK(RemoteBinary(c))
  <2> DEFINE last == <<AskOf("binary_request", c, "known"), Local("check")>>
  <2>1. last \in Seq(Harmless)
    BY <1>1, <1>4
  <2> HIDE DEF last
  <2>2. both \o last \in Seq(Harmless)
    BY <1>6, <2>1
  <2>3. ProgramOK(Framed("remote_neighbours", <<Local("check")>>, both \o last, NoGoal))
    BY <2>2, HarmlessOK
  <2> QED BY <2>3 DEF RemoteBinary, both, first, last
<1>12. ASSUME NEW d \in BOOLEAN PROVE ProgramOK(RemoteRun(c, d))
  <2>1. CASE d
    <3> DEFINE local == <<Local("check")>> \o Confirm
    <3>1. local \in Seq(LocalSteps)
      OBVIOUS
    <3>2. Has(local, "confirm")
      BY LocalSeq, ConcatHas
    <3>3. <<harm>> \in Seq(Simple) /\ both \in Seq(Simple)
      BY <1>2, <1>6, HarmlessSeq
    <3>4. both \o <<harm>> \in Seq(Simple)
      BY <3>3
    <3> HIDE DEF local
    <3>5. ProgramOK(Framed("remote_run", local, both \o <<harm>>, NoGoal))
      BY <3>1, <3>2, <3>4, SimpleOK
    <3> QED BY <2>1, <3>5 DEF RemoteRun, local, both, first, harm
  <2>2. CASE ~d
    <3> DEFINE local == <<Local("check")>> \o <<>>
    <3>1. local \in Seq(LocalSteps)
      OBVIOUS
    <3>2. both \o <<read>> \in Seq(Harmless)
      BY <1>2, <1>6
    <3> HIDE DEF local
    <3>3. ProgramOK(Framed("remote_run", local, both \o <<read>>, NoGoal))
      BY <3>1, <3>2, HarmlessOK
    <3> QED BY <2>2, <3>3 DEF RemoteRun, local, both, first, read
  <2> QED BY <2>1, <2>2
<1>13. ASSUME NEW d \in BOOLEAN PROVE ProgramOK(RemoteAnonymous(c, d))
  <2> DEFINE mid == <<AskOf("anonymous_request", c, "known"), Local("check")>>
             start == first \o mid
             more == RequireSession(c) \o <<sync>>
  <2>1. mid \in Seq(Harmless)
    BY <1>1, <1>4
  <2> HIDE DEF mid
  <2>2. start \in Seq(Harmless) /\ more \in Seq(Harmless)
    BY <1>2, <1>5, <2>1
  <2> HIDE DEF start, more
  <2>3. start \o more \in Seq(Harmless) /\ start \o <<>> \in Seq(Harmless)
    BY <2>2
  <2>4. CASE d
    <3>1. ProgramOK(Framed("remote_clock", <<>>, start \o more, NoGoal))
      BY <2>3, HarmlessOK
    <3> QED BY <2>4, <3>1 DEF RemoteAnonymous, start, more, mid, first, sync
  <2>5. CASE ~d
    <3>1. ProgramOK(Framed("remote_clock", <<>>, start \o <<>>, NoGoal))
      BY <2>3, HarmlessOK
    <3> QED BY <2>5, <3>1 DEF RemoteAnonymous, start, mid, first
  <2> QED BY <2>4, <2>5
<1> QED BY <1>8, <1>9, <1>10, <1>11, <1>12, <1>13

LEMMA RemoteLoginOK ==
    ASSUME NEW c \in Contacts, NEW source \in {"stdin", "stored"}, NEW save \in BOOLEAN
    PROVE  ProgramOK(RemoteLogin(c, source, save))
<1> DEFINE password == Step("password", source, c, "none")
           login == Step("login", "login", c, "none")
           keep == Step("save", "none", c, "none")
           first == ListAndResolve(c)
           mid == <<password, login>>
           start == first \o mid
           last == IF save THEN <<keep>> ELSE <<>>
           w == start \o last
           g == Goal("session", c, "open")
           Fine(s, k) == s \in AnyStep /\ StepOK(s) /\ s.do = k /\ ~Destructive(s.req)
<1>1. Fine(password, "password") /\ Fine(login, "login") /\ Fine(keep, "save")
  <2>1. /\ {"password", "login", "save"} \subseteq LocalKinds \cup WorkKinds /\ {"password", "login", "save"} \cap AskKinds = {}
        /\ {"stdin", "stored", "login", "none"} \subseteq Codes /\ "none" \in Values
    BY DEF WorkKinds, ContactKinds, AskKinds, Codes, Values
  <2>2. password \in AnyStep /\ password.do = "password" /\ password.req.contact = c /\ password.req.code = source
    BY <2>1, StepHas
  <2>3. login \in AnyStep /\ login.do = "login" /\ login.req.contact = c /\ login.req.code = "login"
    BY <2>1, StepHas
  <2>4. keep \in AnyStep /\ keep.do = "save" /\ keep.req.contact = c /\ keep.req.code = "none"
    BY <2>1, StepHas
  <2> HIDE DEF password, login, keep, AnyStep
  <2>5. ~Destructive(password.req) /\ ~Destructive(login.req) /\ ~Destructive(keep.req)
    BY <2>2, <2>3, <2>4 DEF Destructive
  <2>6. StepOK(password)
    BY <2>1, <2>2 DEF StepOK
  <2>7. StepOK(login)
    BY <2>1, <2>3 DEF StepOK
  <2>8. StepOK(keep)
    BY <2>1, <2>4 DEF StepOK
  <2> QED BY <2>2, <2>3, <2>4, <2>5, <2>6, <2>7, <2>8
<1>2. Achieves(login, g)
  BY StepHas DEF Achieves, Goal
<1> HIDE DEF password, login, keep, AnyStep, g
<1>3. mid \in Seq(AnyStep) /\ Len(mid) = 2 /\ mid[1] = password /\ mid[2] = login
  BY <1>1
<1>4. last \in Seq(AnyStep) /\ \A n \in 1 .. Len(last) : last[n] = keep
  <2>1. CASE save
    <3>1. last = <<keep>>
      BY <2>1
    <3>2. <<keep>> \in Seq(AnyStep) /\ \A n \in 1 .. Len(<<keep>>) : <<keep>>[n] = keep
      BY <1>1
    <3> QED BY <3>1, <3>2
  <2>2. CASE ~save
    <3>1. last = <<>>
      BY <2>2
    <3>2. <<>> \in Seq(AnyStep) /\ \A n \in 1 .. Len(<<>>) : <<>>[n] = keep
      OBVIOUS
    <3> QED BY <3>1, <3>2
  <2> QED BY <2>1, <2>2
<1>5. first \in Seq(Simple) /\ first \in Seq(AnyStep) /\ Guarded(first)
  BY ContactSteps, HarmlessSeq
<1>6. WorkOK(first) /\ Only(first, WorkKinds \ SendKinds) /\ Only(first, WorkKinds \ {"drain"}) /\ ~Has(first, "login")
  BY <1>5, SimpleSeq, NoLogin
<1> HIDE DEF first, mid, last
<1>7. \A n \in 1 .. Len(mid) : StepOK(mid[n]) /\ ~Destructive(mid[n].req) /\ mid[n].do \in {"password", "login"}
  <2>1. \A n \in 1 .. Len(mid) : n \in {1, 2}
    BY <1>3
  <2> QED BY <1>1, <1>3, <2>1
<1>8. \A n \in 1 .. Len(last) : StepOK(last[n]) /\ ~Destructive(last[n].req) /\ last[n].do = "save"
  BY <1>1, <1>4
<1>9. /\ {"password", "login", "save"} \subseteq WorkKinds /\ {"password", "login", "save"} \subseteq WorkKinds \ SendKinds
      /\ {"password", "login", "save"} \subseteq WorkKinds \ {"drain"}
  BY DEF WorkKinds, SendKinds, AskKinds, ContactKinds, OtherKinds
<1>10. Only(mid, WorkKinds) /\ Only(mid, WorkKinds \ SendKinds) /\ Only(mid, WorkKinds \ {"drain"}) /\ Guarded(mid) /\ Guarded(last)
  BY <1>7, <1>8, <1>9 DEF Only, Guarded
<1>11. Only(last, WorkKinds) /\ Only(last, WorkKinds \ SendKinds) /\ Only(last, WorkKinds \ {"drain"}) /\ Only(last, {"save"})
  BY <1>8, <1>9 DEF Only
<1>12. Behind(mid, "write", "row") /\ Behind(mid, "save", "login") /\ Has(mid, "login")
  BY <1>1, <1>3, <1>7 DEF Behind, Has
<1>13. Then(mid, "login", {"save"})
  <2> SUFFICES ASSUME NEW m \in 1 .. Len(mid), NEW n \in 1 .. Len(mid), m < n, mid[m].do = "login" PROVE FALSE
    BY DEF Then
  <2>1. m = 1
    BY <1>3
  <2> QED BY <1>1, <1>3, <2>1
<1>14. start \in Seq(AnyStep) /\ WorkOK(start)
  BY <1>3, <1>5, <1>6, <1>7, <1>10, <1>12, <1>13, ConcatWork
<1>15. /\ Only(start, WorkKinds \ SendKinds) /\ Only(start, WorkKinds \ {"drain"}) /\ Guarded(start) /\ Has(start, "login")
  BY <1>3, <1>5, <1>6, <1>10, <1>12, ConcatOnly, ConcatGuarded, ConcatHas
<1>16. \E n \in 1 .. Len(start) : Achieves(start[n], g)
  <2>1. \E n \in 1 .. Len(mid) : Achieves(mid[n], g)
    BY <1>2, <1>3
  <2> QED BY <1>3, <1>5, <2>1, ConcatAchieves
<1> HIDE DEF start
<1>17. w \in Seq(AnyStep)
  BY <1>4, <1>14, ConcatIs
<1>18. WorkOK(w)
  <2>1. \A n \in 1 .. Len(w) : StepOK(w[n])
    BY <1>4, <1>8, <1>14, ConcatSteps DEF WorkOK
  <2>2. Only(w, WorkKinds)
    BY <1>4, <1>11, <1>14, ConcatOnly DEF WorkOK
  <2>3. Behind(last, "write", "row") /\ Then(last, "login", {"save"})
    BY <1>8 DEF Behind, Then
  <2>4. Behind(w, "write", "row") /\ Behind(w, "save", "login")
    BY <1>4, <1>14, <1>15, <2>3, ConcatBehind DEF WorkOK
  <2>5. Then(w, "login", {"save"})
    BY <1>4, <1>11, <1>14, <2>3, ConcatThen DEF WorkOK
  <2> QED BY <2>1, <2>2, <2>4, <2>5 DEF WorkOK
<1>19. Only(w, WorkKinds \ SendKinds) /\ Only(w, WorkKinds \ {"drain"}) /\ Guarded(w)
  BY <1>4, <1>10, <1>11, <1>14, <1>15, ConcatOnly, ConcatGuarded
<1>20. \E n \in 1 .. Len(w) : Achieves(w[n], g)
  BY <1>4, <1>14, <1>16, ConcatAchieves
<1> HIDE DEF w
<1>21. ProgramOK(Framed("remote_login", <<>>, w, g))
  BY <1>17, <1>18, <1>19, <1>20, ConfirmIs, FramedOK
<1> QED BY <1>21 DEF RemoteLogin, w, start, first, mid, last, password, login, keep, g

LEMMA InboxOK == ProgramOK(Inbox)
<1> DEFINE s == Step("drain", "sync_next_message", NoContact, "none")
           w == <<s>>
<1>1. /\ "drain" \in LocalKinds \cup WorkKinds /\ "drain" \notin ContactKinds /\ "sync_next_message" \in Codes /\ "none" \in Values
      /\ "drain" \in WorkKinds /\ "drain" \in WorkKinds \ SendKinds
  BY DEF WorkKinds, AskKinds, ContactKinds, Codes, Values, SendKinds
<1>2. s \in AnyStep /\ s.do = "drain" /\ s.req.code = "sync_next_message"
  BY <1>1, StepHas
<1> HIDE DEF s, AnyStep
<1>3. StepOK(s) /\ ~Destructive(s.req)
  BY <1>1, <1>2 DEF StepOK, ReqOK, Destructive
<1>4. w \in Seq(AnyStep) /\ \A n \in 1 .. Len(w) : w[n] = s
  BY <1>2
<1> HIDE DEF w
<1>5. Only(w, WorkKinds) /\ Only(w, WorkKinds \ SendKinds) /\ Only(w, {"drain"}) /\ Guarded(w)
  BY <1>1, <1>2, <1>3, <1>4 DEF Only, Guarded
<1>6. Behind(w, "write", "row") /\ Behind(w, "save", "login") /\ Then(w, "login", {"save"})
  BY <1>2, <1>4 DEF Behind, Then
<1>7. WorkOK(w)
  BY <1>3, <1>4, <1>5, <1>6 DEF WorkOK
<1>8. <<>> \in Seq(AnyStep) /\ Only(<<>>, LocalKinds)
  BY ConfirmIs, LocalSeq
<1>9. /\ DOMAIN Inbox = ProgramFields /\ Inbox.name = "inbox" /\ Inbox.local = <<>> /\ Inbox.work = w /\ Inbox.restore = <<>>
      /\ Inbox.style = "workflow" /\ Inbox.inside = FALSE /\ Inbox.goal = NoGoal
  BY DEF Inbox, Framed, ProgramFields, w, s
<1> QED BY <1>4, <1>5, <1>7, <1>8, <1>9 DEF ProgramOK

\* The steps of a send.
Mild == {s \in AnyStep : StepOK(s) /\ s.do \in WorkKinds \ {"drain", "write", "save", "login"} /\ ~Destructive(s.req)}

LEMMA MildSeq ==
    ASSUME NEW w \in Seq(Mild)
    PROVE  w \in Seq(AnyStep) /\ WorkOK(w) /\ Only(w, WorkKinds \ {"drain"}) /\ Guarded(w)
<1>1. /\ Mild \subseteq AnyStep
      /\ \A s \in Mild : StepOK(s) /\ s.do \in WorkKinds \ {"drain", "write", "save", "login"} /\ ~Destructive(s.req)
  BY DEF Mild
<1> HIDE DEF Mild, AnyStep
<1>2. w \in Seq(AnyStep) /\ \A n \in 1 .. Len(w) : w[n] \in Mild
  BY <1>1
<1>3. Only(w, WorkKinds \ {"drain"}) /\ Only(w, WorkKinds) /\ Guarded(w)
  BY <1>1, <1>2 DEF Only, Guarded
<1>4. Behind(w, "write", "row") /\ Behind(w, "save", "login") /\ Then(w, "login", {"save"})
  BY <1>1, <1>2 DEF Behind, Then
<1>5. \A n \in 1 .. Len(w) : StepOK(w[n])
  BY <1>1, <1>2
<1> QED BY <1>2, <1>3, <1>4, <1>5 DEF WorkOK

LEMMA MildIs ==
    /\ \A k \in {"poll", "begin", "sent", "await"} : Local(k) \in Mild /\ Local(k).do = k
    /\ \A c \in Contacts \cup {NoContact} : \A code \in {"send_channel_message", "send_direct_text"} :
          Step("transmit", code, c, "none") \in Mild /\ Step("transmit", code, c, "none").do = "transmit"
    /\ Step("try", "set_flood_scope", NoContact, "temporary") \in Mild /\ Step("try", "set_flood_scope", NoContact, "temporary").do = "try"
    /\ \A c \in Contacts : ListAndResolve(c) \in Seq(Mild) /\ Only(ListAndResolve(c), {"ask", "resolve"})
<1>1. /\ {"poll", "begin", "sent", "await", "transmit", "try"} \subseteq LocalKinds \cup WorkKinds
      /\ {"poll", "begin", "sent", "await", "transmit", "try"} \subseteq WorkKinds \ {"drain", "write", "save", "login"}
      /\ {"poll", "begin", "sent", "await"} \cap AskKinds = {} /\ {"poll", "begin", "sent", "await", "transmit", "try"} \cap ContactKinds = {}
      /\ {"none", "send_channel_message", "send_direct_text", "set_flood_scope"} \subseteq Codes /\ {"none", "temporary"} \subseteq Values
  BY DEF WorkKinds, AskKinds, ContactKinds, OtherKinds, Codes, Values
<1>2. ASSUME NEW k \in {"poll", "begin", "sent", "await"} PROVE Local(k) \in Mild /\ Local(k).do = k
  <2>1. Local(k) \in AnyStep /\ Local(k).do = k /\ Local(k).req.code = "none"
    BY <1>1, StepHas DEF Local
  <2> HIDE DEF AnyStep
  <2>2. StepOK(Local(k)) /\ ~Destructive(Local(k).req)
    BY <1>1, <2>1 DEF StepOK, Destructive
  <2> QED BY <1>1, <2>1, <2>2 DEF Mild
<1>3. ASSUME NEW c \in Contacts \cup {NoContact}, NEW code \in {"send_channel_message", "send_direct_text"}
      PROVE  Step("transmit", code, c, "none") \in Mild /\ Step("transmit", code, c, "none").do = "transmit"
  <2> DEFINE s == Step("transmit", code, c, "none")
  <2>1. s \in AnyStep /\ s.do = "transmit" /\ s.req.code = code
    BY <1>1, StepHas
  <2> HIDE DEF s, AnyStep
  <2>2. StepOK(s) /\ ~Destructive(s.req)
    BY <1>1, <2>1 DEF StepOK, Destructive, ReqOK
  <2>3. s \in Mild
    BY <1>1, <2>1, <2>2 DEF Mild
  <2> QED BY <2>1, <2>3 DEF s
<1>4. Step("try", "set_flood_scope", NoContact, "temporary") \in Mild /\ Step("try", "set_flood_scope", NoContact, "temporary").do = "try"
  <2> DEFINE s == Step("try", "set_flood_scope", NoContact, "temporary")
  <2>1. s \in AnyStep /\ s.do = "try" /\ s.req.code = "set_flood_scope" /\ s.req.value = "temporary"
    BY <1>1, StepHas
  <2> HIDE DEF s, AnyStep
  <2>2. StepOK(s) /\ ~Destructive(s.req)
    BY <1>1, <2>1 DEF StepOK, Destructive, ReqOK
  <2>3. s \in Mild
    BY <1>1, <2>1, <2>2 DEF Mild
  <2> QED BY <2>1, <2>3 DEF s
<1>5. ASSUME NEW c \in Contacts PROVE ListAndResolve(c) \in Seq(Mild) /\ Only(ListAndResolve(c), {"ask", "resolve"})
  <2> DEFINE s == Ask("list_contacts")
             t == Step("resolve", "none", c, "none")
             w == <<s, t>>
  <2>1. s \in Harmless
    BY AskIs DEF Quiet
  <2>2. t \in Harmless
    BY RequestStep DEF Codes, Values
  <2>3. s.do = "ask" /\ t.do = "resolve"
    BY StepHas DEF Ask
  <2> HIDE DEF s, t
  <2>4. "ask" \in WorkKinds \ {"drain", "write", "save", "login"} /\ "resolve" \in WorkKinds \ {"drain", "write", "save", "login"}
    BY DEF WorkKinds, AskKinds, OtherKinds
  <2>5. s \in Mild /\ t \in Mild
    BY <2>1, <2>2, <2>3, <2>4 DEF Harmless, Simple, Mild
  <2> HIDE DEF Mild
  <2>6. w \in Seq(Mild) /\ Len(w) = 2 /\ w[1] = s /\ w[2] = t
    BY <2>5
  <2> HIDE DEF w
  <2>7. Only(w, {"ask", "resolve"})
    BY <2>3, <2>6 DEF Only
  <2> QED BY <2>6, <2>7 DEF ListAndResolve, w, s, t
<1> QED BY <1>2, <1>3, <1>4, <1>5

LEMMA SendConcat ==
    ASSUME NEW a \in Seq(AnyStep), NEW b \in Seq(AnyStep), SendWorkOK(a), SendWorkOK(b), ~Has(a, "begin") \/ Only(b, SendingKinds),
           ~Has(a, "transmit") \/ Only(b, {"sent", "await"}), ~Has(a, "await")
    PROVE  SendWorkOK(a \o b)
BY ConcatThen DEF SendWorkOK

LEMMA OnlyNotHas ==
    ASSUME NEW s, NEW K, NEW k, Only(s, K), k \notin K
    PROVE  ~Has(s, k)
BY DEF Only, Has

LEMMA OnlyWider ==
    ASSUME NEW s, NEW K, NEW L, Only(s, K), K \subseteq L
    PROVE  Only(s, L)
BY DEF Only

LEMMA BeforeBegin ==
    ASSUME NEW s, NEW K, Only(s, K), K \cap {"begin", "transmit", "await"} = {}
    PROVE  SendWorkOK(s) /\ ~Has(s, "begin") /\ ~Has(s, "transmit") /\ ~Has(s, "await")
BY DEF Only, Has, Then, SendWorkOK

\* The two ways to transmit.
LEMMA TransmitsOK ==
    ASSUME NEW c \in Contacts \cup {NoContact}
    PROVE  LET s == IF c = NoContact THEN <<Step("transmit", "send_channel_message", c, "none"), Local("sent")>>
                    ELSE ListAndResolve(c) \o <<Local("poll"), Step("transmit", "send_direct_text", c, "none"), Local("sent")>>
           IN /\ s \in Seq(Mild) /\ Only(s, {"ask", "resolve", "poll", "transmit", "sent"}) /\ Has(s, "transmit") /\ SendWorkOK(s)
<1> DEFINE out == Step("transmit", "send_channel_message", c, "none")
           text == Step("transmit", "send_direct_text", c, "none")
           short == <<out, Local("sent")>>
           last == <<Local("poll"), text, Local("sent")>>
           long == ListAndResolve(c) \o last
           Good(s) == /\ s \in Seq(Mild) /\ Only(s, {"ask", "resolve", "poll", "transmit", "sent"}) /\ Has(s, "transmit") /\ SendWorkOK(s)
<1>1. /\ out \in Mild /\ out.do = "transmit" /\ text \in Mild /\ text.do = "transmit"
      /\ Local("sent") \in Mild /\ Local("sent").do = "sent" /\ Local("poll") \in Mild /\ Local("poll").do = "poll"
  BY MildIs
<1> HIDE DEF out, text, Mild
<1>2. short \in Seq(Mild) /\ Len(short) = 2 /\ short[1] = out /\ short[2] = Local("sent")
  BY <1>1
<1>3. last \in Seq(Mild) /\ Len(last) = 3 /\ last[1] = Local("poll") /\ last[2] = text /\ last[3] = Local("sent")
  BY <1>1
<1> HIDE DEF short, last
<1>4. Good(short)
  <2>1. \A n \in 1 .. Len(short) : n \in {1, 2}
    BY <1>2
  <2>2. Only(short, {"ask", "resolve", "poll", "transmit", "sent"}) /\ Has(short, "transmit")
    BY <1>1, <1>2, <2>1 DEF Only, Has
  <2>3. \A n \in 1 .. Len(short) : short[n].do \in {"transmit", "sent"}
    BY <1>1, <1>2, <2>1
  <2>4. Then(short, "transmit", {"sent", "await"})
    <3> SUFFICES ASSUME NEW m \in 1 .. Len(short), NEW n \in 1 .. Len(short), m < n PROVE short[n].do = "sent"
      BY DEF Then
    <3>1. n = 2
      BY <2>1
    <3> QED BY <1>1, <1>2, <3>1
  <2>5. Then(short, "begin", SendingKinds) /\ Then(short, "await", {})
    BY <2>3 DEF Then
  <2> QED BY <1>2, <2>2, <2>4, <2>5 DEF SendWorkOK
<1>5. ASSUME c \in Contacts PROVE Good(long)
  <2> DEFINE first == ListAndResolve(c)
  <2>1. first \in Seq(Mild) /\ Only(first, {"ask", "resolve"})
    BY <1>5, MildIs
  <2> HIDE DEF first
  <2>2. \A n \in 1 .. Len(last) : n \in {1, 2, 3}
    BY <1>3
  <2>3. \A n \in 1 .. Len(last) : last[n].do \in {"poll", "transmit", "sent"}
    BY <1>1, <1>3, <2>2
  <2>4. Only(last, {"ask", "resolve", "poll", "transmit", "sent"}) /\ Only(first, {"ask", "resolve", "poll", "transmit", "sent"})
    BY <2>1, <2>3 DEF Only
  <2>5. Has(last, "transmit")
    BY <1>1, <1>3 DEF Has
  <2>6. Then(last, "transmit", {"sent", "await"})
    <3> SUFFICES ASSUME NEW m \in 1 .. Len(last), NEW n \in 1 .. Len(last), m < n, last[m].do = "transmit" PROVE last[n].do = "sent"
      BY DEF Then
    <3>1. n # 1 /\ m # 1 /\ n # 2
      BY <1>1, <1>3, <2>2
    <3>2. n = 3
      BY <2>2, <3>1
    <3> QED BY <1>1, <1>3, <3>2
  <2>7. SendWorkOK(last)
    <3>1. Then(last, "begin", SendingKinds) /\ Then(last, "await", {})
      BY <2>3 DEF Then
    <3> QED BY <2>6, <3>1 DEF SendWorkOK
  <2>8. first \in Seq(AnyStep) /\ last \in Seq(AnyStep)
    BY <1>3, <2>1, MildSeq
  <2>9. SendWorkOK(first) /\ ~Has(first, "begin") /\ ~Has(first, "transmit") /\ ~Has(first, "await")
    BY <2>1, BeforeBegin
  <2>10. SendWorkOK(first \o last)
    BY <2>7, <2>8, <2>9, SendConcat
  <2>11. Only(first \o last, {"ask", "resolve", "poll", "transmit", "sent"}) /\ Has(first \o last, "transmit")
    BY <2>4, <2>5, <2>8, ConcatOnly, ConcatHas
  <2>12. first \o last \in Seq(Mild)
    BY <1>3, <2>1
  <2> QED BY <2>10, <2>11, <2>12 DEF first
<1>6. CASE c = NoContact
  BY <1>4, <1>6 DEF short, out
<1>7. CASE c # NoContact
  <2>1. Good(long)
    BY <1>5, <1>7
  <2> QED BY <1>7, <2>1 DEF last, text
<1> QED BY <1>6, <1>7

LEMMA SendProgramOK ==
    ASSUME NEW scoped \in BOOLEAN, NEW c \in Contacts \cup {NoContact}, NEW wait \in BOOLEAN
    PROVE  ProgramOK(Send(scoped, c, wait))
<1> DEFINE try == Step("try", "set_flood_scope", NoContact, "temporary")
           p1 == <<Local("poll")>>
           p2 == IF scoped THEN <<try>> ELSE <<>>
           p3 == <<Local("poll"), Local("begin"), Local("poll")>>
           p4 == IF c = NoContact THEN <<Step("transmit", "send_channel_message", c, "none"), Local("sent")>>
                 ELSE ListAndResolve(c) \o <<Local("poll"), Step("transmit", "send_direct_text", c, "none"), Local("sent")>>
           p5 == IF wait THEN <<Local("await")>> ELSE <<>>
           a == p1 \o p2
           b == a \o p3
           d == b \o p4
           w == d \o p5
           local == <<Local("check"), Local("gate"), Local("check")>>
<1>1. /\ try \in Mild /\ try.do = "try" /\ \A k \in {"poll", "begin", "sent", "await"} : Local(k) \in Mild /\ Local(k).do = k
  BY MildIs
<1>2. p4 \in Seq(Mild) /\ Only(p4, {"ask", "resolve", "poll", "transmit", "sent"}) /\ Has(p4, "transmit") /\ SendWorkOK(p4)
  BY TransmitsOK
<1> HIDE DEF try, Mild, p4
<1>3. ASSUME NEW s \in Mild PROVE <<s>> \in Seq(Mild) /\ <<>> \in Seq(Mild) /\ Only(<<s>>, {s.do}) /\ Only(<<>>, {s.do})
  BY DEF Only
<1>4. p1 \in Seq(Mild) /\ Only(p1, {"poll"})
  BY <1>1, <1>3
<1>5. p2 \in Seq(Mild) /\ Only(p2, {"try"})
  <2>1. <<try>> \in Seq(Mild) /\ <<>> \in Seq(Mild) /\ Only(<<try>>, {"try"}) /\ Only(<<>>, {"try"})
    BY <1>1, <1>3
  <2> QED BY <2>1
<1>6. p5 \in Seq(Mild) /\ Only(p5, {"await"}) /\ Len(p5) \in {0, 1}
  <2>1. <<Local("await")>> \in Seq(Mild) /\ <<>> \in Seq(Mild) /\ Only(<<Local("await")>>, {"await"}) /\ Only(<<>>, {"await"})
    BY <1>1, <1>3
  <2>2. Len(<<Local("await")>>) = 1 /\ Len(<<>>) = 0
    OBVIOUS
  <2> QED BY <2>1, <2>2
<1>7. p3 \in Seq(Mild) /\ Len(p3) = 3 /\ p3[1] = Local("poll") /\ p3[2] = Local("begin") /\ p3[3] = Local("poll")
  BY <1>1
<1> HIDE DEF p1, p2, p3, p5
<1>8. /\ p1 \in Seq(AnyStep) /\ p2 \in Seq(AnyStep) /\ p3 \in Seq(AnyStep) /\ p4 \in Seq(AnyStep) /\ p5 \in Seq(AnyStep)
  BY <1>2, <1>4, <1>5, <1>6, <1>7, MildSeq
<1>9. Only(p3, {"poll", "begin"}) /\ SendWorkOK(p3)
  <2>1. \A n \in 1 .. Len(p3) : n \in {1, 2, 3}
    BY <1>7
  <2>2. \A n \in 1 .. Len(p3) : p3[n].do \in {"poll", "begin"}
    BY <1>1, <1>7, <2>1
  <2>3. Then(p3, "begin", SendingKinds)
    <3> SUFFICES ASSUME NEW m \in 1 .. Len(p3), NEW n \in 1 .. Len(p3), m < n, p3[m].do = "begin" PROVE p3[n].do = "poll"
      BY DEF Then, SendingKinds
    <3>1. m # 1 /\ n # 1 /\ n # 2
      BY <1>1, <1>7, <2>1
    <3>2. n = 3
      BY <2>1, <3>1
    <3> QED BY <1>1, <1>7, <3>2
  <2>4. Then(p3, "transmit", {"sent", "await"}) /\ Then(p3, "await", {})
    BY <2>2 DEF Then
  <2> QED BY <2>2, <2>3, <2>4 DEF Only, SendWorkOK
<1>10. SendWorkOK(p5)
  <2>1. ASSUME NEW m \in 1 .. Len(p5), NEW n \in 1 .. Len(p5) PROVE ~(m < n)
    <3>1. CASE Len(p5) = 0
      BY <3>1
    <3>2. CASE Len(p5) = 1
      BY <3>2
    <3> QED BY <1>6, <3>1, <3>2
  <2> QED BY <2>1 DEF SendWorkOK, Then
<1>11. a \in Seq(AnyStep) /\ Only(a, {"poll", "try"})
  <2>1. Only(p1, {"poll", "try"}) /\ Only(p2, {"poll", "try"})
    BY <1>4, <1>5 DEF Only
  <2> QED BY <1>8, <2>1, ConcatIs, ConcatOnly
<1>12. SendWorkOK(a) /\ ~Has(a, "begin") /\ ~Has(a, "transmit") /\ ~Has(a, "await")
  BY <1>11, BeforeBegin
<1>13. a \in Seq(Mild)
  BY <1>4, <1>5
<1> HIDE DEF a
<1>14. b \in Seq(AnyStep) /\ SendWorkOK(b)
  BY <1>8, <1>9, <1>11, <1>12, ConcatIs, SendConcat
<1>15. Only(b, {"poll", "try", "begin"})
  <2>1. Only(a, {"poll", "try", "begin"}) /\ Only(p3, {"poll", "try", "begin"})
    BY <1>9, <1>11 DEF Only
  <2> QED BY <1>8, <1>11, <2>1, ConcatOnly
<1>16. ~Has(b, "transmit") /\ ~Has(b, "await")
  BY <1>15, OnlyNotHas
<1>17. b \in Seq(Mild)
  BY <1>7, <1>13
<1> HIDE DEF b
<1>18. Only(p4, SendingKinds) /\ Only(p5, SendingKinds) /\ Only(p5, {"sent", "await"})
  BY <1>2, <1>6 DEF Only, SendingKinds
<1>19. d \in Seq(AnyStep) /\ SendWorkOK(d)
  BY <1>2, <1>8, <1>14, <1>16, <1>18, ConcatIs, SendConcat
<1>20. ~Has(d, "await") /\ Has(d, "transmit")
  <2>1. ~Has(p4, "await")
    BY <1>2, OnlyNotHas
  <2> QED BY <1>2, <1>8, <1>14, <1>16, <2>1, NotHas, ConcatHas
<1>21. d \in Seq(Mild)
  BY <1>2, <1>17
<1> HIDE DEF d
<1>22. SendWorkOK(w)
  BY <1>8, <1>10, <1>18, <1>19, <1>20, SendConcat
<1>23. Has(w, "transmit")
  BY <1>8, <1>19, <1>20, ConcatHas
<1>24. w \in Seq(Mild)
  BY <1>6, <1>21
<1> HIDE DEF w
<1>25. w \in Seq(AnyStep) /\ WorkOK(w) /\ Only(w, WorkKinds \ {"drain"}) /\ Guarded(w)
  BY <1>24, MildSeq
<1>26. local \in Seq(AnyStep) /\ Only(local, LocalKinds)
  <2>1. Local("check") \in LocalSteps /\ Local("gate") \in LocalSteps
    BY LocalIs
  <2> HIDE DEF LocalSteps
  <2>2. local \in Seq(LocalSteps)
    BY <2>1
  <2> HIDE DEF local
  <2> QED BY <2>2, LocalSeq
<1> HIDE DEF local
<1> DEFINE p == Send(scoped, c, wait)
<1>27. /\ DOMAIN p = ProgramFields /\ p.name = "send" /\ p.local = local /\ p.style = "workflow" /\ p.inside = FALSE /\ p.goal = NoGoal
  BY DEF Send, ProgramFields, local
<1>28. p.work = w
  BY DEF Send, w, d, b, a, p1, p2, p3, p4, p5, try
<1>29. p.restore = ResetScope \/ p.restore = <<>>
  BY DEF Send
<1> HIDE DEF p, AnyStep
<1>30. ProgramOK(p)
  BY <1>22, <1>23, <1>25, <1>26, <1>27, <1>28, <1>29 DEF ProgramOK
<1> QED BY <1>30 DEF p

LEMMA ProgramsOK == \A p \in Programs \cup {NoProgram} : ProgramOK(p)
<1>1. ASSUME NEW p \in Plain PROVE ProgramOK(p)
  BY PlainReadsOK, SettingsOK, InboxOK DEF Plain
<1>2. ASSUME NEW p \in Clocks \cup Adverts \cup Discoveries \cup Scopes PROVE ProgramOK(p)
  <2>1. CASE p \in Clocks
    BY <2>1, SettingsOK DEF Clocks
  <2>2. CASE p \in Adverts
    BY <2>2, PlainReadsOK DEF Adverts
  <2>3. CASE p \in Discoveries
    BY <2>3, PlainReadsOK DEF Discoveries
  <2>4. CASE p \in Scopes
    BY <2>4, SettingsOK DEF Scopes
  <2> QED BY <2>1, <2>2, <2>3, <2>4
<1>3. ASSUME NEW p \in Sends \cup Broadcasts PROVE ProgramOK(p)
  <2>1. CASE p \in Sends
    <3>1. \E s \in BOOLEAN, c \in Contacts, w \in BOOLEAN : p = Send(s, c, w)
      BY <2>1 DEF Sends
    <3>2. PICK s \in BOOLEAN, c \in Contacts, w \in BOOLEAN : p = Send(s, c, w)
      BY <3>1
    <3>3. ProgramOK(Send(s, c, w))
      BY SendProgramOK
    <3> QED BY <3>2, <3>3
  <2>2. CASE p \in Broadcasts
    <3>1. PICK s \in BOOLEAN : p = Send(s, NoContact, FALSE)
      BY <2>2 DEF Broadcasts
    <3>2. ProgramOK(Send(s, NoContact, FALSE))
      BY SendProgramOK
    <3> QED BY <3>1, <3>2
  <2> QED BY <2>1, <2>2
<1>4. ASSUME NEW p \in OfContacts PROVE ProgramOK(p)
  <2>1. PICK c \in Contacts : p \in ContactCommands(c) \cup Sessions(c)
    BY DEF OfContacts
  <2>2. CASE p \in ContactCommands(c)
    BY <2>2, ContactReadsOK, ContactUpdateOK, ContactPathSetOK, NetworkTraceOK DEF ContactCommands
  <2>3. CASE p \in Sessions(c)
    BY <2>3, RemoteReadsOK, RemoteLoginOK DEF Sessions
  <2> QED BY <2>1, <2>2, <2>3
<1>5. ASSUME NEW p \in Programs PROVE ProgramOK(p)
  BY <1>1, <1>2, <1>3, <1>4, ProgramsAre
<1> QED BY <1>5, PlainReadsOK

-----------------------------------------------------------------------------
(* The user and the environment.                                           *)

LEMMA StartOK ==
    ASSUME NEW p, ProgramOK(p), NEW yes, NEW interactive, NEW agreed, yes => agreed, NEW d, NEW t, t.off \in Nat, t.known \in Nat,
           p.name = "inbox" => t.off <= t.known
    PROVE  RunOK(Start(p, yes, interactive), "down", d, t, agreed)
<1> DEFINE r == Start(p, yes, interactive)
<1>1. /\ r.program = p /\ r.todo = p.local /\ r.error = "none" /\ r.post = "none" /\ r.yes = yes /\ r.interactive = interactive
      /\ r.owed = FALSE /\ r.doubtful = FALSE /\ r.on = 0 /\ r.off = 0 /\ r.told = 0 /\ r.row = NoRow /\ r.password = "none"
      /\ r.record = "none" /\ r.unstored = FALSE /\ r.accepted = FALSE /\ r.printed = FALSE
      /\ (p.goal = NoGoal => r.reached)
  BY DEF Start
<1>2. r.phase = IF p.local = <<>> THEN "connect" ELSE "local"
  BY DEF Start
<1>3. DOMAIN r = RunFields /\ r = [f \in RunFields |-> r[f]]
  BY DEF Start, RunFields
<1> HIDE DEF r
<1>4. r.phase \in Early /\ r.phase \in Phases /\ r.phase \notin Late /\ r.phase \notin Ended /\ r.phase \notin {"idle", "activate", "work"}
  BY <1>2 DEF Early, Phases, Late, Ended
<1>5. "none" \in Statuses
  BY DEF Statuses
<1>6. RunBase(r)
  BY <1>1, <1>3, <1>4, <1>5 DEF RunBase, ProgramOK
<1>7. TodoOK(r)
  BY <1>1, <1>2, <1>4 DEF TodoOK, ProgramOK
<1>8. HooksOK(r, "down")
  BY <1>1, <1>2 DEF HooksOK
<1>9. SettingOK(r, d) /\ ResultOK(r)
  BY <1>1, <1>4 DEF SettingOK, ResultOK, Late
<1>10. SendOK(r) /\ KeptOK(r)
  BY <1>1, <1>4 DEF SendOK, KeptOK
<1>11. MailOK(r, t)
  <2>1. Counted(r, t)
    BY <1>1 DEF Counted, Counts
  <2> QED BY <1>4, <2>1 DEF MailOK
<1>12. ConsentOK(r, agreed)
  <2>1. Has(p.local, "confirm") \/ Guarded(p.work)
    BY DEF ProgramOK
  <2>2. p.local = <<>> => ~Has(p.local, "confirm")
    BY NothingLeft
  <2> QED BY <1>1, <1>2, <2>1, <2>2 DEF ConsentOK
<1>13. RunOK(r, "down", d, t, agreed)
  BY <1>6, <1>7, <1>8, <1>9, <1>10, <1>11, <1>12 DEF RunOK
<1> QED BY <1>13 DEF r

LEMMA IdleIs ==
    /\ Idle.phase = "idle" /\ Idle.program = NoProgram /\ DOMAIN Idle = RunFields /\ Idle = [f \in RunFields |-> Idle[f]]
    /\ Like(Idle, Start(NoProgram, FALSE, FALSE), {"phase"}) /\ NoProgram.name = "none" /\ NoProgram.local = <<>>
<1> DEFINE s == Start(NoProgram, FALSE, FALSE)
<1>1. DOMAIN s = RunFields /\ s = [f \in RunFields |-> s[f]] /\ s.program = NoProgram
  BY DEF Start, RunFields
<1>2. Idle = [s EXCEPT !.phase = "idle"]
  BY DEF Idle
<1> HIDE DEF s
<1>3. Like(Idle, s, {"phase"}) /\ Idle.phase = "idle"
  BY <1>1, <1>2, Updated DEF RunFields
<1>4. Idle.program = NoProgram /\ DOMAIN Idle = RunFields /\ Idle = [f \in RunFields |-> Idle[f]]
  BY <1>1, <1>3 DEF Like, RunFields
<1>5. NoProgram.name = "none" /\ NoProgram.local = <<>>
  BY DEF NoProgram, Framed
<1> QED BY <1>3, <1>4, <1>5 DEF s

LEMMA IdleOK ==
    ASSUME NEW d, NEW t, t.off \in Nat, t.known \in Nat, NEW agreed
    PROVE  RunOK(Idle, "down", d, t, agreed)
<1> DEFINE s == Start(NoProgram, FALSE, FALSE)
           r == Idle
<1>1. ProgramOK(NoProgram) /\ NoProgram.name # "inbox"
  BY ProgramsOK, IdleIs
<1>2. RunOK(s, "down", d, t, agreed)
  <2>1. FALSE => agreed
    OBVIOUS
  <2> QED BY <1>1, <2>1, StartOK
<1>3. /\ Like(r, s, {"phase"}) /\ r.phase = "idle" /\ DOMAIN r = RunFields /\ r = [f \in RunFields |-> r[f]] /\ r = Idle
      /\ r.program = NoProgram
  BY IdleIs
<1>4. s.phase = "connect"
  BY IdleIs DEF Start
<1> HIDE DEF r, s
<1>5. /\ r.program = s.program /\ r.todo = s.todo /\ r.error = s.error /\ r.post = s.post /\ r.yes = s.yes /\ r.owed = s.owed
      /\ r.doubtful = s.doubtful /\ r.on = s.on /\ r.off = s.off /\ r.told = s.told /\ r.row = s.row
      /\ r.password = s.password /\ r.record = s.record /\ r.unstored = s.unstored /\ r.accepted = s.accepted
      /\ r.reached = s.reached
  BY <1>3 DEF Like, RunFields
<1>6. "connect" \in Early /\ "idle" \in Early /\ "idle" \in Phases /\ "idle" \notin Late /\ "idle" \notin Ended
  BY DEF Early, Late, Ended, Phases
<1>7. RunBase(r)
  BY <1>2, <1>3, <1>5, <1>6 DEF RunOK, RunBase
<1>8. TodoOK(r)
  BY <1>2, <1>3, <1>4, <1>5, <1>6 DEF RunOK, TodoOK
<1>9. HooksOK(r, "down")
  BY <1>2, <1>3, <1>4, <1>5 DEF RunOK, HooksOK
<1>10. SettingOK(r, d) /\ ResultOK(r)
  BY <1>2, <1>3, <1>4, <1>5, <1>6 DEF RunOK, SettingOK, ResultOK
<1>11. SendOK(r) /\ KeptOK(r) /\ MailOK(r, t)
  BY <1>2, <1>3, <1>4, <1>5, <1>6 DEF RunOK, SendOK, KeptOK, MailOK, Counted, Counts
<1>12. ConsentOK(r, agreed)
  BY <1>2, <1>3, <1>4, <1>5, <1>6 DEF RunOK, ConsentOK
<1>13. RunOK(r, "down", d, t, agreed)
  BY <1>7, <1>8, <1>9, <1>10, <1>11, <1>12 DEF RunOK
<1> QED BY <1>13 DEF r

LEMMA NoBatchIs ==
    /\ NoBatch \in [kind : {"none", "file", "contacts"}, queue : Seq({p \in Programs : p.name # "inbox"}), yes : BOOLEAN,
                    begun : Nat, invalid : BOOLEAN, failed : BOOLEAN]
    /\ NoBatch.kind = "none" /\ NoBatch.queue = <<>> /\ NoBatch.yes = FALSE /\ NoBatch.begun = 0 /\ NoBatch.invalid = FALSE
    /\ NoBatch.failed = FALSE
<1> DEFINE S == {p \in Programs : p.name # "inbox"}
<1> HIDE DEF S
<1>1. NoBatch \in [kind : {"none", "file", "contacts"}, queue : Seq(S), yes : BOOLEAN, begun : Nat, invalid : BOOLEAN, failed : BOOLEAN]
  BY DEF NoBatch
<1> QED BY <1>1 DEF NoBatch, S

LEMMA LinkDown == IInv /\ (run = Idle \/ run.phase = "exit") => link = "down"
<1> SUFFICES ASSUME IInv, run = Idle \/ run.phase = "exit" PROVE link = "down"
  OBVIOUS
<1>1. run.phase \in {"idle", "exit"}
  BY IdleIs
<1> QED BY <1>1, TypesNow DEF RunOK, HooksOK

Nothing == [off |-> 0, known |-> 0, shown |-> 0]

LEMMA NothingIs == Nothing \in [off : Nat, known : Nat, shown : Nat] /\ Nothing.off = 0 /\ Nothing.known = 0
BY DEF Nothing

LEMMA StartCommandKeeps == IInv /\ StartCommand => IInv'
<1> SUFFICES ASSUME IInv, StartCommand PROVE IInv'
  OBVIOUS
<1>1. /\ run = Idle /\ batch = NoBatch /\ left > 0 /\ left' = left - 1 /\ interrupt' = FALSE /\ taken' = Nothing
      /\ UNCHANGED <<device, link, batch, vault>>
  BY DEF StartCommand, Nothing
<1>2. PICK p \in Programs, yes \in BOOLEAN, interactive \in BOOLEAN : run' = Start(p, yes, interactive) /\ consented' = yes
  <2>1. PICK p \in Programs : \E yes \in IF Asks(p) THEN BOOLEAN ELSE {FALSE} :
             \E interactive \in IF Asks(p) /\ ~yes THEN BOOLEAN ELSE {FALSE} :
                run' = Start(p, yes, interactive) /\ consented' = yes
    BY DEF StartCommand
  <2>2. PICK yes \in IF Asks(p) THEN BOOLEAN ELSE {FALSE} :
             \E interactive \in IF Asks(p) /\ ~yes THEN BOOLEAN ELSE {FALSE} :
                run' = Start(p, yes, interactive) /\ consented' = yes
    BY <2>1
  <2>3. PICK interactive \in IF Asks(p) /\ ~yes THEN BOOLEAN ELSE {FALSE} : run' = Start(p, yes, interactive) /\ consented' = yes
    BY <2>2
  <2>4. yes \in BOOLEAN /\ interactive \in BOOLEAN
    OBVIOUS
  <2> QED BY <2>3, <2>4
<1>3. link = "down"
  BY <1>1, LinkDown
<1>4. RunOK(run', "down", device, Nothing, yes)
  <2>1. ProgramOK(p) /\ (yes => yes) /\ Nothing.off <= Nothing.known
    BY ProgramsOK, NothingIs
  <2>2. RunOK(Start(p, yes, interactive), "down", device, Nothing, yes)
    BY <2>1, NothingIs, StartOK
  <2> QED BY <1>2, <2>2
<1>5. WorldOK'
  <2>1. left \in 0 .. MaxCommands /\ device \in Devices /\ link \in {"down", "up", "lost"} /\ vault \in [Contacts -> {"none", "right"}]
    BY DEF IInv, WorldOK
  <2>2. left' \in 0 .. MaxCommands
    BY <1>1, <2>1, CommandsAssumption
  <2> QED BY <1>1, <1>2, <2>1, <2>2, NothingIs DEF WorldOK
<1>6. BatchOK'
  BY <1>1, NoBatchIs DEF BatchOK
<1> QED BY <1>1, <1>2, <1>3, <1>4, <1>5, <1>6 DEF IInv

\* The commands a batch may hold are commands.
LEMMA NameIs ==
    /\ \A n, l, w, g : LET f == Framed(n, l, w, g) IN
           f.name = n /\ f.local = l /\ f.work = w /\ f.restore = <<>> /\ f.style = "session" /\ f.inside = FALSE /\ f.goal = g
    /\ \A n, l, w, g, s : Restoring(Framed(n, l, w, g), s).name = n
    /\ \A n, l, w, g : PrintedInside(Framed(n, l, w, g)).name = n
BY DEF Framed, Restoring, PrintedInside

LEMMA OfContactIs ==
    ASSUME NEW c \in Contacts, NEW p \in ContactCommands(c)
    PROVE  p \in Programs
<1>1. p \in OfContacts
  BY Zenon DEF OfContacts
<1> QED BY <1>1, ProgramsAre

LEMMA LinesAreCommands == BatchLines \subseteq {p \in Programs : p.name # "inbox"}
<1>1. BatchLines \subseteq Programs
  <2>1. DeviceClock(TRUE) \in Clocks /\ DeviceAdvertise(TRUE) \in Adverts /\ ChannelRemove \in Plain
    BY Zenon DEF Clocks, Adverts, Plain
  <2>2. DeviceClock(TRUE) \in Programs /\ DeviceAdvertise(TRUE) \in Programs /\ ChannelRemove \in Programs
    BY <2>1, ProgramsAre
  <2>4. ASSUME NEW c \in Contacts PROVE ContactForget(c) \in Programs
    <3>1. ContactForget(c) \in ContactCommands(c)
      BY Zenon DEF ContactCommands
    <3> QED BY <3>1, OfContactIs
  <2> QED BY <2>2, <2>4 DEF BatchLines
<1>2. DeviceClock(TRUE).name # "inbox"
  BY NameIs DEF DeviceClock
<1>3. ChannelRemove.name # "inbox"
  BY NameIs DEF ChannelRemove
<1>4. DeviceAdvertise(TRUE).name # "inbox"
  BY NameIs DEF DeviceAdvertise
<1>5. \A c \in Contacts : ContactForget(c).name # "inbox"
  BY NameIs DEF ContactForget, OnContact
<1> QED BY <1>1, <1>2, <1>3, <1>4, <1>5 DEF BatchLines

LEMMA PathIsCommand ==
    ASSUME NEW a \in {"discover", "reset"}, NEW c \in Contacts
    PROVE  ContactPath(a, c) \in {p \in Programs : p.name # "inbox"}
<1>1. ContactPath(a, c) \in Programs
  <2>1. ContactPath(a, c) \in {ContactPath(b, c) : b \in {"show", "discover", "reset"}}
    BY Zenon
  <2>2. ContactPath(a, c) \in ContactCommands(c)
    BY <2>1, Zenon DEF ContactCommands
  <2> QED BY <2>2, OfContactIs
<1>2. ContactPath(a, c).name # "inbox"
  BY NameIs DEF ContactPath, OnContact
<1> QED BY <1>1, <1>2

LEMMA BatchBegins ==
    ASSUME IInv, run = Idle, batch = NoBatch, left > 0, left' = left - 1, consented' \in BOOLEAN, interrupt' = FALSE,
           taken' = Nothing, UNCHANGED <<device, link, run, vault>>, BatchOK'
    PROVE  IInv'
<1>1. link = "down"
  BY LinkDown
<1>2. RunOK(Idle, "down", device, Nothing, consented')
  BY NothingIs, IdleOK
<1>3. WorldOK'
  <2>1. left \in 0 .. MaxCommands /\ device \in Devices /\ link \in {"down", "up", "lost"} /\ vault \in [Contacts -> {"none", "right"}]
    BY DEF IInv, WorldOK
  <2>2. left' \in 0 .. MaxCommands
    BY <2>1, CommandsAssumption
  <2> QED BY <2>1, <2>2, NothingIs DEF WorldOK
<1> QED BY <1>1, <1>2, <1>3 DEF IInv

LEMMA BatchMade ==
    ASSUME NEW kind \in {"none", "file", "contacts"}, NEW queue \in Seq({p \in Programs : p.name # "inbox"}), NEW yes \in BOOLEAN,
           NEW invalid \in BOOLEAN
    PROVE  LET b == [kind |-> kind, queue |-> queue, yes |-> yes, begun |-> 0, invalid |-> invalid, failed |-> FALSE]
           IN b \in [kind : {"none", "file", "contacts"}, queue : Seq({p \in Programs : p.name # "inbox"}), yes : BOOLEAN,
                     begun : Nat, invalid : BOOLEAN, failed : BOOLEAN]
<1> DEFINE S == Seq({p \in Programs : p.name # "inbox"})
<1>1. queue \in S
  OBVIOUS
<1> HIDE DEF S
<1>2. [kind |-> kind, queue |-> queue, yes |-> yes, begun |-> 0, invalid |-> invalid, failed |-> FALSE]
        \in [kind : {"none", "file", "contacts"}, queue : S, yes : BOOLEAN, begun : Nat, invalid : BOOLEAN, failed : BOOLEAN]
  BY <1>1
<1> QED BY <1>2 DEF S

LEMMA StartBatchFileKeeps == IInv /\ StartBatchFile => IInv'
<1> SUFFICES ASSUME IInv, StartBatchFile PROVE IInv'
  OBVIOUS
<1>1. /\ run = Idle /\ batch = NoBatch /\ left > 0 /\ left' = left - 1 /\ interrupt' = FALSE /\ taken' = Nothing
      /\ UNCHANGED <<device, link, run, vault>>
  BY DEF StartBatchFile, Nothing
<1>0. PICK n \in 1 .. MaxBatch : \E lines \in [1 .. n -> BatchLines] : \E yes, invalid \in BOOLEAN :
          /\ batch' = [NoBatch EXCEPT !.kind = "file", !.queue = BatchQueue(lines, invalid), !.yes = yes, !.invalid = invalid]
          /\ consented' = yes
  BY DEF StartBatchFile
<1>2. PICK lines \in [1 .. n -> BatchLines], yes \in BOOLEAN, invalid \in BOOLEAN :
          /\ batch' = [NoBatch EXCEPT !.kind = "file", !.queue = BatchQueue(lines, invalid), !.yes = yes, !.invalid = invalid]
          /\ consented' = yes
  BY <1>0
<1> DEFINE S == {p \in Programs : p.name # "inbox"}
           queue == BatchQueue(lines, invalid)
<1>3. queue \in Seq(S) /\ (invalid => queue = <<>>)
  <2>1. lines \in [1 .. n -> S] /\ n \in Nat
    BY LinesAreCommands, CommandsAssumption
  <2> HIDE DEF S
  <2>2. lines \in Seq(S)
    BY <2>1
  <2> QED BY <2>2 DEF BatchQueue
<1> HIDE DEF queue
<1>4. batch' = [kind |-> "file", queue |-> queue, yes |-> yes, begun |-> 0, invalid |-> invalid, failed |-> FALSE]
  BY <1>2 DEF NoBatch, queue
<1>5. batch' \in [kind : {"none", "file", "contacts"}, queue : Seq(S), yes : BOOLEAN, begun : Nat, invalid : BOOLEAN, failed : BOOLEAN]
  BY <1>3, <1>4, BatchMade
<1>6. batch'.queue = queue /\ batch'.yes = yes /\ batch'.begun = 0 /\ batch'.invalid = invalid /\ batch'.failed = FALSE
  BY <1>4
<1>7. BatchOK'
  BY <1>1, <1>2, <1>3, <1>5, <1>6 DEF BatchOK
<1>8. consented' \in BOOLEAN
  BY <1>2
<1> QED BY <1>1, <1>7, <1>8, BatchBegins

LEMMA OrderIs ==
    ASSUME NEW T \in SUBSET Contacts
    PROVE  SetToSeq(T) \in Seq(T)
<1>1. IsFiniteSet(T)
  BY DeviceAssumption, FS_Subset
<1>2. Cardinality(T) \in Nat /\ ExistsBijection(1 .. Cardinality(T), T)
  BY <1>1, FS_CardinalityType
<1>3. \E f \in [1 .. Cardinality(T) -> T] : IsInjective(f)
  BY <1>2 DEF ExistsBijection, Bijection, Injection
<1>4. SetToSeq(T) \in [1 .. Cardinality(T) -> T]
  BY <1>3, Zenon DEF SetToSeq
<1> QED BY <1>2, <1>4

LEMMA StartBatchContactsKeeps == IInv /\ StartBatchContacts => IInv'
<1> SUFFICES ASSUME IInv, StartBatchContacts PROVE IInv'
  OBVIOUS
<1>1. /\ run = Idle /\ batch = NoBatch /\ left > 0 /\ left' = left - 1 /\ interrupt' = FALSE /\ taken' = Nothing
      /\ UNCHANGED <<device, link, run, vault>>
  BY DEF StartBatchContacts, Nothing
<1> DEFINE allowed(a, yes, interactive, agrees) == a = "discover" \/ yes \/ (interactive /\ agrees)
           queue(a, yes, interactive, agrees, order) ==
              IF allowed(a, yes, interactive, agrees) THEN [i \in 1 .. Len(order) |-> ContactPath(a, order[i])] ELSE <<>>
<1>2. PICK targets \in SUBSET Listed(device), yes \in BOOLEAN, interactive \in BOOLEAN, agrees \in BOOLEAN, a \in {"discover", "reset"} :
          /\ batch' = [NoBatch EXCEPT !.kind = "contacts", !.yes = yes \/ a = "reset",
                                      !.queue = queue(a, yes, interactive, agrees, SetToSeq(targets))]
          /\ consented' = (yes \/ (a = "reset" /\ interactive /\ agrees))
  BY DEF StartBatchContacts
<1> DEFINE S == {p \in Programs : p.name # "inbox"}
           s == SetToSeq(targets)
           q == queue(a, yes, interactive, agrees, s)
           y == yes \/ a = "reset"
<1>3. s \in Seq(Contacts)
  <2>1. targets \in SUBSET Contacts
    BY DEF Listed
  <2>2. s \in Seq(targets)
    BY <2>1, OrderIs
  <2> HIDE DEF s
  <2> QED BY <2>1, <2>2
<1> HIDE DEF s
<1>4. q \in Seq(S) /\ (q # <<>> => allowed(a, yes, interactive, agrees))
  <2>1. \A i \in 1 .. Len(s) : ContactPath(a, s[i]) \in S
    BY <1>3, PathIsCommand
  <2>2. Len(s) \in Nat
    BY <1>3
  <2> HIDE DEF S
  <2>3. [i \in 1 .. Len(s) |-> ContactPath(a, s[i])] \in Seq(S)
    BY <2>1, <2>2
  <2> QED BY <2>3
<1>5. y \in BOOLEAN /\ (y => yes \/ a = "reset")
  OBVIOUS
<1>6. (q # <<>> /\ y => consented') /\ consented' \in BOOLEAN
  BY <1>2, <1>4, <1>5
<1>7. batch' = [NoBatch EXCEPT !.kind = "contacts", !.yes = y, !.queue = q]
  BY <1>2 DEF s
<1> HIDE DEF q, y
<1>8. batch' = [kind |-> "contacts", queue |-> q, yes |-> y, begun |-> 0, invalid |-> FALSE, failed |-> FALSE]
  BY <1>7 DEF NoBatch
<1>9. batch' \in [kind : {"none", "file", "contacts"}, queue : Seq(S), yes : BOOLEAN, begun : Nat, invalid : BOOLEAN, failed : BOOLEAN]
  <2>1. FALSE \in BOOLEAN
    OBVIOUS
  <2> QED BY <1>4, <1>5, <1>8, <2>1, BatchMade
<1>10. batch'.queue = q /\ batch'.yes = y /\ batch'.begun = 0 /\ batch'.invalid = FALSE /\ batch'.failed = FALSE
  BY <1>8
<1>11. BatchOK'
  BY <1>6, <1>9, <1>10 DEF BatchOK
<1> QED BY <1>1, <1>6, <1>11, BatchBegins

LEMMA NextLineKeeps == IInv /\ NextLine => IInv'
<1> SUFFICES ASSUME IInv, NextLine PROVE IInv'
  OBVIOUS
<1> DEFINE S == {p \in Programs : p.name # "inbox"}
<1>1. /\ run = Idle /\ batch.queue # <<>> /\ ~batch.failed /\ run' = Start(Head(batch.queue), batch.yes, FALSE)
      /\ batch' = [batch EXCEPT !.queue = Tail(@), !.begun = @ + 1]
      /\ UNCHANGED <<device, link, vault, interrupt, left, consented, taken>>
  BY DEF NextLine, InheritGlobals
<1>2. /\ batch \in [kind : {"none", "file", "contacts"}, queue : Seq(S), yes : BOOLEAN, begun : Nat, invalid : BOOLEAN, failed : BOOLEAN]
      /\ (batch.yes => consented) /\ ~batch.invalid
  BY <1>1 DEF IInv, BatchOK
<1>3. Head(batch.queue) \in S /\ Tail(batch.queue) \in Seq(S) /\ batch.begun + 1 \in Nat
  <2> HIDE DEF S
  <2> QED BY <1>1, <1>2
<1>4. link = "down"
  BY <1>1, LinkDown
<1>5. taken.off \in Nat /\ taken.known \in Nat /\ WorldOK
  BY DEF IInv, WorldOK
<1>6. RunOK(run', "down", device, taken, consented)
  <2>1. ProgramOK(Head(batch.queue)) /\ Head(batch.queue).name # "inbox"
    BY <1>3, ProgramsOK
  <2> QED BY <1>1, <1>2, <1>5, <2>1, StartOK
<1> DEFINE q == Tail(batch.queue)
           n == batch.begun + 1
<1>7. batch' = [[batch EXCEPT !.queue = q] EXCEPT !.begun = n]
  BY <1>1
<1>8. /\ batch' \in [kind : {"none", "file", "contacts"}, queue : Seq(S), yes : BOOLEAN, begun : Nat, invalid : BOOLEAN, failed : BOOLEAN]
      /\ batch'.yes = batch.yes /\ batch'.invalid = batch.invalid /\ batch'.failed = batch.failed
  <2> HIDE DEF S
  <2>1. q \in Seq(S) /\ n \in Nat
    BY <1>3
  <2> HIDE DEF q, n
  <2> QED BY <1>2, <1>7, <2>1
<1>9. BatchOK'
  BY <1>1, <1>2, <1>8 DEF BatchOK
<1>10. WorldOK'
  BY <1>1, <1>5 DEF WorldOK
<1> QED BY <1>1, <1>4, <1>6, <1>9, <1>10 DEF IInv

LEMMA ExitKeeps == IInv /\ Exit => IInv'
<1> SUFFICES ASSUME IInv, Exit PROVE IInv'
  OBVIOUS
<1> DEFINE b == batch.kind # "none" /\ ~Succeeded(run)
           S == Seq({p \in Programs : p.name # "inbox"})
<1>1. /\ run.phase = "exit" /\ run' = Idle /\ batch' = [batch EXCEPT !.failed = b]
      /\ UNCHANGED <<device, link, vault, interrupt, left, consented, taken>>
  BY DEF Exit
<1>2. b \in BOOLEAN
  OBVIOUS
<1>3. /\ batch \in [kind : {"none", "file", "contacts"}, queue : S, yes : BOOLEAN, begun : Nat, invalid : BOOLEAN, failed : BOOLEAN]
      /\ (batch.queue # <<>> /\ batch.yes => consented)
      /\ (batch.invalid => batch.begun = 0 /\ batch.queue = <<>>)
  BY DEF IInv, BatchOK
<1> HIDE DEF b
<1>4. /\ batch' \in [kind : {"none", "file", "contacts"}, queue : S, yes : BOOLEAN, begun : Nat, invalid : BOOLEAN, failed : BOOLEAN]
      /\ batch'.queue = batch.queue /\ batch'.yes = batch.yes /\ batch'.invalid = batch.invalid /\ batch'.begun = batch.begun
  <2> HIDE DEF S
  <2> QED BY <1>1, <1>2, <1>3
<1>5. BatchOK'
  BY <1>1, <1>3, <1>4 DEF BatchOK
<1>6. link = "down"
  BY <1>1, LinkDown
<1>7. taken.off \in Nat /\ taken.known \in Nat /\ WorldOK
  BY DEF IInv, WorldOK
<1>8. RunOK(Idle, "down", device, taken, consented)
  BY <1>7, IdleOK
<1>9. WorldOK'
  BY <1>1, <1>7 DEF WorldOK
<1> QED BY <1>1, <1>5, <1>6, <1>8, <1>9 DEF IInv

LEMMA EndBatchKeeps == IInv /\ EndBatch => IInv'
<1> SUFFICES ASSUME IInv, EndBatch PROVE IInv'
  OBVIOUS
<1>1. batch' = NoBatch /\ UNCHANGED <<device, link, run, vault, interrupt, left, consented, taken>>
  BY DEF EndBatch
<1>2. BatchOK'
  BY <1>1, NoBatchIs DEF BatchOK
<1>3. WorldOK' /\ RunOK(run', link', device', taken', consented')
  BY <1>1 DEF IInv, WorldOK
<1> QED BY <1>2, <1>3 DEF IInv

LEMMA SignalKeeps == IInv /\ Signal => IInv'
<1> SUFFICES ASSUME IInv, Signal PROVE IInv'
  OBVIOUS
<1>1. interrupt' = TRUE /\ UNCHANGED <<device, link, run, batch, vault, left, consented, taken>> /\ run.phase # "idle"
  BY DEF Signal
<1> QED BY <1>1, TypesNow, Preserved

LEMMA KillKeeps == IInv /\ Kill => IInv'
<1> SUFFICES ASSUME IInv, Kill PROVE IInv'
  OBVIOUS
<1>1. /\ run' = Idle /\ batch' = NoBatch /\ link' = "down" /\ interrupt' = FALSE
      /\ UNCHANGED <<device, vault, left, consented, taken>>
  BY DEF Kill
<1>2. taken.off \in Nat /\ taken.known \in Nat /\ WorldOK
  BY DEF IInv, WorldOK
<1>3. RunOK(Idle, "down", device, taken, consented)
  BY <1>2, IdleOK
<1>4. BatchOK'
  BY <1>1, NoBatchIs DEF BatchOK
<1>5. WorldOK'
  BY <1>1, <1>2 DEF WorldOK
<1> QED BY <1>1, <1>3, <1>4, <1>5 DEF IInv

LEMMA RemoteChangeKeeps == IInv /\ RemoteChange => IInv'
<1> SUFFICES ASSUME IInv, RemoteChange PROVE IInv'
  OBVIOUS
<1>1. run.phase = "work" /\ UNCHANGED <<link, run, batch, vault, interrupt, left, consented, taken>>
  BY DEF RemoteChange
<1>2. device' \in Devices
  <2>1. CASE \E c \in device.sessions : device' = [device EXCEPT !.sessions = @ \ {c}]
    BY <2>1, TypesNow DEF Devices
  <2>2. CASE \E c \in Listed(device) : device' = [device EXCEPT !.rows[c].route = "learned"]
    <3>1. PICK c \in Listed(device) : device' = [device EXCEPT !.rows[c].route = "learned"]
      BY <2>2
    <3>2. "learned" \in Routes /\ device \in Devices
      BY TypesNow DEF Routes
    <3>3. [device EXCEPT !.rows[c].route = "learned"] \in Devices
      BY <3>2, RouteWritten
    <3> QED BY <3>1, <3>3
  <2> QED BY <2>1, <2>2 DEF RemoteChange
<1>3. Working(run, link, taken, consented) /\ run.todo # <<>>
  BY <1>1, TypesNow, WorkState
<1>4. RunOK(run, link, device', taken, consented)
  BY <1>3, WorkGoesOn
<1> QED BY <1>1, <1>2, <1>4, TypesNow, Preserved

LEMMA InitHolds == Init => IInv
<1> SUFFICES ASSUME Init PROVE IInv
  OBVIOUS
<1>1. /\ link = "down" /\ run = Idle /\ batch = NoBatch /\ vault = [c \in Contacts |-> "none"]
      /\ interrupt = FALSE /\ left = MaxCommands /\ consented = FALSE /\ taken = Nothing
  BY DEF Init, Nothing
<1>2. device \in Devices
  <2>1. PICK s \in SUBSET Contacts, m \in {0, MaxMail} :
           device = [time |-> "past", rows |-> [c \in Contacts |-> IF c \in s THEN Row("learned", "old") ELSE NoRow],
                     channel |-> "first", sessions |-> {}, mail |-> m, defaultScope |-> "none",
                     scope |-> "default", hash |-> "before"]
    BY DEF Init
  <2>2. [c \in Contacts |-> IF c \in s THEN Row("learned", "old") ELSE NoRow] \in [Contacts -> [route : Routes, name : Names] \cup {NoRow}]
    BY DEF Row, Routes, Names
  <2>3. m \in 0 .. MaxMail
    BY DeviceAssumption
  <2> QED BY <2>1, <2>2, <2>3 DEF Devices
<1>3. WorldOK
  <2>1. left \in 0 .. MaxCommands
    BY <1>1, CommandsAssumption
  <2>2. vault \in [Contacts -> {"none", "right"}]
    BY <1>1
  <2> QED BY <1>1, <1>2, <2>1, <2>2, NothingIs DEF WorldOK
<1>4. BatchOK
  BY <1>1, NoBatchIs DEF BatchOK
<1>5. RunOK(Idle, "down", device, Nothing, consented)
  BY NothingIs, IdleOK
<1> QED BY <1>1, <1>3, <1>4, <1>5 DEF IInv

LEMMA NextKeeps == IInv /\ [Next]_vars => IInv'
<1> SUFFICES ASSUME IInv, [Next]_vars PROVE IInv'
  OBVIOUS
<1>1. CASE Steps
  BY <1>1, CheckKeeps, AnswerConfirmKeeps, RunHookKeeps, ResolveKeeps, AskDeviceKeeps, SetTemporarilyKeeps, RestoreKeeps,
     ReadBackKeeps, ReadRowKeeps, WriteRowKeeps, CollectKeeps, PasswordKeeps, LoginKeeps, KeepCredentialKeeps,
     CheckSessionKeeps, PollKeeps, BeginKeeps, TransmitKeeps, RecordSentKeeps, AwaitAckKeeps, DrainKeeps, PrintInsideKeeps
     DEF Steps
<1>2. CASE Session
  BY <1>2, OpenSessionKeeps, ActivateKeeps, ErrorHookKeeps, ShutdownKeeps, DisconnectHookKeeps, ReportKeeps DEF Session
<1>3. CASE User
  BY <1>3, StartCommandKeeps, StartBatchFileKeeps, StartBatchContactsKeeps, NextLineKeeps, ExitKeeps, EndBatchKeeps DEF User
<1>4. CASE UNCHANGED vars
  BY <1>4 DEF vars, IInv, WorldOK, BatchOK
<1>5. Done => UNCHANGED vars
  BY DEF Done
<1> QED BY <1>1, <1>2, <1>3, <1>4, <1>5, SignalKeeps, KillKeeps, RemoteChangeKeeps DEF Next

-----------------------------------------------------------------------------
(* What the invariant says.                                                *)

LEMMA ClosedHolds == IInv => SessionsAreClosed
<1> SUFFICES ASSUME IInv PROVE SessionsAreClosed
  OBVIOUS
<1>1. RunBase(run) /\ HooksOK(run, link)
  BY DEF IInv, RunOK
<1>2. TypeOK
  <2>1. batch.kind \in {"none", "file", "contacts"}
    BY DEF IInv, BatchOK
  <2>2. vault \in [Contacts -> {"none", "right", "wrong"}]
    BY DEF IInv, WorldOK
  <2> QED BY <1>1, <2>1, <2>2 DEF IInv, WorldOK, RunBase, TypeOK
<1>3. run.phase \in Phases
  BY <1>1 DEF RunBase
<1>4. /\ run.on \in 0 .. 1 /\ run.off \in 0 .. 1 /\ run.told \in 0 .. 1 /\ run.off <= run.on
      /\ run.phase = "exit" => run.on = run.off /\ link = "down"
  <2>1. CASE run.phase \in {"idle", "local", "connect", "activate"}
    BY <1>1, <2>1 DEF HooksOK
  <2>2. CASE run.phase \in {"work", "restore", "error_hook"}
    BY <1>1, <2>2 DEF HooksOK
  <2>3. CASE run.phase \in {"shutdown", "disconnect_hook", "print"}
    BY <1>1, <2>3 DEF HooksOK
  <2>4. CASE run.phase = "exit"
    BY <1>1, <2>4 DEF HooksOK
  <2> QED BY <1>3, <2>1, <2>2, <2>3, <2>4 DEF Phases
<1>5. HooksBalanced
  BY <1>4 DEF HooksBalanced
<1> QED BY <1>2, <1>5 DEF SessionsAreClosed

LEMMA RestoredHolds == IInv => TemporarySettingIsRestored
<1> SUFFICES ASSUME IInv, run.phase = "exit", Temporary
             PROVE  /\ Succeeded(run) => ~run.doubtful
                    /\ ~run.doubtful /\ run.on > 0 /\ run.owed =>
                          IF run.program.name = "network_trace" THEN device.hash = "before" ELSE device.scope # "temporary"
  BY DEF TemporarySettingIsRestored
<1>1. SettingOK(run, device) /\ run.phase \in Ended
  BY DEF IInv, RunOK, Ended
<1>2. /\ run.doubtful => run.error # "none" \/ run.post # "none"
      /\ run.program.restore # <<>> /\ run.owed /\ ~run.doubtful => Undone(run, device)
  BY <1>1 DEF SettingOK
<1> QED BY <1>2 DEF Temporary, Succeeded, Undone

LEMMA WaitsIs ==
    ASSUME NEW p, p.work \in Seq(AnyStep)
    PROVE  Waits(p) <=> Has(p.work, "await")
<1>1. DOMAIN p.work = 1 .. Len(p.work)
  BY DEF AnyStep
<1> QED BY <1>1 DEF Waits, Has, ToSet

LEMMA ReportsHold == IInv => ReportsAreTrue
<1> SUFFICES ASSUME IInv PROVE ReportsAreTrue
  OBVIOUS
<1>1. RunBase(run) /\ ResultOK(run) /\ SendOK(run) /\ MailOK(run, taken)
  BY DEF IInv, RunOK
<1>2. run.phase = "exit" => run.phase \in Late
  BY DEF Late
<1>3. SuccessIsReal
  BY <1>1, <1>2 DEF SuccessIsReal, ResultOK, Succeeded
<1>4. run.phase = "exit" => SendLate(run)
  BY <1>1, <1>2 DEF SendOK
<1>5. Waits(run.program) <=> Has(run.program.work, "await")
  BY <1>1, WaitsIs DEF RunBase, ProgramOK
<1>6. AcceptedIsReported /\ RecordIsHonest
  <2>1. run.phase = "exit" /\ run.error = "none" => run.printed
    BY <1>1 DEF ResultOK
  <2> QED BY <1>4, <1>5, <2>1 DEF AcceptedIsReported, RecordIsHonest, SendLate
<1>7. TakenMailIsKept
  <2>1. taken.off \in Nat /\ taken.known \in Nat
    BY <1>1 DEF MailOK, Counted, Counts
  <2> QED BY <1>1, <2>1 DEF TakenMailIsKept, MailOK, Counted, Counts
<1>8. SavedPasswordWorks
  BY DEF IInv, WorldOK, SavedPasswordWorks
<1>9. RoomIsReserved
  <2>1. device \in Devices
    BY DEF IInv, WorldOK
  <2> QED BY <2>1, RoomSuffices DEF RoomIsReserved
<1> QED BY <1>3, <1>5, <1>6, <1>7, <1>8, <1>9 DEF ReportsAreTrue

LEMMA PrefixHolds == IInv => BatchIsPrefix
BY DEF IInv, BatchOK, BatchIsPrefix

\* A destructive request is at the head of the work only behind its confirmation.
LEMMA ConsentHolds == IInv /\ run.phase = "work" /\ run.todo # <<>> /\ Destructive(Head(run.todo).req) => consented
<1> SUFFICES ASSUME IInv, run.phase = "work", run.todo # <<>>, Destructive(Head(run.todo).req), ~consented PROVE FALSE
  OBVIOUS
<1>1. run.todo \in Seq(AnyStep)
  BY DEF IInv, RunOK, RunBase
<1>2. Guarded(run.todo)
  BY DEF IInv, RunOK, ConsentOK
<1> QED BY <1>1, <1>2, TailGuarded

-----------------------------------------------------------------------------
(* The theorems.                                                           *)

LEMMA Inductive == Spec => []IInv
<1>1. Init => IInv
  BY InitHolds
<1>2. IInv /\ [Next]_vars => IInv'
  BY NextKeeps
<1> QED BY <1>1, <1>2, PTL DEF Spec

\* CompanionSession::finish, finish_workflow, cleanup_workflow: whichever step fails, whatever
\* request or answer is lost and whenever the link goes, a command that ends by itself has run
\* on_disconnect as often as on_connect, on_error at most once, and has let the link go.
THEOREM EverySessionIsClosed == Spec => []SessionsAreClosed
<1>1. IInv => SessionsAreClosed
  BY ClosedHolds
<1> QED BY <1>1, Inductive, PTL

\* device advertise, network discover, network trace and send: the flood scope or the path hash
\* mode a command sets for itself is undone when it ends, unless the request to make or undo it
\* was not confirmed, and then it does not report success.
THEOREM SettingsAreRestored == Spec => []TemporarySettingIsRestored
<1>1. IInv => TemporarySettingIsRestored
  BY RestoredHolds
<1> QED BY <1>1, Inductive, PTL

\* The exit status, the printed result, the history record of a send, the mail that inbox takes
\* while history is kept and the password that remote login keeps agree with what device and
\* remote node did, and the room that command_response_count reserves suffices for every answer.
\* Excepted is a send whose wait for the ACK failed: it prints nothing, and an error other than the
\* deadline or an interrupt marks the accepted message failed.
THEOREM ReportsAgree == Spec => []ReportsAreTrue
<1>1. IInv => ReportsAreTrue
  BY ReportsHold
<1> QED BY <1>1, Inductive, PTL

\* confirm, inherit_globals, parse_script: a request that destroys something is made only after
\* the user agreed, directly or from a batch; with an invalid line nothing is executed and
\* nothing follows a failed line.
THEOREM ConsentIsAsked == Spec => OnlyWhatWasAsked
<1> DEFINE A == run.phase = "work" /\ run.todo # <<>> /\ Destructive(Head(run.todo).req)
                  /\ run'.todo # run.todo /\ run'.phase # "idle" => consented
<1>1. IInv => [A]_vars
  BY ConsentHolds
<1>2. IInv => BatchIsPrefix
  BY PrefixHolds
<1>3. Spec => [][A]_vars
  BY <1>1, Inductive, PTL
<1>4. Spec => []BatchIsPrefix
  BY <1>2, Inductive, PTL
<1> QED BY <1>3, <1>4 DEF OnlyWhatWasAsked, NoChangeWithoutConsent

=============================================================================
