--------------------------- MODULE DeviceCommands ---------------------------
(***************************************************************************)
(* The commands of the command line that open a session with the           *)
(* companion, do their work and leave (runtime.rs, remote_cli.rs,          *)
(* batch_cli.rs, CompanionSession of workflow.rs).  A command is a program *)
(* of steps; one interpreter runs it: local checks and confirmation, the   *)
(* connection, the on_connect hook, the work, the restoring of temporary   *)
(* settings and the two ways to finish.  A step may fail, the answer to a  *)
(* request may be lost before or after the device acted on it, the link    *)
(* may go and the process may be killed.                                   *)
(***************************************************************************)
EXTENDS CompanionDevice, SequencesExt

CONSTANTS MaxCommands,   \* bound: commands the user starts
          MaxBatch,      \* bound: lines of a batch file
          HistoryEnabled \* config.history.enabled

ASSUME CommandsAssumption ==
    MaxCommands \in Nat /\ MaxBatch \in Nat /\ HistoryEnabled \in BOOLEAN

VARIABLES
    device,      \* the companion
    link,        \* "down", "up" or "lost": the session of ManagedClient
    run,         \* the command that runs
    batch,       \* the batch command around it, if any
    vault,       \* [Contacts -> the password kept for it]: "none", "right" or "wrong"
    interrupt,   \* the token of InterruptWatcher
    left,        \* commands the user may still start
    consented,   \* history: the user has agreed to what the command changes
    taken        \* history: [taken, known, shown]: messages taken off the device, those in
                 \* the history store, those printed

vars == <<device, link, run, batch, vault, interrupt, left, consented, taken>>

-----------------------------------------------------------------------------
(* Programs.                                                               *)

Step(do, code, contact, value) == [do |-> do, req |-> Request(code, contact, value)]
Local(do) == Step(do, "none", NoContact, "none")
Ask(code) == Step("ask", code, NoContact, "none")
AskOf(code, c, v) == Step("ask", code, c, v)
NoGoal == [field |-> "none", contact |-> NoContact, value |-> "none"]
Goal(field, c, v) == [field |-> field, contact |-> c, value |-> v]

\* A command that CompanionSession frames; the result is printed after it closed.
Framed(name, local, work, goal) ==
    [name |-> name, local |-> local, work |-> work, restore |-> <<>>, style |-> "session",
     inside |-> FALSE, goal |-> goal]
Restoring(p, steps) == [p EXCEPT !.restore = steps]
PrintedInside(p) == [p EXCEPT !.inside = TRUE, !.work = @ \o <<Local("print")>>]

Confirm == <<Local("confirm")>>
ResetScope == <<AskOf("set_flood_scope", NoContact, "default")>>
ListAndResolve(c) == <<Ask("list_contacts"), Step("resolve", "none", c, "none")>>

Connect == [Framed("connect", <<>>, <<>>, NoGoal) EXCEPT !.style = "workflow"]

DeviceInfo == Framed("device_info", <<>>, <<Ask("query_device_info")>>, NoGoal)

DeviceTelemetry ==
    Framed("device_telemetry", <<>>, <<Ask("get_battery"), Ask("get_self_telemetry")>>, NoGoal)

DeviceClock(sync) ==
    IF sync THEN Framed("device_clock", <<>>,
                        <<Ask("get_time"), AskOf("set_time", NoContact, "host"), Local("readback")>>,
                        Goal("time", NoContact, "host"))
    ELSE Framed("device_clock", <<>>, <<Ask("get_time")>>, NoGoal)

DeviceAdvertise(scoped) ==
    IF scoped
    THEN Restoring(Framed("device_advertise", <<Local("check")>>,
                          <<Step("set", "set_flood_scope", NoContact, "temporary"),
                            Ask("send_self_advert")>>, NoGoal), ResetScope)
    ELSE Framed("device_advertise", <<>>, <<Ask("send_self_advert")>>, NoGoal)

DeviceReboot == Framed("device_reboot", Confirm, <<Ask("reboot")>>, NoGoal)

NetworkDiscover(scoped) ==
    LET ask == <<Ask("send_node_discovery"), Local("collect")>>
    IN IF scoped
       THEN Restoring(Framed("network_discover", <<Local("check")>>,
                 <<Step("set", "set_flood_scope", NoContact, "temporary")>> \o ask, NoGoal), ResetScope)
       ELSE Framed("network_discover", <<>>, ask, NoGoal)

NetworkScope(action) ==
    CASE action = "query" -> Framed("network_scope", <<>>, <<Ask("get_default_flood_scope")>>, NoGoal)
      [] action = "set" ->
            Framed("network_scope", <<Local("check")>>,
                   <<AskOf("set_flood_scope", NoContact, "chosen")>>, Goal("scope", NoContact, "chosen"))
      [] action = "set_default" ->
            Framed("network_scope", <<Local("check")>>,
                   <<AskOf("set_default_flood_scope", NoContact, "named")>>,
                   Goal("defaultScope", NoContact, "named"))
      [] action = "clear_default" ->
            Framed("network_scope", <<Local("check")>>,
                   <<AskOf("set_default_flood_scope", NoContact, "none")>>,
                   Goal("defaultScope", NoContact, "none"))

\* The mode is changed only when it differs, and then changed back.
NetworkTrace(c) ==
    Restoring(Framed("network_trace", <<Local("check")>>,
                     ListAndResolve(c) \o
                       <<Ask("get_path_hash_mode"),
                         Step("differ", "set_path_hash_mode", NoContact, "requested"),
                         AskOf("discover_path", c, "none")>>, NoGoal),
              <<AskOf("set_path_hash_mode", NoContact, "before")>>)

OnContact(c, steps, goal) ==
    PrintedInside(Framed("contacts", <<>>, ListAndResolve(c) \o steps, goal))

ContactList == PrintedInside(Framed("contacts", <<>>, <<Ask("list_contacts")>>, NoGoal))

ContactShow(c) == OnContact(c, <<>>, NoGoal)

\* get_contact reads the row afresh; update_contact writes it back with the change.
ContactUpdate(c) ==
    OnContact(c, <<Step("row", "get_contact", c, "none"), Local("check"),
                   Step("write", "update_contact", c, "name"), Local("hook")>>,
              Goal("name", c, "new"))

ContactForget(c) ==
    OnContact(c, Confirm \o <<AskOf("remove_contact", c, "none"), Local("hook")>>,
              Goal("rows", c, "none"))

ContactExport(c) == OnContact(c, <<AskOf("export_contact", c, "none")>>, NoGoal)

ContactImport(c) ==
    PrintedInside(Framed("contacts", <<>>,
        <<Local("check"), AskOf("import_contact", c, "card"), Local("hook")>>, Goal("name", c, "new")))

ContactPath(action, c) ==
    CASE action = "show" -> OnContact(c, <<AskOf("get_advert_path", c, "none")>>, NoGoal)
      [] action = "discover" -> OnContact(c, <<AskOf("discover_path", c, "none")>>, NoGoal)
      [] action = "reset" ->
            OnContact(c, Confirm \o <<AskOf("reset_path", c, "none"), Local("hook")>>,
                      Goal("route", c, "flood"))

ContactPathSet(c) ==
    OnContact(c, <<Step("row", "get_contact", c, "none"), Ask("get_path_hash_mode"),
                   Local("check")>> \o Confirm \o
                 <<Step("write", "update_contact", c, "route"), Local("hook")>>,
              Goal("route", c, "chosen"))

CollectChannelViews == <<Ask("query_device_info"), Ask("get_channel")>>

ChannelRead == PrintedInside(Framed("channels", <<>>, CollectChannelViews \o <<Local("check")>>, NoGoal))

ChannelSet ==
    PrintedInside(Framed("channels", <<Local("check")>>,
        CollectChannelViews \o <<Local("check"), AskOf("set_channel", NoContact, "second")>>,
        Goal("channel", NoContact, "second")))

ChannelRemove ==
    PrintedInside(Framed("channels", <<>>,
        CollectChannelViews \o <<Local("check")>> \o Confirm \o
          <<AskOf("clear_channel", NoContact, "empty")>>, Goal("channel", NoContact, "empty")))

\* Interrupts are polled between the steps; the wait for the ACK is interruptible.
Send(scoped, c, wait) ==
    [name |-> "send", local |-> <<Local("check"), Local("gate"), Local("check")>>,
     work |-> <<Local("poll")>>
              \o (IF scoped THEN <<Step("try", "set_flood_scope", NoContact, "temporary")>> ELSE <<>>)
              \o <<Local("poll"), Local("begin"), Local("poll")>>
              \o (IF c = NoContact THEN <<Step("transmit", "send_channel_message", c, "none"), Local("sent")>>
                  ELSE ListAndResolve(c) \o
                         <<Local("poll"), Step("transmit", "send_direct_text", c, "none"), Local("sent")>>)
              \o (IF wait THEN <<Local("await")>> ELSE <<>>),
     restore |-> IF scoped THEN ResetScope ELSE <<>>,
     style |-> "workflow", inside |-> FALSE, goal |-> NoGoal]

Inbox == [Framed("inbox", <<>>, <<Step("drain", "sync_next_message", NoContact, "none")>>, NoGoal)
            EXCEPT !.style = "workflow"]

RemoteLogin(c, source, save) ==
    Framed("remote_login", <<>>,
           ListAndResolve(c) \o <<Step("password", source, c, "none"), Step("login", "login", c, "none")>>
             \o (IF save THEN <<Step("save", "none", c, "none")>> ELSE <<>>),
           Goal("session", c, "open"))

RequireSession(c) == <<Step("session", "has_connection", c, "none")>>

RemoteLogout(c) ==
    Framed("remote_logout", <<>>,
           ListAndResolve(c) \o RequireSession(c) \o <<AskOf("logout", c, "none")>>,
           Goal("session", c, "closed"))

CredentialsForget(c) ==
    Framed("remote_credentials_forget", Confirm,
           ListAndResolve(c) \o <<Step("forget", "none", c, "none")>>, Goal("vault", c, "none"))

RemoteRun(c, destructive) ==
    Framed("remote_run", <<Local("check")>> \o (IF destructive THEN Confirm ELSE <<>>),
           ListAndResolve(c) \o RequireSession(c) \o
             <<AskOf("send_direct_command", c, IF destructive THEN "destructive" ELSE "read_only")>>,
           NoGoal)

RemoteStatus(c) ==
    Framed("remote_status", <<>>,
           ListAndResolve(c) \o RequireSession(c) \o <<AskOf("remote_status", c, "none")>>, NoGoal)

\* neighbours, sensor telemetry, summary and acl: encode, ask, parse the answer.
RemoteBinary(c) ==
    Framed("remote_neighbours", <<Local("check")>>,
           ListAndResolve(c) \o RequireSession(c) \o
             <<AskOf("binary_request", c, "known"), Local("check")>>, NoGoal)

\* regions, owner and clock need no session.
RemoteAnonymous(c, sync) ==
    Framed("remote_clock", <<>>,
           ListAndResolve(c) \o <<AskOf("anonymous_request", c, "known"), Local("check")>> \o
             (IF sync THEN RequireSession(c) \o <<AskOf("send_direct_command", c, "clock_sync")>>
              ELSE <<>>), NoGoal)

Sessions(c) ==
    {RemoteLogin(c, source, save) : source \in {"stdin", "stored"}, save \in BOOLEAN}
      \cup {RemoteLogout(c), CredentialsForget(c), RemoteStatus(c), RemoteBinary(c)}
      \cup {RemoteRun(c, d) : d \in BOOLEAN} \cup {RemoteAnonymous(c, s) : s \in BOOLEAN}

ContactCommands(c) ==
    {ContactShow(c), ContactUpdate(c), ContactForget(c), ContactExport(c), ContactImport(c),
     ContactPathSet(c), NetworkTrace(c)}
      \cup {ContactPath(a, c) : a \in {"show", "discover", "reset"}}

\* dispatch: the commands that open a session.
Programs ==
    {Connect, DeviceInfo, DeviceTelemetry, DeviceReboot, ContactList, ChannelRead, ChannelSet,
     ChannelRemove, Inbox}
      \cup {DeviceClock(b) : b \in BOOLEAN} \cup {DeviceAdvertise(b) : b \in BOOLEAN}
      \cup {NetworkDiscover(b) : b \in BOOLEAN}
      \cup {NetworkScope(a) : a \in {"query", "set", "set_default", "clear_default"}}
      \cup (UNION {ContactCommands(c) \cup Sessions(c) : c \in Contacts})
      \cup {Send(s, c, w) : s \in BOOLEAN, c \in Contacts, w \in BOOLEAN}
      \cup {Send(s, NoContact, FALSE) : s \in BOOLEAN}

-----------------------------------------------------------------------------
(* The state of a command.                                                 *)

NoProgram == Framed("none", <<>>, <<>>, NoGoal)

Start(p, yes, interactive) ==
    [program |-> p, phase |-> IF p.local = <<>> THEN "connect" ELSE "local", todo |-> p.local,
     error |-> "none",      \* the primary error
     post |-> "none",       \* post_acceptance_error
     yes |-> yes, interactive |-> interactive,
     owed |-> FALSE,        \* a temporary setting has to be undone
     doubtful |-> FALSE,    \* history: a request to set or undo it was not confirmed
     on |-> 0, off |-> 0, told |-> 0,  \* on_connect, on_disconnect, on_error hooks
     row |-> NoRow, password |-> "none",
     record |-> "none", unstored |-> FALSE,  \* the history record; history: a write of it failed
     accepted |-> FALSE, printed |-> FALSE, reached |-> p.goal = NoGoal]

Idle == [Start(NoProgram, FALSE, FALSE) EXCEPT !.phase = "idle"]
NoBatch == [kind |-> "none", queue |-> <<>>, yes |-> FALSE, begun |-> 0, invalid |-> FALSE,
            failed |-> FALSE]

Statuses == {"none", "usage", "denied", "not_found", "authentication", "protocol", "timeout",
             "connection", "hook", "configuration", "interrupted", "output"}

\* should_emit_error
ShouldEmitError(e) == e \notin {"none", "hook", "interrupted"}

Finish(r) ==
    [r EXCEPT !.phase = IF r.program.style = "workflow" THEN "disconnect_hook"
                        ELSE IF ShouldEmitError(r.error) THEN "error_hook" ELSE "shutdown"]

\* Mutant: a failed command does not undo its temporary setting.
SettleWithoutRestore(r) ==
    CASE r.todo # <<>> -> r
      [] r.todo = <<>> /\ r.phase = "local" ->
            [r EXCEPT !.phase = IF r.error = "none" THEN "connect" ELSE "exit"]
      [] r.todo = <<>> /\ r.phase = "work" /\ r.owed /\ r.program.restore # <<>> /\ r.error = "none" ->
            [r EXCEPT !.phase = "restore", !.todo = r.program.restore]
      [] OTHER -> Finish(r)

\* Where the command is once the steps of its phase are done.
Settle(r) ==
    CASE r.todo # <<>> -> r
      [] r.todo = <<>> /\ r.phase = "local" ->
            [r EXCEPT !.phase = IF r.error = "none" THEN "connect" ELSE "exit"]
      [] r.todo = <<>> /\ r.phase = "work" /\ r.owed /\ r.program.restore # <<>> ->
            [r EXCEPT !.phase = "restore", !.todo = r.program.restore]
      [] OTHER -> Finish(r)

Advance(r) == Settle([r EXCEPT !.todo = Tail(@)])
Fail(r, e) == Settle([r EXCEPT !.error = e, !.todo = <<>>])

\* Mutant: an error after the acceptance is an error of the send.
LaterIsPrimary(r, e) == Fail(r, e)

\* send: an error after the acceptance never hides the report.
Later(r, e) == Advance([r EXCEPT !.post = IF @ = "none" THEN e ELSE @])

Doing(kind) == run.phase \in {"local", "work"} /\ run.todo # <<>> /\ Head(run.todo).do = kind
Current == Head(run.todo).req
RowOf(r) == device.rows[r.contact]

\* Every way a request may go: answered, or its answer or itself lost, with the link or not.
Outcomes(req) ==
    IF link # "up" THEN {[device |-> device, link |-> link, error |-> "connection", replies |-> <<>>]}
    ELSE LET h == Handle(device, req)
             answered == [device |-> h.device, link |-> IF req.code = "reboot" THEN "lost" ELSE "up",
                          error |-> IF Succeeds(req, h.replies) THEN "none" ELSE Refusal(req, h.replies),
                          replies |-> h.replies]
         IN {answered} \cup
            {[device |-> d, link |-> l, error |-> IF l = "up" THEN "timeout" ELSE "connection",
              replies |-> <<>>] : d \in {device, h.device}, l \in {"up", "lost"}}

GoalHolds(g, d, v) ==
    CASE g.field = "none" -> TRUE
      [] g.field \in {"time", "scope", "defaultScope", "channel"} -> d[g.field] = g.value
      [] g.field = "rows" -> d.rows[g.contact] = NoRow
      [] g.field \in {"name", "route"} -> d.rows[g.contact][g.field] = g.value
      [] g.field = "session" -> (g.contact \in d.sessions) = (g.value = "open")
      [] g.field = "vault" -> v[g.contact] = "none"

\* The device and the link after a request, and whether the goal is reached by then.
After(o, r) ==
    /\ device' = o.device /\ link' = o.link
    /\ run' = [r EXCEPT !.reached = @ \/ GoalHolds(run.program.goal, o.device, vault)]

\* A failed or interrupted send marks its record; the write of the mark may fail.
FailedSend(r, e) ==
    IF r.program.name = "send" /\ r.record = "pending" /\ ~r.accepted
    THEN {Fail([r EXCEPT !.record = "failed"], e), Fail([r EXCEPT !.unstored = TRUE], e)}
    ELSE {Fail(r, e)}

-----------------------------------------------------------------------------
(* Steps.                                                                  *)

\* Parsing and validation of arguments, files and payloads.
Check ==
    /\ Doing("check")
    /\ run' \in {Advance(run), Fail(run, "usage")}
    /\ UNCHANGED <<device, link, batch, vault, interrupt, left, consented, taken>>

\* confirm: --yes, or an answer at a terminal.
AnswerConfirm ==
    /\ Doing("confirm")
    /\ \/ run.yes /\ run' = Advance(run) /\ UNCHANGED consented
       \/ ~run.yes /\ run.interactive /\ run' = Advance(run) /\ consented' = TRUE
       \/ ~run.yes /\ run' = Fail(run, "denied") /\ UNCHANGED consented
    /\ UNCHANGED <<device, link, batch, vault, interrupt, left, taken>>

\* prepare_send, contact_updated: a hook that may reject or fail.
RunHook ==
    /\ Doing("gate") \/ Doing("hook")
    /\ run' \in {Advance(run), Fail(run, "hook")}
    /\ UNCHANGED <<device, link, batch, vault, interrupt, left, consented, taken>>

\* resolve_contact: the query may match no contact, or several.
Resolve ==
    /\ Doing("resolve")
    /\ \/ Current.contact \in Listed(device) /\ run' = Advance(run)
       \/ run' \in FailedSend(run, "not_found")
    /\ UNCHANGED <<device, link, batch, vault, interrupt, left, consented, taken>>

AskDevice ==
    /\ Doing("ask") /\ run.phase = "work"
    /\ \E o \in Outcomes(Current) :
          IF o.error = "none" THEN After(o, Advance(run))
          ELSE \E r \in FailedSend(run, o.error) : After(o, r)
    /\ UNCHANGED <<batch, vault, interrupt, left, consented, taken>>

\* "set": the setting is undone only when setting it was confirmed.  "try": it is undone in
\* any case.  "differ": nothing to do when the device has the requested mode.
SetTemporarily ==
    /\ Doing("set") \/ Doing("try") \/ Doing("differ")
    /\ \/ /\ Doing("differ") /\ device.hash = Current.value
          /\ run' = Advance(run) /\ UNCHANGED <<device, link>>
       \/ /\ ~(Doing("differ") /\ device.hash = Current.value)
          /\ \E o \in Outcomes(Current) :
                IF o.error = "none" THEN After(o, Advance([run EXCEPT !.owed = TRUE]))
                ELSE After(o, Fail([run EXCEPT !.owed = Doing("try"), !.doubtful = TRUE], o.error))
    /\ UNCHANGED <<batch, vault, interrupt, left, consented, taken>>

\* The first error is the one that is returned.
Restore ==
    /\ run.phase = "restore"
    /\ \E o \in Outcomes(Current) :
          LET r == [run EXCEPT !.doubtful = o.error # "none"]
          IN After(o, IF o.error = "none" \/ r.error # "none" THEN Advance(r)
                      ELSE IF r.program.name = "send" THEN Later(r, o.error)
                      ELSE Advance([r EXCEPT !.error = o.error]))
    /\ UNCHANGED <<batch, vault, interrupt, left, consented, taken>>

\* The clock of the device may have ticked since it was set.
ReadBack ==
    /\ Doing("readback")
    /\ \E o \in Outcomes(Request("get_time", NoContact, "none")) :
          \E r \in {Advance(run), Fail(run, "protocol")} :
             After(o, IF o.error = "none" THEN r ELSE Fail(run, o.error))
    /\ UNCHANGED <<batch, vault, interrupt, left, consented, taken>>

ReadRow ==
    /\ Doing("row")
    /\ \E o \in Outcomes(Current) :
          After(o, IF o.error = "none" THEN Advance([run EXCEPT !.row = RowOf(Current)])
                   ELSE Fail(run, o.error))
    /\ UNCHANGED <<batch, vault, interrupt, left, consented, taken>>

WriteRow ==
    /\ Doing("write")
    /\ LET row == IF Current.value = "name" THEN [run.row EXCEPT !.name = "new"]
                  ELSE [run.row EXCEPT !.route = "chosen"]
       IN \E o \in Outcomes([Current EXCEPT !.row = row]) :
             After(o, IF o.error = "none" THEN Advance(run) ELSE Fail(run, o.error))
    /\ UNCHANGED <<batch, vault, interrupt, left, consented, taken>>

\* collect_node_discovery: until the deadline, unless events were dropped or malformed.
Collect ==
    /\ Doing("collect")
    /\ run' \in {Advance(run), Fail(run, "protocol"), Fail(run, "connection")}
    /\ UNCHANGED <<device, link, batch, vault, interrupt, left, consented, taken>>

\* resolve_login_password: standard input, the stored credential, or a prompt.
Password ==
    /\ Doing("password")
    /\ \/ /\ Current.code = "stdin" \/ (vault[Current.contact] = "none" /\ run.interactive)
          /\ run' \in {Advance([run EXCEPT !.password = p]) : p \in {"right", "wrong"}}
                      \cup {Fail(run, "authentication")}
       \/ /\ Current.code = "stored" /\ vault[Current.contact] # "none"
          /\ run' = Advance([run EXCEPT !.password = vault[Current.contact]])
       \/ /\ Current.code = "stored" /\ vault[Current.contact] = "none" /\ ~run.interactive
          /\ run' = Fail(run, "authentication")
    /\ UNCHANGED <<device, link, batch, vault, interrupt, left, consented, taken>>

Login ==
    /\ Doing("login")
    /\ \E o \in Outcomes([Current EXCEPT !.value = run.password]) :
          After(o, IF o.error = "none" THEN Advance(run) ELSE Fail(run, o.error))
    /\ UNCHANGED <<batch, vault, interrupt, left, consented, taken>>

\* store_credential, delete_credential
KeepCredential ==
    /\ Doing("save") \/ Doing("forget")
    /\ \/ /\ vault' = [vault EXCEPT ![Current.contact] = IF Doing("save") THEN run.password ELSE "none"]
          /\ run' = Advance([run EXCEPT !.reached = @ \/ Doing("forget")])
       \/ run' = Fail(run, "authentication") /\ UNCHANGED vault
    /\ UNCHANGED <<device, link, batch, interrupt, left, consented, taken>>

\* require_session
CheckSession ==
    /\ Doing("session")
    /\ \E o \in Outcomes(Current) :
          After(o, IF o.error # "none" THEN Fail(run, o.error)
                   ELSE IF o.replies = Ok THEN Advance(run) ELSE Fail(run, "authentication"))
    /\ UNCHANGED <<batch, vault, interrupt, left, consented, taken>>

\* interrupt.token().is_cancelled()
Poll ==
    /\ Doing("poll")
    /\ IF interrupt THEN run' \in FailedSend(run, "interrupted") ELSE run' = Advance(run)
    /\ UNCHANGED <<device, link, batch, vault, interrupt, left, consented, taken>>

\* begin_outgoing
Begin ==
    /\ Doing("begin")
    /\ \/ run' = Advance([run EXCEPT !.record = IF HistoryEnabled THEN "pending" ELSE "none"])
       \/ HistoryEnabled /\ run' = Fail(run, "configuration")
    /\ UNCHANGED <<device, link, batch, vault, interrupt, left, consented, taken>>

Transmit ==
    /\ Doing("transmit")
    /\ \E o \in Outcomes(Current) :
          IF o.error = "none" THEN After(o, Advance([run EXCEPT !.accepted = TRUE]))
          ELSE \E r \in FailedSend(run, o.error) : After(o, r)
    /\ UNCHANGED <<batch, vault, interrupt, left, consented, taken>>

\* An interrupt that came before the work ended is reported with the result of the accepted
\* message; the token is read after the last step of the work.
Accepted(r) == IF interrupt /\ Len(r.todo) = 1 THEN Later(r, "interrupted") ELSE Advance(r)

\* WorkflowServices::sent: the record gets its ACK code, then the after_send hook runs.
RecordSent ==
    /\ Doing("sent")
    /\ \/ run' \in {Accepted(run), Later(run, "hook")}
       \/ HistoryEnabled /\ run' = Later([run EXCEPT !.unstored = TRUE], "configuration")
    /\ UNCHANGED <<device, link, batch, vault, interrupt, left, consented, taken>>

\* The ends of wait_for_ack and what becomes of the record: the ACK, the deadline, an error packet,
\* a packet that does not parse or a zero timeout of the firmware with the link up, a lost link,
\* and an interrupt.
AwaitAck ==
    /\ Doing("await")
    /\ LET marked(status) ==
               {[run EXCEPT !.record = IF @ = "none" THEN @ ELSE status], [run EXCEPT !.unstored = TRUE]}
       IN \/ /\ link = "up" /\ UNCHANGED link
             /\ \/ ~run.unstored /\ \E r \in marked("acknowledged") :
                      run' = IF r.unstored THEN Later(r, "configuration") ELSE Accepted(r)
                \/ run.unstored /\ run' = Later(run, "protocol")
                \/ \E r \in marked("acknowledged") : run' = Later(r, "hook")
                \/ \E r \in marked("timed_out") : run' = Fail(r, "timeout")
                \/ \E r \in marked("failed"), e \in {"protocol", "usage"} : run' = Fail(r, e)
          \/ link' = "lost" /\ \E r \in marked("failed") : run' = Fail(r, "connection")
          \/ interrupt /\ link' = "lost" /\ run' = Fail(run, "interrupted")
    /\ UNCHANGED <<device, batch, vault, interrupt, left, consented, taken>>

\* WorkflowServices::incoming: the message is stored, then the on_message hook runs.
Incoming ==
    {[run |-> run, known |-> 1], [run |-> Fail(run, "hook"), known |-> 1]}
      \cup (IF HistoryEnabled THEN {[run |-> Fail([run EXCEPT !.unstored = TRUE], "configuration"),
                                     known |-> 0]} ELSE {})

\* One turn of the loop of inbox; with a limit it may end before the queue is empty.  A failed
\* sync tells on_error; the device may have given up a message whose answer was lost.
Drain ==
    /\ Doing("drain")
    /\ \E o \in Outcomes(Current) :
          /\ device' = o.device /\ link' = o.link
          /\ \/ /\ o.error # "none"
                /\ run' = Fail([run EXCEPT !.told = @ + 1], o.error)
                /\ taken' = [taken EXCEPT !.off = @ + (device.mail - o.device.mail)]
             \/ o.replies = <<"no_more">> /\ run' = Advance(run) /\ UNCHANGED taken
             \/ /\ o.replies = <<"message">>
                /\ \E i \in Incoming :
                      /\ taken' = [taken EXCEPT !.off = @ + 1, !.known = @ + i.known]
                      /\ run' \in IF i.run = run THEN {run, Advance(run)} ELSE {i.run}
    /\ UNCHANGED <<batch, vault, interrupt, left, consented>>

\* writer.result
Printing(r) == {[r EXCEPT !.printed = TRUE], [r EXCEPT !.error = "output"]}

PrintInside ==
    /\ Doing("print")
    /\ run' \in {IF r.error = "none" THEN Advance(r) ELSE Fail(r, r.error) : r \in Printing(run)}
    /\ UNCHANGED <<device, link, batch, vault, interrupt, left, consented, taken>>

-----------------------------------------------------------------------------
(* The session around the work.                                            *)

\* Client::connect; an interrupt ends a send that is still connecting.
OpenSession ==
    /\ run.phase = "connect"
    /\ \/ link' = "up" /\ run' = [run EXCEPT !.phase = "activate"]
       \/ link' = "down" /\ run' = [run EXCEPT !.phase = "exit", !.error = "connection"]
       \/ /\ run.program.name = "send" /\ interrupt
          /\ link' = "down" /\ run' = [run EXCEPT !.phase = "exit", !.error = "interrupted"]
    /\ UNCHANGED <<device, batch, vault, interrupt, left, consented, taken>>

\* Mutant: a failing on_connect hook leaves at once.
ActivateAndLeave ==
    /\ run.phase = "activate"
    /\ \/ /\ run' = Settle([run EXCEPT !.on = @ + 1, !.phase = "work", !.todo = run.program.work])
          /\ UNCHANGED link
       \/ /\ run' = [run EXCEPT !.on = @ + 1, !.phase = "exit", !.error = "hook"]
          /\ link' = "down"
    /\ UNCHANGED <<device, batch, vault, interrupt, left, consented, taken>>

\* The on_connect hook; when it fails on_disconnect runs and the client is shut down.
Activate ==
    /\ run.phase = "activate"
    /\ \/ /\ run' = Settle([run EXCEPT !.on = @ + 1, !.phase = "work", !.todo = run.program.work])
          /\ UNCHANGED link
       \/ /\ run' = [run EXCEPT !.on = @ + 1, !.off = @ + 1, !.phase = "exit", !.error = "hook"]
          /\ link' = "down"
    /\ UNCHANGED <<device, batch, vault, interrupt, left, consented, taken>>

\* emit_primary_error: the outcome of the hook is ignored.
ErrorHook ==
    /\ run.phase = "error_hook"
    /\ run' = [run EXCEPT !.told = @ + 1, !.phase = IF link = "down" THEN "disconnect_hook" ELSE "shutdown"]
    /\ UNCHANGED <<device, link, batch, vault, interrupt, left, consented, taken>>

WithCleanupError(r, e) ==
    IF r.error # "none" THEN r
    ELSE IF r.program.name = "send" THEN [r EXCEPT !.post = IF @ = "none" THEN e ELSE @]
    ELSE [r EXCEPT !.error = e]

\* CompanionSession::finish shuts down and then runs on_disconnect; finish_workflow and
\* cleanup_workflow do so the other way round.
Shutdown ==
    /\ run.phase = "shutdown"
    /\ link' = "down"
    /\ \E ok \in BOOLEAN :
          LET r == IF ok THEN run ELSE WithCleanupError(run, "connection")
          IN run' = [r EXCEPT !.phase =
                       IF r.program.style = "workflow" THEN "print"
                       ELSE IF r.error # run.error THEN "error_hook" ELSE "disconnect_hook"]
    /\ UNCHANGED <<device, batch, vault, interrupt, left, consented, taken>>

DisconnectHook ==
    /\ run.phase = "disconnect_hook"
    /\ \E ok \in BOOLEAN :
          LET r == IF ok THEN run ELSE WithCleanupError(run, "hook")
          IN run' = [r EXCEPT !.off = @ + 1,
                              !.phase = IF r.program.style = "workflow" THEN "shutdown" ELSE "print"]
    /\ UNCHANGED <<device, link, batch, vault, interrupt, left, consented, taken>>

\* The result is printed when there is no error; that of a send also after a later error.
Report ==
    /\ run.phase = "print"
    /\ run' \in IF run.error # "none" \/ run.program.inside THEN {[run EXCEPT !.phase = "exit"]}
                ELSE {[r EXCEPT !.phase = "exit"] : r \in Printing(run)}
    /\ taken' = IF run'.printed /\ run.program.name = "inbox" THEN [taken EXCEPT !.shown = taken.off]
                ELSE taken
    /\ UNCHANGED <<device, link, batch, vault, interrupt, left, consented>>

Succeeded(r) == r.error = "none" /\ r.post = "none"

-----------------------------------------------------------------------------
(* The user, batch files and batches over contacts.                        *)

Asks(p) == \E s \in ToSet(p.local \o p.work) : s.do \in {"confirm", "password"}

StartCommand ==
    /\ run = Idle /\ batch = NoBatch /\ left > 0
    /\ left' = left - 1
    /\ \E p \in Programs :
          \E yes \in IF Asks(p) THEN BOOLEAN ELSE {FALSE} :
             \E interactive \in IF Asks(p) /\ ~yes THEN BOOLEAN ELSE {FALSE} :
                run' = Start(p, yes, interactive) /\ consented' = yes
    /\ interrupt' = FALSE /\ taken' = [off |-> 0, known |-> 0, shown |-> 0]
    /\ UNCHANGED <<device, link, batch, vault>>

\* Commands that change something and that a batch file may hold.
BatchLines ==
    {DeviceClock(TRUE), ChannelRemove, DeviceAdvertise(TRUE)} \cup {ContactForget(c) : c \in Contacts}

\* parse_script: every line is parsed and validated before the first is executed.
BatchQueue(lines, invalid) == IF invalid THEN <<>> ELSE lines

StartBatchFile ==
    /\ run = Idle /\ batch = NoBatch /\ left > 0
    /\ left' = left - 1
    /\ \E n \in 1 .. MaxBatch : \E lines \in [1 .. n -> BatchLines] : \E yes, invalid \in BOOLEAN :
          /\ batch' = [NoBatch EXCEPT !.kind = "file", !.queue = BatchQueue(lines, invalid),
                                      !.yes = yes, !.invalid = invalid]
          /\ consented' = yes
    /\ interrupt' = FALSE /\ taken' = [off |-> 0, known |-> 0, shown |-> 0]
    /\ UNCHANGED <<device, link, run, vault>>

\* batch contacts: the contacts are listed once, without hooks; a path reset of all of them
\* is confirmed once and then runs with --yes.
StartBatchContacts ==
    /\ run = Idle /\ batch = NoBatch /\ left > 0
    /\ left' = left - 1
    /\ \E targets \in SUBSET Listed(device) : \E yes, interactive, agrees \in BOOLEAN :
          \E a \in {"discover", "reset"} :
             LET allowed == a = "discover" \/ yes \/ (interactive /\ agrees)
                 order == SetToSeq(targets)
             IN /\ batch' = [NoBatch EXCEPT !.kind = "contacts", !.yes = yes \/ a = "reset",
                                !.queue = IF allowed THEN [i \in 1 .. Len(order) |-> ContactPath(a, order[i])]
                                          ELSE <<>>]
                /\ consented' = (yes \/ (a = "reset" /\ interactive /\ agrees))
    /\ interrupt' = FALSE /\ taken' = [off |-> 0, known |-> 0, shown |-> 0]
    /\ UNCHANGED <<device, link, run, vault>>

\* Mutant: a nested command may do everything.
InheritGlobalsYes == Start(Head(batch.queue), TRUE, FALSE)

\* inherit_globals: the nested command never prompts.
InheritGlobals == Start(Head(batch.queue), batch.yes, FALSE)

NextLine ==
    /\ run = Idle /\ batch.queue # <<>> /\ ~batch.failed
    /\ run' = InheritGlobals
    /\ batch' = [batch EXCEPT !.queue = Tail(@), !.begun = @ + 1]
    /\ UNCHANGED <<device, link, vault, interrupt, left, consented, taken>>

\* The batch stops at the first command that fails.
Exit ==
    /\ run.phase = "exit"
    /\ run' = Idle
    /\ batch' = [batch EXCEPT !.failed = batch.kind # "none" /\ ~Succeeded(run)]
    /\ UNCHANGED <<device, link, vault, interrupt, left, consented, taken>>

EndBatch ==
    /\ run = Idle /\ batch.kind # "none" /\ (batch.queue = <<>> \/ batch.failed)
    /\ batch' = NoBatch
    /\ UNCHANGED <<device, link, run, vault, interrupt, left, consented, taken>>

-----------------------------------------------------------------------------
(* The environment.                                                        *)

\* SIGINT during a send, which installs an InterruptWatcher.
Signal ==
    /\ run.program.name = "send" /\ run.phase \in {"connect", "activate", "work", "restore"} /\ ~interrupt
    /\ interrupt' = TRUE
    /\ UNCHANGED <<device, link, run, batch, vault, left, consented, taken>>

\* The process is killed: nothing is undone.
Kill ==
    /\ run.phase \notin {"idle", "exit"}
    /\ run' = Idle /\ batch' = NoBatch /\ link' = "down" /\ interrupt' = FALSE
    /\ UNCHANGED <<device, vault, left, consented, taken>>

\* A remote node forgets a session; the device learns a path from an advertisement.
RemoteChange ==
    /\ run.phase = "work"
    /\ \/ \E c \in device.sessions : device' = [device EXCEPT !.sessions = @ \ {c}]
       \/ \E c \in Listed(device) : /\ device.rows[c].route # "learned"
                                    /\ device' = [device EXCEPT !.rows[c].route = "learned"]
    /\ UNCHANGED <<link, run, batch, vault, interrupt, left, consented, taken>>

\* Everything the user asked for is done.
Done ==
    /\ run = Idle /\ batch = NoBatch /\ left = 0
    /\ UNCHANGED vars

Init ==
    /\ device \in {[time |-> "past", rows |-> [c \in Contacts |-> IF c \in s THEN Row("learned", "old") ELSE NoRow],
                    channel |-> "first", sessions |-> {}, mail |-> m, defaultScope |-> "none",
                    scope |-> "default", hash |-> "before"]
                     : s \in {s \in SUBSET Contacts : Cardinality(s) <= ContactCapacity}, m \in {0, MaxMail}}
    /\ link = "down" /\ run = Idle /\ batch = NoBatch
    /\ vault = [c \in Contacts |-> "none"]
    /\ interrupt = FALSE /\ left = MaxCommands /\ consented = FALSE
    /\ taken = [off |-> 0, known |-> 0, shown |-> 0]

Steps ==
    \/ Check \/ AnswerConfirm \/ RunHook \/ Resolve \/ AskDevice \/ SetTemporarily \/ Restore
    \/ ReadBack \/ ReadRow \/ WriteRow \/ Collect \/ Password \/ Login \/ KeepCredential
    \/ CheckSession \/ Poll \/ Begin \/ Transmit \/ RecordSent \/ AwaitAck \/ Drain \/ PrintInside
Session == OpenSession \/ Activate \/ ErrorHook \/ Shutdown \/ DisconnectHook \/ Report
User == StartCommand \/ StartBatchFile \/ StartBatchContacts \/ NextLine \/ Exit \/ EndBatch

Next == Steps \/ Session \/ User \/ Signal \/ Kill \/ RemoteChange \/ Done

Spec == Init /\ [][Next]_vars

-----------------------------------------------------------------------------
(* Properties.                                                             *)

\* The state has its type.
TypeOK ==
    /\ device \in Devices /\ link \in {"down", "up", "lost"}
    /\ run.error \in Statuses /\ run.post \in Statuses
    /\ run.record \in {"none", "pending", "failed", "acknowledged", "timed_out"}
    /\ batch.kind \in {"none", "file", "contacts"} /\ left \in 0 .. MaxCommands
    /\ vault \in [Contacts -> {"none", "right", "wrong"}]
    /\ interrupt \in BOOLEAN /\ consented \in BOOLEAN

\* Whatever fails, a command that is not killed has run on_disconnect as often as on_connect,
\* and never before it, has told on_error at most once, and has let the link go.
HooksBalanced ==
    /\ run.off <= run.on /\ run.told <= 1
    /\ run.phase = "exit" => run.on = run.off /\ link = "down"

Temporary == run.program.restore # <<>>

\* device advertise, network discover, network trace and send: a setting that was made for
\* one command is undone when it ends, however it ends, unless a request to make or undo it
\* went unanswered; a command with such a doubt does not report success.
TemporarySettingIsRestored ==
    run.phase = "exit" /\ Temporary =>
        /\ Succeeded(run) => ~run.doubtful
        /\ ~run.doubtful /\ run.on > 0 /\ run.owed =>
              IF run.program.name = "network_trace" THEN device.hash = "before"
              ELSE device.scope # "temporary"

Destructive(req) ==
    \/ req.code \in {"remove_contact", "reset_path", "clear_channel", "reboot"}
    \/ req.code = "update_contact" /\ req.value = "route"
    \/ req.code = "send_direct_command" /\ req.value = "destructive"

\* confirm: no contact, path or channel is removed, no node is rebooted and no destructive
\* remote command is sent, directly or from a batch, unless the user agreed before.
NoChangeWithoutConsent ==
    [][run.phase = "work" /\ run.todo # <<>> /\ Destructive(Head(run.todo).req)
         /\ run'.todo # run.todo /\ run'.phase # "idle" => consented]_vars

\* A command that exits with success has had its change on the device or in the vault.
SuccessIsReal == run.phase = "exit" /\ Succeeded(run) => run.reached /\ run.printed

\* The errors that may end the wait for the ACK of an accepted message.
WaitErrors == {"timeout", "connection", "interrupted", "protocol", "usage"}
Waits(p) == \E s \in ToSet(p.work) : s.do = "await"

\* send: once the device accepted the message, no failing hook, history write, late interrupt or
\* cleanup keeps the result from being printed; only a wait for the ACK that failed does.
AcceptedIsReported ==
    run.phase = "exit" /\ run.accepted /\ ~run.printed =>
        run.error = "output" \/ (Waits(run.program) /\ run.error \in WaitErrors)

\* The record of a send: one marked failed was never known to be accepted unless the wait for the
\* ACK failed otherwise than by its deadline, and one still pending was not waited for, was
\* interrupted, or could not be written.
RecordIsHonest ==
    run.phase = "exit" /\ run.program.name = "send" =>
        /\ run.record = "failed" =>
              ~run.accepted \/ (Waits(run.program) /\ run.error \in {"connection", "protocol", "usage"})
        /\ run.record = "pending" =>
              run.unstored \/ run.error = "interrupted" \/ (run.accepted /\ ~Waits(run.program))

\* inbox with history enabled (it is off by default, and then what was collected before a failure
\* is dropped): every message taken off the device is in the history when the command ends, except
\* one whose record could not be written or whose answer was lost.
TakenMailIsKept ==
    run.phase = "exit" /\ run.program.name = "inbox" /\ HistoryEnabled =>
        /\ taken.off <= taken.known + 1
        /\ taken.off > taken.known => run.unstored \/ run.error \in {"timeout", "connection"}

\* remote login --save keeps only a password that the remote node has accepted.
SavedPasswordWorks == \A c \in Contacts : vault[c] # "wrong"

\* batch run: with an invalid line nothing is executed, and nothing follows a failed line.
BatchIsPrefix == (batch.invalid => batch.begun = 0) /\ (batch.failed => run = Idle)

\* VirtualCompanion: the room that handle_command reserves suffices for what the handler
\* answers, so that a command refused for lack of room has changed nothing.
RoomIsReserved ==
    run.phase = "work" /\ run.todo # <<>> =>
        \A v \in {Current.value, "malformed", "unknown"} :
           LET r == [Current EXCEPT !.value = v]
           IN Head(run.todo).do = "ask" => Len(Handle(device, r).replies) <= ResponseCount(device, r)

\* Every session that a command opens is announced, taken back and closed.
SessionsAreClosed == TypeOK /\ HooksBalanced

\* What a command prints, records and keeps agrees with what device and remote node did.
ReportsAreTrue ==
    /\ SuccessIsReal /\ AcceptedIsReported /\ RecordIsHonest
    /\ TakenMailIsKept /\ SavedPasswordWorks /\ RoomIsReserved

\* Nothing happens that the user did not ask for, alone or in a batch.
OnlyWhatWasAsked == NoChangeWithoutConsent /\ []BatchIsPrefix
=============================================================================
