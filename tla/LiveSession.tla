---------------------------- MODULE LiveSession ----------------------------
(***************************************************************************)
(* The two commands that live on the event stream: chat (with its input    *)
(* thread) and watch (runtime.rs), the reconnect helper they share         *)
(* (reconnect.rs), the correlation of incoming messages (workflow.rs) and  *)
(* the interrupt token (interrupt.rs).                                     *)
(*                                                                         *)
(* The command waits for an event, for a line or for the token; while it   *)
(* handles one, events pile up in the bounded broadcast channel of the     *)
(* client.  A reconnect publishes Disconnected and Connected itself; the   *)
(* command has to tell these apart from a link that is lost again.         *)
(***************************************************************************)
EXTENDS Naturals, Sequences, SequencesExt, FiniteSets

CONSTANTS Capacity,          \* CLIENT_EVENT_CAPACITY
          TrackerCapacity,   \* INCOMING_CORRELATION_CAPACITY
          Attempts,          \* DEVICE_RECONNECT_ATTEMPTS
          Modes,             \* the commands: a subset of {"chat", "watch"}
          MaxMessages,       \* bound: messages the user composes
          MaxLines,          \* bound: lines the user types
          MaxMail,           \* bound: messages that arrive
          MaxLosses,         \* bound: times the link is lost
          MaxAttempts        \* bound: reconnect attempts in all

ASSUME LiveAssumption ==
    /\ {Capacity, TrackerCapacity, Attempts} \subseteq Nat \ {0}
    /\ {MaxMessages, MaxLines, MaxMail, MaxLosses, MaxAttempts} \subseteq Nat
    /\ Modes \subseteq {"chat", "watch"}

VARIABLES
    link,      \* Client::connected
    events,    \* the receiver of the event stream
    lagged,    \* the next recv returns Lagged
    mail,      \* messages queued on the device
    published, \* observation ids given out: 1 .. published
    ui,        \* the command
    input,     \* the input thread and its channel of one line
    tracker,   \* IncomingTracker
    interrupt, \* the token of InterruptWatcher
    hooked,    \* history: on_connect hooks less on_disconnect hooks
    recorded,  \* history: for each id how often it was recorded as new
    composed,  \* history: what became of each message the user composed
    losses, attempts, everLagged  \* history

stream == <<link, events, lagged, published>>
ghosts == <<hooked, recorded, composed, losses, attempts, everLagged>>
vars == <<stream, mail, ui, input, tracker, interrupt, ghosts>>

Messages == 1 .. MaxMessages
Targets == {"direct", "channel"}
NoMessage == 0
Ev(kind, id) == [kind |-> kind, id |-> id]

Lines == {"message", "/help", "/contacts", "/to", "/channel", "/send", "/discard", "/quit", "eof"}

\* parse_chat_line: "//" is a literal slash, every other line that starts with a slash is a
\* command, an unknown one or one with wrong arguments is reported; a blank line is nothing.
\* Everything that only prints is one kind.
ParseChatLine(line) ==
    IF line \in {"/help", "/history", "blank", "badCommand"} THEN "/help" ELSE line

\* The status with which the command ends, as far as it matters here; "none" is success.
Status(error) == IF error \in {"none", "interrupted", "output"} THEN error ELSE "failed"
Fail(u, error) == [u EXCEPT !.at = "cleanup", !.error = Status(error)]

\* The command still looks at its events, at its input and at the token.
Listening == ui.at \notin {"cleanup", "exit"}

-----------------------------------------------------------------------------
(* The event stream.                                                       *)

\* broadcast::Sender::send: the oldest event makes room.
Push(s, new) ==
    LET all == s.q \o new
        over == IF Len(all) > Capacity THEN Len(all) - Capacity ELSE 0
    IN [q |-> SubSeq(all, over + 1, Len(all)), lagged |-> s.lagged \/ over > 0]

Publish(new) ==
    LET s == Push([q |-> events, lagged |-> lagged], new)
    IN /\ events' = s.q /\ lagged' = s.lagged
       /\ everLagged' = (everLagged \/ s.lagged)

\* mark_disconnected publishes when the client was connected.
Dropped == IF link THEN <<Ev("disconnected", 0)>> ELSE <<>>

LoseLink ==
    /\ link /\ losses < MaxLosses
    /\ Listening /\ ui.at # "connect"
    /\ link' = FALSE /\ Publish(Dropped) /\ losses' = losses + 1
    /\ UNCHANGED <<mail, published, ui, input, tracker, interrupt, hooked, recorded, composed, attempts>>

\* A message that is not asked for, or another event: a protocol error, an advertisement.
Arrive ==
    /\ link /\ Listening /\ ui.at # "connect"
    /\ published < MaxMail
    /\ published' = published + 1
    /\ \E kind \in {"message", "error"} :
          /\ Publish(<<Ev(kind, published + 1)>>)
          /\ recorded' = Append(recorded, IF kind = "message" THEN 0 ELSE 1)
    /\ UNCHANGED <<link, mail, ui, input, tracker, interrupt, hooked, composed, losses, attempts>>

-----------------------------------------------------------------------------
(* IncomingTracker.                                                        *)

\* observe: FALSE for the other of the two observations of one packet.
Observe(id, origin) ==
    LET pairs == {i \in DOMAIN tracker : tracker[i].id = id /\ tracker[i].origin # origin}
        first == CHOOSE i \in pairs : \A j \in pairs : i <= j
        room == IF Len(tracker) = TrackerCapacity THEN Tail(tracker) ELSE tracker
    IN IF pairs # {} THEN [new |-> FALSE, occurrences |-> RemoveAt(tracker, first)]
       ELSE [new |-> TRUE, occurrences |-> Append(room, [id |-> id, origin |-> origin])]

\* WorkflowServices::incoming and the print: the write of the history, the hook or the output
\* may fail, which ends the command.
Incoming(id, origin, next) ==
    LET o == Observe(id, origin)
    IN /\ tracker' = o.occurrences
       /\ recorded' = IF o.new THEN [recorded EXCEPT ![id] = @ + 1] ELSE recorded
       /\ \/ ui' = next
          \/ o.new /\ ui' \in {Fail(ui, "hook"), Fail(ui, "output")}

-----------------------------------------------------------------------------
(* The start and the end of a session.                                     *)

NoLine == "none"

\* client.connect, selected against the token.
Connect ==
    /\ ui.at = "connect"
    /\ \/ /\ link' = TRUE /\ Publish(<<Ev("connected", 0)>>)
          /\ ui' = [ui EXCEPT !.at = "activate"]
       \/ /\ ui' = [ui EXCEPT !.at = "exit", !.error = IF interrupt THEN "interrupted" ELSE "failed"]
          /\ UNCHANGED <<link, events, lagged, everLagged>>
    /\ UNCHANGED <<mail, published, input, tracker, interrupt, hooked, recorded, composed, losses, attempts>>

\* activate_workflow: after a failed on_connect hook it runs on_disconnect and shuts down.
ActivateFails(u) == Fail([u EXCEPT !.believes = FALSE], "hook")

\* What follows a successful on_connect hook.
Resume(u) ==
    CASE u.back = "start" -> [u EXCEPT !.at = IF u.mode = "watch" THEN "idle"
                                              ELSE IF u.target = "channel" THEN "sync" ELSE "list",
                                       !.believes = TRUE, !.back = "none"]
      [] OTHER -> [u EXCEPT !.at = "resume", !.believes = TRUE]

Activate ==
    /\ ui.at = "activate"
    /\ tracker' = <<>>
    /\ \/ hooked' = hooked + 1 /\ ui' = Resume(ui)
       \/ hooked' = hooked /\ ui' = ActivateFails(ui)
    /\ UNCHANGED <<stream, mail, input, interrupt, recorded, composed, losses, attempts, everLagged>>

\* finish_workflow after success in chat, cleanup_chat_workflow after an error; watch asks in
\* both cases.
CleanupHooks(u) ==
    IF u.believes \/ (u.error = "none" /\ u.mode = "chat") THEN 1 ELSE 0

Cleanup ==
    /\ ui.at = "cleanup"
    /\ hooked' = hooked - CleanupHooks(ui)
    /\ link' = FALSE /\ events' = <<>> /\ lagged' = FALSE /\ tracker' = <<>>
    /\ ui' \in {[ui EXCEPT !.at = "exit"]} \cup
               (IF ui.error = "none" THEN {[ui EXCEPT !.at = "exit", !.error = "failed"]} ELSE {})
    /\ UNCHANGED <<published, mail, input, interrupt, recorded, composed, losses, attempts, everLagged>>

-----------------------------------------------------------------------------
(* Reconnecting.                                                           *)

\* reconnect_chat_session; watch has run the hook before it prints the event.
StartReconnect(u, back) == [u EXCEPT !.at = "unhook", !.back = back, !.tries = 0]

Unhook ==
    /\ ui.at = "unhook"
    /\ hooked' = hooked - (IF ui.believes THEN 1 ELSE 0)
    /\ LET u == [ui EXCEPT !.believes = FALSE]
       IN ui' \in {[u EXCEPT !.at = "attempt"]} \cup (IF ui.believes THEN {Fail(u, "hook")} ELSE {})
    /\ UNCHANGED <<stream, mail, input, tracker, interrupt, recorded, composed, losses, attempts, everLagged>>

\* reconnect_attempt_is_retryable, and attempts left.
MayRetry(u) == u.tries + 1 < Attempts

\* reconnect_device: one call of Client::reconnect.  It drops the session, opens the transport
\* and runs the handshake; a handshake that fails publishes Disconnected again.
Attempt ==
    /\ ui.at = "attempt" /\ attempts < MaxAttempts
    /\ attempts' = attempts + 1
    /\ \/ /\ link' = TRUE /\ Publish(Dropped \o <<Ev("connected", 0)>>)
          /\ ui' = [ui EXCEPT !.at = "activate"]
       \/ /\ link' = FALSE
          /\ \E more \in {<<>>, <<Ev("disconnected", 0)>>} : Publish(Dropped \o more)
          /\ ui' \in {Fail(ui, "connection")} \cup
                     (IF MayRetry(ui) THEN {[ui EXCEPT !.tries = @ + 1]} ELSE {})
    /\ UNCHANGED <<mail, published, input, tracker, interrupt, hooked, recorded, composed, losses>>

\* The token is cancelled during a delay or an attempt.
AttemptInterrupted ==
    /\ ui.at = "attempt" /\ interrupt
    /\ ui' = Fail(ui, "interrupted")
    /\ link' = FALSE /\ Publish(Dropped)
    /\ UNCHANGED <<mail, published, input, tracker, interrupt, hooked, recorded, composed, losses, attempts>>

\* SessionReconnected: the Connected event of this reconnect is still to come.
Reconnected(u, next) == [u EXCEPT !.at = next, !.back = "none", !.flow = @ + 1]

-----------------------------------------------------------------------------
(* watch.                                                                  *)

InIdle == ui.at = "idle"

\* Mutant: the token is looked at when a line comes.
IdleInterruptedAtLine ==
    /\ InIdle /\ interrupt /\ input.at = "offered"
    /\ ui' = Fail(ui, "interrupted")
    /\ UNCHANGED <<stream, mail, input, tracker, interrupt, ghosts>>

\* The interrupt comes first: chat selects with "biased".
IdleInterrupted ==
    /\ InIdle /\ interrupt
    /\ ui' = Fail(ui, "interrupted")
    /\ UNCHANGED <<stream, mail, input, tracker, interrupt, ghosts>>

Receive == InIdle /\ ~(interrupt /\ ui.mode = "chat") /\ events # <<>> /\ ~lagged
PopEvent == events' = Tail(events) /\ UNCHANGED <<link, lagged, published>>
Matches(kind) == ui.filter = "all" \/ kind = "message"

\* The event is printed and counted; at the limit the command ends, a lost link included.
Emit(u, kind) ==
    IF ~Matches(kind) THEN {u}
    ELSE LET e == [u EXCEPT !.emitted = @ + 1]
         IN {IF e.limit # 0 /\ e.emitted = e.limit THEN [e EXCEPT !.at = "cleanup"] ELSE e,
             Fail(u, "output")}

\* awaiting_reconnect_confirmation: the events that the own reconnect published.
WatchIgnores(kind) == kind = "disconnected" /\ ui.confirm > 0

WatchSkip ==
    /\ Receive /\ ui.mode = "watch" /\ WatchIgnores(Head(events).kind)
    /\ PopEvent
    /\ UNCHANGED <<mail, ui, input, tracker, interrupt, ghosts>>

WatchMessage ==
    /\ Receive /\ ui.mode = "watch" /\ Head(events).kind = "message"
    /\ PopEvent
    /\ \E next \in Emit(ui, "message") : Incoming(Head(events).id, "live", next)
    /\ UNCHANGED <<mail, input, interrupt, hooked, composed, losses, attempts, everLagged>>

\* Connected, and an error event, whose hook may fail.
WatchOther ==
    /\ Receive /\ ui.mode = "watch" /\ Head(events).kind \in {"connected", "error"}
    /\ PopEvent
    /\ LET kind == Head(events).kind
           u == [ui EXCEPT !.confirm = IF kind = "connected" THEN 0 ELSE @]
       IN ui' \in Emit(u, kind) \cup (IF kind = "error" THEN {Fail(u, "hook")} ELSE {})
    /\ UNCHANGED <<mail, input, tracker, interrupt, ghosts>>

\* The hook, the print, and a reconnect unless the limit is reached.
WatchDisconnected ==
    /\ Receive /\ ui.mode = "watch" /\ Head(events).kind = "disconnected"
    /\ ~WatchIgnores("disconnected")
    /\ PopEvent
    /\ hooked' = hooked - (IF ui.believes THEN 1 ELSE 0)
    /\ LET u == [ui EXCEPT !.believes = FALSE]
       IN ui' \in {Fail(u, "hook")} \cup
                  {IF e.at = "idle" THEN [e EXCEPT !.at = "attempt", !.back = "watch", !.tries = 0] ELSE e
                     : e \in Emit(u, "disconnected")}
    /\ UNCHANGED <<mail, input, tracker, interrupt, recorded, composed, losses, attempts, everLagged>>

WatchResume ==
    /\ ui.at = "resume" /\ ui.back = "watch"
    /\ ui' = [ui EXCEPT !.at = "idle", !.back = "none", !.confirm = 1]
    /\ UNCHANGED <<stream, mail, input, tracker, interrupt, ghosts>>

\* Mutant: the confirmations are still awaited.
LagKeepsAwaiting ==
    /\ InIdle /\ lagged /\ ~(interrupt /\ ui.mode = "chat")
    /\ lagged' = FALSE
    /\ UNCHANGED <<link, events, published, mail, ui, input, tracker, interrupt, ghosts>>

\* RecvError::Lagged: what was skipped is unknown, so nothing is awaited any more.
Lag ==
    /\ InIdle /\ lagged /\ ~(interrupt /\ ui.mode = "chat")
    /\ lagged' = FALSE
    /\ ui' \in {[ui EXCEPT !.confirm = 0]} \cup (IF ui.mode = "chat" THEN {Fail(ui, "output")} ELSE {})
    /\ UNCHANGED <<link, events, published, mail, input, tracker, interrupt, ghosts>>

-----------------------------------------------------------------------------
(* chat: listing contacts, with one reconnect in between.                  *)

Printed(u) == {u, Fail(u, "output")}
LineDone(u) == [u EXCEPT !.at = "lineDone"]

\* resolve_contact may find nobody: that ends the start of a chat and a message, but /to goes on.
AfterList(u) ==
    CASE u.purpose = "target" -> Printed([u EXCEPT !.at = "sync"]) \cup {Fail(u, "notFound")}
      [] u.purpose = "contacts" -> Printed(LineDone(u))
      [] u.purpose = "to" -> Printed(LineDone([u EXCEPT !.target = "direct"])) \cup Printed(LineDone(u))
      [] u.purpose = "message" -> {[u EXCEPT !.at = "begin"], Fail(u, "notFound")}

\* list_chat_contacts_with_reconnect: the second listing is not repeated.
ListContacts ==
    /\ ui.at = "list" \/ (ui.at = "resume" /\ ui.back = "relist")
    /\ LET again == ui.at = "resume"
           u == IF ~again THEN ui
                ELSE IF ui.purpose = "target" THEN [ui EXCEPT !.back = "none"] ELSE Reconnected(ui, "list")
       IN ui' \in (IF link THEN AfterList(u) \cup {Fail(u, "timeout")}
                   ELSE IF again THEN {Fail(u, "connection")} ELSE {StartReconnect(u, "relist")})
                  \cup (IF interrupt THEN {Fail(u, "interrupted")} ELSE {})
    /\ UNCHANGED <<stream, mail, input, tracker, interrupt, ghosts>>

-----------------------------------------------------------------------------
(* chat: the queued inbox.                                                 *)

\* drain_chat_inbox_with_reconnect: a connection error is forgiven once.
PollFailed(u) == IF u.again THEN Fail(u, "connection") ELSE StartReconnect(u, "poll")

\* sync_next_message: the message is returned and published.
SyncNextMessage ==
    /\ ui.at = "sync"
    /\ \/ /\ link /\ mail > 0 /\ published < MaxMail
          /\ mail' = mail - 1 /\ published' = published + 1
          /\ Publish(<<Ev("message", published + 1)>>)
          /\ recorded' = Append(recorded, 0)
          /\ ui' = [ui EXCEPT !.at = "drain", !.held = published + 1]
       \/ /\ ui' \in (IF ~link THEN {PollFailed(ui)}
                      ELSE {Fail(ui, "timeout")} \cup
                           (IF mail = 0 THEN {[ui EXCEPT !.at = "drain", !.held = NoMessage]} ELSE {}))
                     \cup (IF interrupt THEN {Fail(ui, "interrupted")} ELSE {})
          /\ UNCHANGED <<events, lagged, everLagged, mail, published, recorded>>
    /\ UNCHANGED <<link, input, tracker, interrupt, hooked, composed, losses, attempts>>

\* poll_chat_incoming: the events that are there, before the message that was returned.
DrainEvent ==
    /\ ui.at = "drain" /\ (lagged \/ events # <<>>)
    /\ IF lagged
       THEN ui' = Fail(ui, "protocol") /\ UNCHANGED <<stream, tracker, recorded>>
       ELSE /\ PopEvent
            /\ LET e == Head(events)
               IN CASE e.kind = "message" -> Incoming(e.id, "live", ui)
                    [] e.kind = "error" -> ui' \in {ui, Fail(ui, "hook")} /\ UNCHANGED <<tracker, recorded>>
                    [] OTHER -> /\ ui' = [ui EXCEPT !.active = e.kind = "connected"]
                                /\ UNCHANGED <<tracker, recorded>>
    /\ UNCHANGED <<mail, input, interrupt, hooked, composed, losses, attempts, everLagged>>

\* The reader thread is spawned when the inbox is empty.
DrainEnd ==
    /\ ui.at = "drain" /\ ~lagged /\ events = <<>>
    /\ LET fresh == [ui EXCEPT !.held = NoMessage, !.active = TRUE]
           next == IF ~ui.active THEN PollFailed(fresh)
                   ELSE IF ui.held # NoMessage THEN [fresh EXCEPT !.at = "sync"]
                   ELSE [fresh EXCEPT !.at = "idle"]
       IN /\ IF ui.held # NoMessage THEN Incoming(ui.held, "queue", next)
             ELSE ui' = next /\ UNCHANGED <<tracker, recorded>>
          /\ input' = IF ui'.at = "idle" THEN [input EXCEPT !.at = "reading"] ELSE input
    /\ UNCHANGED <<stream, mail, interrupt, hooked, composed, losses, attempts, everLagged>>

PollResume ==
    /\ ui.at = "resume" /\ ui.back = "poll"
    /\ ui' \in Printed([ui EXCEPT !.at = "sync", !.back = "none", !.again = TRUE])
    /\ UNCHANGED <<stream, mail, input, tracker, interrupt, ghosts>>

-----------------------------------------------------------------------------
(* chat: the event loop.                                                   *)

ChatReceive == Receive /\ ui.mode = "chat"

ChatMessage ==
    /\ ChatReceive /\ Head(events).kind = "message"
    /\ PopEvent /\ Incoming(Head(events).id, "live", ui)
    /\ UNCHANGED <<mail, input, interrupt, hooked, composed, losses, attempts, everLagged>>

\* pending_reconnect_confirmations: as many Connected events are the own ones, and the
\* Disconnected events before them too.
ChatLifecycle ==
    /\ ChatReceive /\ Head(events).kind \in {"connected", "disconnected", "error"}
    /\ PopEvent
    /\ LET kind == Head(events).kind
       IN ui' \in CASE kind = "connected" ->
                         {[ui EXCEPT !.confirm = IF @ > 0 THEN @ - 1 ELSE 0]}
                    [] kind = "disconnected" ->
                         {IF ui.confirm > 0 THEN ui ELSE StartReconnect(ui, "idle")}
                    [] kind = "error" -> {ui, Fail(ui, "hook")}
    /\ UNCHANGED <<mail, input, tracker, interrupt, ghosts>>

IdleResume ==
    /\ ui.at = "resume" /\ ui.back = "idle"
    /\ ui' \in Printed([ui EXCEPT !.at = "idle", !.back = "none", !.confirm = @ + 1])
    /\ UNCHANGED <<stream, mail, input, tracker, interrupt, ghosts>>

\* The thread reads the next line only after the last one was handled.
ReadLine ==
    /\ input.at = "reading" /\ Listening
    /\ \E line \in IF input.lines < MaxLines THEN Lines ELSE {"eof"} :
          /\ line = "message" => input.messages < MaxMessages
          /\ input' = [at |-> "offered", line |-> line, lines |-> input.lines + 1,
                       messages |-> input.messages + (IF line = "message" THEN 1 ELSE 0)]
    /\ UNCHANGED <<stream, mail, ui, tracker, interrupt, ghosts>>

Submit(u, m, to) == [u EXCEPT !.at = "begin", !.message = m, !.sendTo = to]

\* A new message is refused while a draft is retained.
NewMessage(u) ==
    IF u.draft # NoMessage THEN LineDone(u) ELSE [u EXCEPT !.at = "prepare", !.message = input.messages]

\* handle_chat_line
TakeLine ==
    /\ InIdle /\ ui.mode = "chat" /\ ~interrupt /\ events = <<>> /\ ~lagged
    /\ input.at = "offered"
    /\ input' = [input EXCEPT !.at = "waiting", !.line = NoLine]
    /\ LET line == ParseChatLine(input.line)
           retained == ui.draft # NoMessage
           dropped == [ui EXCEPT !.draft = NoMessage, !.draftTo = "none"]
       IN /\ ui' \in CASE line \in {"/quit", "eof"} -> {[ui EXCEPT !.at = "cleanup"]}
                       [] line = "/help" -> Printed(LineDone(ui))
                       [] line \in {"/contacts", "/to"} ->
                            {[ui EXCEPT !.at = "list", !.purpose = IF line = "/to" THEN "to" ELSE "contacts"]}
                       [] line = "/channel" -> Printed(LineDone([ui EXCEPT !.target = "channel"]))
                       [] line = "/send" -> IF retained THEN {Submit(dropped, ui.draft, ui.draftTo)}
                                            ELSE Printed(LineDone(ui))
                       [] line = "/discard" -> Printed(LineDone(dropped))
                       [] line = "message" -> Printed(NewMessage(ui))
          /\ composed' = CASE line = "message" /\ NewMessage(ui).at = "prepare" ->
                                 [composed EXCEPT ![input.messages] = [@ EXCEPT !.fate = "draft", !.submits = 1]]
                           [] line = "/send" /\ retained -> [composed EXCEPT ![ui.draft].submits = @ + 1]
                           [] line = "/discard" /\ retained -> [composed EXCEPT ![ui.draft].fate = "discarded"]
                           [] OTHER -> composed
    /\ UNCHANGED <<stream, mail, tracker, interrupt, hooked, recorded, losses, attempts, everLagged>>

\* The token is looked at before the thread may read on.
EndLine ==
    /\ ui.at = "lineDone"
    /\ LET u == [ui EXCEPT !.at = "idle", !.confirm = @ + ui.flow, !.flow = 0, !.purpose = "none",
                            !.message = NoMessage, !.post = "none", !.correlated = FALSE]
       IN IF interrupt THEN ui' = Fail(u, "interrupted") /\ UNCHANGED input
          ELSE ui' = u /\ input' = [input EXCEPT !.at = "reading"]
    /\ UNCHANGED <<stream, mail, tracker, interrupt, ghosts>>

-----------------------------------------------------------------------------
(* chat: one submission of a message.                                      *)

\* prepare_send: the hook may reject the message or give it another destination.
PrepareSend ==
    /\ ui.at = "prepare"
    /\ \/ \E to \in Targets :
             /\ ui' = [ui EXCEPT !.at = IF to = "channel" THEN "begin" ELSE "list",
                                 !.purpose = "message", !.sendTo = to]
             /\ composed' = [composed EXCEPT ![ui.message].to = to]
       \/ ui' = Fail(ui, "hook") /\ UNCHANGED composed
    /\ UNCHANGED <<stream, mail, input, tracker, interrupt, hooked, recorded, losses, attempts, everLagged>>

BeginOutgoing ==
    /\ ui.at = "begin"
    /\ ui' \in {[ui EXCEPT !.at = "send", !.record = "pending", !.recordTo = ui.sendTo, !.unstored = FALSE,
                           !.correlated = FALSE],
                Fail(ui, "configuration")}
    /\ UNCHANGED <<stream, mail, input, tracker, interrupt, ghosts>>

\* The status of the record is written; the write may fail, which is only logged.
Mark(u, status) == {[u EXCEPT !.record = status], [u EXCEPT !.unstored = TRUE]}

\* Mutant: the draft goes to the target of the chat.
RetainForTarget(u) == [u EXCEPT !.draft = u.message, !.draftTo = u.target]

RetainDraft(u) == [u EXCEPT !.draft = u.message, !.draftTo = u.sendTo]

Went(n) == [composed EXCEPT ![ui.message] = [@ EXCEPT !.sends = @ + n,
                                             !.went = IF n = 0 THEN @ ELSE @ \cup {ui.sendTo}]]

\* send_chat_message is accepted.
SendAccepted ==
    /\ ui.at = "send" /\ link
    /\ ui' = [ui EXCEPT !.at = "sent"]
    /\ composed' = [Went(1) EXCEPT ![ui.message].fate = "accepted"]
    /\ UNCHANGED <<stream, mail, input, tracker, interrupt, hooked, recorded, losses, attempts, everLagged>>

\* It is refused or not answered: the device may have transmitted it.
SendFails ==
    /\ ui.at = "send" /\ link
    /\ \E n \in 0 .. 1, u \in Mark(ui, "failed") : ui' = Fail(u, "timeout") /\ composed' = Went(n)
    /\ UNCHANGED <<stream, mail, input, tracker, interrupt, hooked, recorded, losses, attempts, everLagged>>

\* The link was lost before, or goes during the send.
SendLosesLink ==
    /\ ui.at = "send" /\ (~link \/ losses < MaxLosses)
    /\ \E n \in IF link THEN 0 .. 1 ELSE {0}, u \in Mark(ui, "failed") :
          /\ ui' = IF interrupt THEN Fail(u, "interrupted") ELSE StartReconnect(u, "retain")
          /\ composed' = Went(n)
    /\ link' = FALSE /\ Publish(Dropped) /\ losses' = losses + (IF link THEN 1 ELSE 0)
    /\ UNCHANGED <<mail, published, input, tracker, interrupt, hooked, recorded, attempts>>

RetainResume ==
    /\ ui.at = "resume" /\ ui.back = "retain"
    /\ ui' \in Printed(Reconnected(RetainDraft(ui), "lineDone"))
    /\ UNCHANGED <<stream, mail, input, tracker, interrupt, ghosts>>

SubmitDone(u) == IF u.post = "none" THEN LineDone(u) ELSE Fail(u, u.post)

\* workflow.sent keeps the ACK code in the record and runs after_send; its error waits.
Sent ==
    /\ ui.at = "sent"
    /\ ui' \in UNION {IF interrupt THEN {Fail(u, "interrupted"), Fail(u, "output")}
                      ELSE {IF u.sendTo = "direct" THEN [u EXCEPT !.at = "ack"] ELSE SubmitDone(u),
                            Fail(u, "output")}
                        : u \in {[ui EXCEPT !.correlated = TRUE],
                                [ui EXCEPT !.correlated = TRUE, !.post = "hook"],
                                [ui EXCEPT !.unstored = TRUE, !.post = "configuration"]}}
    /\ UNCHANGED <<stream, mail, input, tracker, interrupt, ghosts>>

\* workflow.acknowledged refuses a record that does not hold the ACK code.
Acknowledged(u) ==
    IF u.correlated THEN {[u EXCEPT !.record = "acknowledged"],
                          [u EXCEPT !.record = "acknowledged", !.post = "hook"],
                          [u EXCEPT !.unstored = TRUE, !.post = "configuration"]}
    ELSE {[u EXCEPT !.post = IF @ = "none" THEN "protocol" ELSE @]}

\* wait_for_chat_ack
AckSettles ==
    /\ ui.at = "ack" /\ link
    /\ ui' \in (UNION {Printed(SubmitDone(u)) : u \in Acknowledged(ui) \cup Mark(ui, "timedOut")})
              \cup {Fail(u, "protocol") : u \in Mark(ui, "failed")}
              \cup (IF interrupt THEN {Fail(ui, "interrupted")} ELSE {})
    /\ UNCHANGED <<stream, mail, input, tracker, interrupt, ghosts>>

\* The tracking of the client is cleared with the session.
AckLosesLink ==
    /\ ui.at = "ack" /\ ~link
    /\ ui' \in {StartReconnect(u, "acked") : u \in Mark(ui, "failed")}
    /\ UNCHANGED <<stream, mail, input, tracker, interrupt, ghosts>>

AckResume ==
    /\ ui.at = "resume" /\ ui.back = "acked"
    /\ ui' \in Printed(SubmitDone(Reconnected(ui, "lineDone")))
    /\ UNCHANGED <<stream, mail, input, tracker, interrupt, ghosts>>

-----------------------------------------------------------------------------

\* SIGINT cancels the token; it is never reset.
Signal ==
    /\ ~interrupt /\ Listening
    /\ interrupt' = TRUE
    /\ UNCHANGED <<stream, mail, ui, input, tracker, ghosts>>

Exited == ui.at = "exit" /\ UNCHANGED vars

Init ==
    /\ link = FALSE /\ events = <<>> /\ lagged = FALSE /\ published = 0
    /\ mail \in {0, MaxMail}
    /\ ui \in {[mode |-> mode, at |-> "connect", back |-> "start", tries |-> 0, believes |-> FALSE,
                confirm |-> 0, flow |-> 0, purpose |-> "target", target |-> target, message |-> NoMessage,
                sendTo |-> "none", draft |-> NoMessage, draftTo |-> "none", record |-> "none", recordTo |-> "none",
                unstored |-> FALSE, correlated |-> FALSE, post |-> "none", held |-> NoMessage,
                active |-> TRUE, again |-> FALSE, emitted |-> 0, limit |-> limit, filter |-> filter,
                error |-> "none"]
                 : mode \in Modes, target \in Targets, limit \in {0, 2}, filter \in {"all", "message"}}
    /\ ui.mode = "chat" => ui.limit = 0 /\ ui.filter = "all"
    /\ ui.mode = "watch" => ui.target = "channel"
    /\ input = [at |-> "none", line |-> NoLine, lines |-> 0, messages |-> 0]
    /\ tracker = <<>> /\ interrupt = FALSE
    /\ hooked = 0 /\ recorded = <<>>
    /\ composed = [m \in Messages |-> [fate |-> "none", submits |-> 0, sends |-> 0, to |-> "none", went |-> {}]]
    /\ losses = 0 /\ attempts = 0 /\ everLagged = FALSE

Lifecycle == Connect \/ Activate \/ Cleanup \/ Unhook \/ Attempt \/ AttemptInterrupted
Watch == WatchSkip \/ WatchMessage \/ WatchOther \/ WatchDisconnected \/ WatchResume
Chat ==
    \/ ListContacts \/ SyncNextMessage \/ DrainEvent \/ DrainEnd \/ PollResume
    \/ ChatMessage \/ ChatLifecycle \/ IdleResume \/ TakeLine \/ EndLine
    \/ PrepareSend \/ BeginOutgoing \/ SendAccepted \/ SendFails \/ SendLosesLink
    \/ RetainResume \/ Sent \/ AckSettles \/ AckLosesLink \/ AckResume

Command == Lifecycle \/ IdleInterrupted \/ Lag \/ Watch \/ Chat
Next == Command \/ LoseLink \/ Arrive \/ ReadLine \/ Signal \/ Exited

Spec == Init /\ [][Next]_vars

\* send_chat_message on a link that is up: the only wait that is not selected against the token.
\* Its timer starts again with every packet, so it need not end while packets come.
AwaitsAnswer == ui.at = "send" /\ link

\* The runtime runs the command while it can, but nothing makes an answer come; the user, the
\* device and the signal are free.
FairSpec == Spec /\ WF_vars(Command /\ ~AwaitsAnswer)

-----------------------------------------------------------------------------
(* Properties.                                                             *)

\* The state has its type.
TypeOK ==
    /\ link \in BOOLEAN /\ lagged \in BOOLEAN /\ Len(events) <= Capacity
    /\ Len(tracker) <= TrackerCapacity
    /\ ui.tries < Attempts /\ ui.confirm \in Nat /\ ui.flow \in 0 .. 2
    /\ ui.draft \in 0 .. MaxMessages /\ input.at \in {"none", "reading", "offered", "waiting"}

\* on_connect and on_disconnect alternate through every reconnect, and every session that was
\* announced is taken back when the command ends, whichever step failed.
HooksBalanced ==
    /\ hooked \in 0 .. 1
    /\ ui.at = "exit" => hooked = 0 /\ ~link
    /\ ui.at = "idle" => hooked = 1

\* A link that is down is never overlooked: while the command waits, the Disconnected event is
\* still to be received and will not be taken for one of its own.
LossIsNoticed ==
    ui.at = "idle" /\ ~link =>
        \E i \in DOMAIN events :
            /\ events[i].kind = "disconnected"
            /\ lagged \/ ui.confirm <= Cardinality({j \in 1 .. i : events[j].kind = "connected"})

\* One decoded packet is recorded once, although it is both published and returned, and is
\* recorded by the time the stream is empty unless the channel overflowed.
IncomingRecordedOnce ==
    /\ \A i \in DOMAIN recorded : recorded[i] <= 1
    /\ ui.at = "idle" /\ events = <<>> /\ ~everLagged => \A i \in DOMAIN recorded : recorded[i] = 1

\* A message is transmitted at most once for each time the user submitted it, only to the
\* destination it was composed for, and not again after the device accepted it.
NoReplay ==
    \A m \in Messages :
        /\ composed[m].sends <= composed[m].submits
        /\ composed[m].went \subseteq {composed[m].to}
        /\ composed[m].fate = "accepted" => ui.draft # m

\* While chat waits for input, a message that was neither accepted nor discarded is the
\* retained draft.
DraftIsKept ==
    ui.at = "idle" => \A m \in Messages : composed[m].fate = "draft" => ui.draft = m

\* The record of a direct message is settled when chat waits for the next line, unless a write
\* of the history failed, and when it ends unless it was interrupted or could not print.
RecordsSettle ==
    ui.at \in {"idle", "exit"} /\ ui.record = "pending" =>
        \/ ui.unstored \/ ui.recordTo = "channel"
        \/ ui.at = "exit" /\ ui.error \in {"interrupted", "output"}

\* Every loss of the link is followed by at most three reconnect attempts.
\* This does not hold after a lag, when the command takes the events of its own reconnect for a
\* new loss.
ReconnectsAreBounded == attempts <= Attempts * losses

\* An interrupt ends the command from every step, a reconnect and a line that is handled included,
\* unless the device keeps a message that chat transmits unanswered on a link that stays up.
InterruptEnds == interrupt ~> (ui.at = "exit" \/ []AwaitsAnswer)

\* An interrupt ends the command.
\* This does not hold: the request of send_chat_message is not selected against the token.
InterruptAlwaysEnds == interrupt ~> ui.at = "exit"

\* The command and its hooks know whether the link is up, through every reconnect.
SessionIsFollowed == TypeOK /\ HooksBalanced /\ LossIsNoticed

\* No message is lost, recorded twice or sent twice, in either direction.
MessagesAreAccountedFor == IncomingRecordedOnce /\ NoReplay /\ DraftIsKept /\ RecordsSettle
=============================================================================
