---------------------------- MODULE ManagedActor ----------------------------
(***************************************************************************)
(* meshquill-core's ManagedClient (managed.rs): cloneable handles that put *)
(* operations into a bounded queue, the actor task that owns the Client    *)
(* and runs them one by one, and cancellation by generation.               *)
(*                                                                         *)
(* The Client is seen from outside: an operation takes some time, may open *)
(* the session on its way, and leaves it open or closed.  CompanionClient  *)
(* models what happens inside.                                             *)
(***************************************************************************)
EXTENDS Queues

CONSTANTS Commands,        \* the operations callers submit, one each
          CommandKinds,    \* subset of the kinds below
          QueueCapacity,   \* command_capacity of spawn_with_capacity
          MaxEpoch         \* bound: cancellations in a behaviour

AllKinds == {"connect", "reconnect", "disconnect", "request", "ack", "shutdown"}

ASSUME ActorAssumption == /\ CommandKinds \subseteq AllKinds
                          /\ QueueCapacity \in Nat \ {0}
                          /\ MaxEpoch \in Nat

VARIABLES
    state,        \* [Commands -> where the operation is]
    kind,         \* [Commands -> its ActorCommand variant]
    generation,   \* [Commands -> QueuedCommand::generation]
    queue,        \* the mpsc channel
    senders,      \* requests whose send() waits for a free slot, in order
    handles,      \* TRUE while some ManagedClient handle exists
    epoch,        \* value of the cancellation watch channel
    seen,         \* the value the actor's receiver has seen
    actor,        \* where run_actor is
    session       \* "closed", "open", or "dirty": open (client.is_connected())
                  \* and, as history, left by an interrupted operation

callerVars == <<kind, generation, senders, handles>>
actorVars == <<state, queue, epoch, seen, actor, session, callerVars>>

\* Not submitted; generation read; waiting for a slot; in the channel; run by
\* the actor; and the five ways to end: answered, discarded by the actor,
\* given up by the caller before the send, dropped by the actor half-way.
States == {"new", "calling", "sending", "queued", "active",
           "done", "dropped", "abandoned", "interrupted"}
ActorStates == {"loop", "backoff", "busy", "closing", "stopping", "stopped"}

Pending(r) == state[r] \in {"calling", "sending", "queued"}
Receiving == actor \in {"loop", "backoff"}
Active(r) == actor = "busy" /\ state[r] = "active"

ActorInit ==
    /\ state = [r \in Commands |-> "new"]
    /\ kind = [r \in Commands |-> "request"]
    /\ generation = [r \in Commands |-> 0]
    /\ queue = <<>> /\ senders = <<>> /\ handles = TRUE
    /\ epoch = 0 /\ seen = 0
    /\ actor = "loop" /\ session = "closed"

-----------------------------------------------------------------------------
(* Callers.                                                                *)

\* request() reads the generation first; a cancellation from another thread
\* may come before the send.
Call(r, k) ==
    /\ handles /\ state[r] = "new"
    /\ state' = [state EXCEPT ![r] = "calling"]
    /\ kind' = [kind EXCEPT ![r] = k]
    /\ generation' = [generation EXCEPT ![r] = epoch]
    /\ UNCHANGED <<queue, senders, handles, epoch, seen, actor, session>>

\* send(): at once, after a wait for a slot, or not at all.
Submit(r) ==
    /\ state[r] = "calling"
    /\ \/ /\ actor = "stopped"
          /\ state' = [state EXCEPT ![r] = "dropped"]
          /\ UNCHANGED <<queue, senders>>
       \/ /\ actor # "stopped" /\ Len(queue) < QueueCapacity /\ senders = <<>>
          /\ state' = [state EXCEPT ![r] = "queued"]
          /\ queue' = Append(queue, r)
          /\ UNCHANGED senders
       \/ /\ actor # "stopped" /\ (Len(queue) = QueueCapacity \/ senders # <<>>)
          /\ state' = [state EXCEPT ![r] = "sending"]
          /\ senders' = Append(senders, r)
          /\ UNCHANGED queue
    /\ UNCHANGED <<kind, generation, handles, epoch, seen, actor, session>>

\* The channel hands a freed slot to the sender that has waited longest.
SlotGranted ==
    /\ senders # <<>> /\ Len(queue) < QueueCapacity /\ actor # "stopped"
    /\ state' = [state EXCEPT ![Head(senders)] = "queued"]
    /\ queue' = Append(queue, Head(senders))
    /\ senders' = Tail(senders)
    /\ UNCHANGED <<kind, generation, handles, epoch, seen, actor, session>>

\* A caller gives up while its send() still waits; nothing was submitted.  A
\* caller that gives up later only drops its reply receiver.
AbandonSend(r) ==
    /\ state[r] = "sending"
    /\ state' = [state EXCEPT ![r] = "abandoned"]
    /\ senders' = Retain(senders, r)
    /\ UNCHANGED <<kind, generation, queue, handles, epoch, seen, actor, session>>

\* cancel_pending_operations()
Cancel ==
    /\ handles /\ epoch < MaxEpoch
    /\ epoch' = epoch + 1
    /\ UNCHANGED <<state, callerVars, queue, seen, actor, session>>

\* The last handle goes away; a call that has not sent yet holds one.
DropHandles ==
    /\ handles
    /\ \A r \in Commands : state[r] \notin {"calling", "sending"}
    /\ handles' = FALSE
    /\ UNCHANGED <<state, kind, generation, queue, senders, epoch, seen, actor, session>>

-----------------------------------------------------------------------------
(* The actor.  Its selects are biased: a queued command comes before a     *)
(* change of the epoch, and that before an idle read.                      *)

\* Mutant: borrow() for borrow_and_update(): the epoch stays unseen.
TakeWithoutUpdate ==
    /\ Receiving /\ queue # <<>>
    /\ LET r == Head(queue)
       IN  \/ /\ generation[r] = epoch
              /\ state' = [state EXCEPT ![r] = "active"] /\ actor' = "busy"
              /\ session' = IF kind[r] = "reconnect" THEN "closed" ELSE session
           \/ /\ generation[r] # epoch
              /\ state' = [state EXCEPT ![r] = "dropped"] /\ actor' = "loop"
              /\ UNCHANGED session
    /\ queue' = Tail(queue)
    /\ UNCHANGED <<callerVars, epoch, seen>>

\* recv(), then the comparison of generations in handle_optional_command.
\* reconnect() reports the old session closed before anything else.
TakeCommand ==
    /\ Receiving /\ queue # <<>>
    /\ LET r == Head(queue)
       IN  \/ /\ generation[r] = epoch
              /\ state' = [state EXCEPT ![r] = "active"] /\ actor' = "busy"
              /\ session' = IF kind[r] = "reconnect" THEN "closed" ELSE session
           \/ /\ generation[r] # epoch
              /\ state' = [state EXCEPT ![r] = "dropped"] /\ actor' = "loop"
              /\ UNCHANGED session
    /\ queue' = Tail(queue)
    /\ seen' = epoch
    /\ UNCHANGED <<callerVars, epoch>>

\* recv() returns None: every handle is gone and the queue is drained.
HandlesGone ==
    /\ Receiving /\ ~handles /\ queue = <<>>
    /\ actor' = "stopping"
    /\ UNCHANGED <<state, queue, epoch, seen, callerVars, session>>

\* interrupt_rx.changed() in the receiving loop.
NoticeEpoch ==
    /\ Receiving /\ queue = <<>> /\ handles /\ seen # epoch
    /\ seen' = epoch /\ actor' = "loop"
    /\ UNCHANGED <<state, queue, epoch, callerVars, session>>

\* next_event() on an idle session: the peer may close it, or an error leaves
\* it open and delays the next read by IDLE_ERROR_BACKOFF.
IdleRead ==
    /\ actor = "loop" /\ queue = <<>> /\ seen = epoch /\ handles /\ session # "closed"
    /\ \/ session' = "closed" /\ UNCHANGED actor
       \/ actor' = "backoff" /\ UNCHANGED session
    /\ UNCHANGED <<state, queue, epoch, seen, callerVars>>

BackoffEnds ==
    /\ actor = "backoff" /\ actor' = "loop"
    /\ UNCHANGED <<state, queue, epoch, seen, callerVars, session>>

\* connect and reconnect open the transport before their handshake ends.
OperationOpens(r) ==
    /\ Active(r) /\ kind[r] \in {"connect", "reconnect"} /\ session = "closed"
    /\ session' = "open"
    /\ UNCHANGED <<state, queue, epoch, seen, actor, callerVars>>

\* handle_command returns and the reply is sent.  Every operation may find the
\* session closed by the peer; only the disconnect of a shutdown is bounded
\* and may give up.
CommandEnds(r) ==
    /\ Active(r)
    /\ state' = [state EXCEPT ![r] = "done"]
    /\ actor' = IF kind[r] = "shutdown" THEN "stopping" ELSE "loop"
    /\ session' \in IF kind[r] = "disconnect" THEN {"closed"} ELSE {session, "closed"}
    /\ UNCHANGED <<queue, epoch, seen, callerVars>>

\* Mutant: every session survives an interruption.
InterruptKeepsSession(r) ==
    /\ Active(r) /\ seen # epoch
    /\ seen' = epoch
    /\ state' = [state EXCEPT ![r] = "interrupted"]
    /\ actor' = "loop"
    /\ session' = IF session = "closed" \/ kind[r] = "ack" THEN session ELSE "dirty"
    /\ UNCHANGED <<queue, epoch, callerVars>>

\* changed() fires while the operation is pending: the operation is dropped.
\* An ACK wait leaves the session as it is; after anything else it is closed.
Interrupt(r) ==
    /\ Active(r) /\ seen # epoch
    /\ seen' = epoch
    /\ state' = [state EXCEPT ![r] = "interrupted"]
    /\ \/ /\ kind[r] = "ack" /\ actor' = "loop" /\ UNCHANGED session
       \/ /\ kind[r] # "ack" /\ actor' = "closing"
          /\ session' = IF session = "closed" THEN "closed" ELSE "dirty"
    /\ UNCHANGED <<queue, epoch, callerVars>>

\* client.disconnect() within INTERRUPTED_DISCONNECT_TIMEOUT ...
CloseInterrupted ==
    /\ actor = "closing" /\ actor' = "loop"
    /\ session' = "closed"
    /\ UNCHANGED <<state, queue, epoch, seen, callerVars>>

\* ... or not: the actor ends, the session still marked open.
CloseTimesOut ==
    /\ actor = "closing" /\ actor' = "stopping"
    /\ UNCHANGED <<state, queue, epoch, seen, callerVars, session>>

\* Mutant: the channel is left open when the actor ends.
StopLeavesChannel ==
    /\ actor = "stopping" /\ actor' = "stopped"
    /\ session' \in {session, "closed"}
    /\ UNCHANGED <<state, queue, epoch, seen, callerVars>>

\* After the loop: one more bounded disconnect, then the receiver is dropped
\* and with it every command that was still queued or being sent.
StopActor ==
    /\ actor = "stopping" /\ actor' = "stopped"
    /\ session' \in {session, "closed"}
    /\ state' = [r \in Commands |->
                    IF state[r] \in {"sending", "queued"} THEN "dropped" ELSE state[r]]
    /\ queue' = <<>> /\ senders' = <<>>
    /\ UNCHANGED <<kind, generation, handles, epoch, seen>>

-----------------------------------------------------------------------------
ActorStep == TakeCommand \/ HandlesGone \/ NoticeEpoch \/ BackoffEnds
             \/ CloseInterrupted \/ CloseTimesOut \/ StopActor

ActorNext ==
    \/ \E r \in Commands : \/ \E k \in CommandKinds : Call(r, k)
                           \/ Submit(r) \/ AbandonSend(r)
                           \/ OperationOpens(r) \/ CommandEnds(r) \/ Interrupt(r)
    \/ SlotGranted \/ Cancel \/ DropHandles \/ IdleRead
    \/ ActorStep

ActorSpec == ActorInit /\ [][ActorNext]_actorVars

\* The runtime keeps polling the callers and the actor, and the channel wakes
\* its senders.
SchedulerFairness == /\ WF_actorVars(ActorStep)
                     /\ WF_actorVars(SlotGranted)
                     /\ \A r \in Commands : WF_actorVars(Submit(r))
                     /\ WF_actorVars(\E r \in Commands : Interrupt(r))

\* An operation may hang until it is cancelled ...
HangingSpec == ActorSpec /\ SchedulerFairness

\* ... or end by itself, which is what CompanionClient!RequestEnds is about.
OperationFairness == WF_actorVars(\E r \in Commands : CommandEnds(r))

FairSpec == HangingSpec /\ OperationFairness

-----------------------------------------------------------------------------
\* Every variable has its type, and the channel its capacity.
ActorTypeOK ==
    /\ state \in [Commands -> States] /\ kind \in [Commands -> AllKinds]
    /\ generation \in [Commands -> Nat] /\ epoch \in Nat /\ seen \in Nat
    /\ queue \in Seq(Commands) /\ Len(queue) <= QueueCapacity
    /\ senders \in Seq(Commands)
    /\ handles \in BOOLEAN /\ actor \in ActorStates
    /\ session \in {"closed", "open", "dirty"}

\* A session in which an operation was dropped half-way (a frame half written,
\* an answer outstanding) is closed before any other command or idle read
\* uses it; the actor may only end with it still open.
DirtySessionIsNeverUsed == session = "dirty" => actor \in {"closing", "stopping", "stopped"}

\* The callers' view of a request.
PhaseOf(r) ==
    CASE Pending(r) -> IF generation[r] = epoch THEN "waiting" ELSE "doomed"
      [] state[r] = "active" -> IF generation[r] = epoch THEN "running" ELSE "halting"
      [] state[r] = "done" -> "ended"
      [] state[r] = "interrupted" -> "aborted"
      [] state[r] = "dropped" -> "refused"
      [] state[r] = "abandoned" -> "withdrawn"
      [] OTHER -> "new"

phaseBar == [r \in Commands |-> PhaseOf(r)]
openBar == actor # "stopped"

Serial == INSTANCE SerialExecutor WITH Requests <- Commands, phase <- phaseBar, open <- openBar

\* The queue, the waiting senders, the epoch and the actor's selects together
\* implement the serial executor: no operation is run twice, run beside
\* another, run although cancelled before it began, interrupted by a
\* cancellation older than itself, or refused while the actor lives.
ImplementsSerialExecutor == Serial!SerialSpec

\* Every call comes back, answered, discarded or given up, if operations end
\* by themselves.
EveryCallReturns ==
    OperationFairness =>
        \A r \in Commands : (Pending(r) \/ state[r] = "active")
                            ~> ~(Pending(r) \/ state[r] = "active")

\* A cancelled operation stops even when it would hang for ever.
CancellationInterrupts ==
    \A r \in Commands : (state[r] = "active" /\ generation[r] # epoch)
                        ~> state[r] # "active"

\* "the actor closes that transport within one second before accepting
\* cleanup commands" (doc comment of cancel_pending_operations).  This does not hold:
\* a disconnect that takes longer ends the actor.
CleanupIsAccepted == actor = "closing" ~> actor = "loop"

\* No call hangs: each returns if operations end, and cancellation ends one that
\* does not.
CallsEnd == EveryCallReturns /\ CancellationInterrupts
=============================================================================
