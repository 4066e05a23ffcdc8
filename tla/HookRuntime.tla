---------------------------- MODULE HookRuntime ----------------------------
(***************************************************************************)
(* The hook runtime (meshquill-hooks): every call starts a Python          *)
(* subprocess with the bootstrap, writes one request, reads two bounded    *)
(* streams, waits for the exit and gives up at one deadline.  Calls run    *)
(* concurrently and share a semaphore; the subprocess runs on its own and  *)
(* may hang, flood a stream, die, or leave a descendant that keeps its     *)
(* pipes open; the caller may drop the call at any point.                  *)
(***************************************************************************)
EXTENDS Naturals, FiniteSets

CONSTANTS Calls,           \* concurrent calls
          MaxConcurrency,  \* HookConfig::max_concurrency
          Kinds            \* what is called: a subset of AllKinds

AllKinds == {"validate", "observe", "before_send"}

\* validate_config: a limit of zero is refused.
ASSUME ValidateConfig ==
    /\ IsFiniteSet(Calls) /\ MaxConcurrency \in Nat \ {0} /\ Kinds \subseteq AllKinds

VARIABLES
    script,  \* the script and what it does when it runs
    policy,  \* [observe, before_send]: "open" or "closed"
    call,    \* [Calls -> the call]
    child    \* [Calls -> its subprocess]

hookVars == <<script, policy, call, child>>

-----------------------------------------------------------------------------
(* The script and the bootstrap.                                           *)

\* What a changed field or a reason is: "empty" is a blank destination or reason (a text may be
\* empty and is "fine"), "too large" is beyond its limit or holds a NUL.
Values == {"same", "fine", "empty", "too large"}
Results == {"nothing", "allow", "modify", "modify nothing", "reject", "garbage"}
Conducts == {"returns", "raises", "hangs", "hangs at load", "floods", "dies", "exits silently",
             "exits with an error", "leaves a process"}

Scripts ==
    [file : {"regular", "other"}, loads : BOOLEAN, handler : {"none", "valid", "invalid"},
     conduct : Conducts, result : Results, value : Values]

\* Scripts that differ only in what never matters are one.
Interesting(s) ==
    /\ s.file = "other" => s.loads /\ s.handler = "none"
    /\ ~s.loads => s.handler = "none"
    /\ s.handler # "valid" => s.conduct = "returns"
    /\ s.conduct \in {"raises", "hangs", "hangs at load", "dies", "exits silently"} \/ s.handler # "valid" =>
          s.result = "nothing"
    /\ s.conduct \in {"floods", "exits with an error", "leaves a process"} => s.result = "allow"
    /\ s.result \notin {"modify", "reject"} => s.value = "same"
    /\ s.result = "reject" => s.value # "same"

Fault(kind) == [status |-> "error", detail |-> kind]
Says(status, detail) == [status |-> status, detail |-> detail]

\* _normalize_before_send
NormalizeBeforeSend(result) ==
    CASE result \in {"nothing", "allow"} -> Says("invoked", "allow")
      [] result \in {"modify", "reject"} -> Says("invoked", result)
      [] OTHER -> Fault("invalid_result")

\* _inspect_handlers: one bad handler spoils every call.
InspectHandlers(kind) ==
    CASE script.handler = "invalid" -> Fault("not_callable")
      [] script.handler = "none" /\ kind = "validate" -> Fault("no_handlers")
      [] OTHER -> Says("found", script.handler)

\* _run
Bootstrap(kind) ==
    LET found == InspectHandlers(kind)
    IN CASE ~script.loads -> Fault("load_error")
         [] script.loads /\ found.status = "error" -> found
         [] script.loads /\ found.status = "found" /\ kind = "validate" -> Says("validated", "none")
         [] script.loads /\ found.status = "found" /\ kind # "validate" ->
              CASE script.handler = "none" -> Says("missing", "none")
                [] script.handler = "valid" /\ script.conduct = "raises" -> Fault("hook_exception")
                [] OTHER -> IF kind = "before_send" THEN NormalizeBeforeSend(script.result)
                            ELSE Says("invoked", "none")

\* The handler runs only for an event, the body of the script for every call.
Conduct(kind) == IF kind = "validate" /\ script.conduct \in {"raises", "hangs"} THEN "returns" ELSE script.conduct

-----------------------------------------------------------------------------
(* What the runtime makes of an answer.                                    *)

Failed(reason) == [is |-> "failed", detail |-> reason]
Value(is, detail) == [is |-> is, detail |-> detail]
NoResult == Value("none", "none")

\* validate_modified_string
ValidModifiedString(value) == value \in {"same", "fine"}

\* apply_before_send_result
ApplyBeforeSendResult(detail) ==
    CASE detail = "allow" -> Value("allow", "none")
      [] detail \in {"modify", "reject"} ->
            IF ValidModifiedString(script.value) THEN Value(detail, script.value)
            ELSE Failed("invalid modification")

\* invoke, validate and map_runner_error
Interpret(kind, response) ==
    CASE response.status = "error" -> Failed(response.detail)
      [] response.status = "validated" -> Value("validated", "none")
      [] response.status = "missing" -> Value(IF kind = "before_send" THEN "allow" ELSE "missing", "none")
      [] response.status = "invoked" ->
            IF kind = "before_send" THEN ApplyBeforeSendResult(response.detail)
            ELSE Value("completed", "none")

\* Mutant: a failing before_send lets the message pass.
ApplyFailureOpen(kind, result) ==
    CASE kind = "observe" /\ policy.observe = "open" -> Value("failed open", "none")
      [] kind = "before_send" -> Value("allow", "none")
      [] OTHER -> result

\* dispatch and apply_before_send_failure: the policy decides what a failure means.
ApplyFailure(kind, result) ==
    CASE kind = "observe" /\ policy.observe = "open" -> Value("failed open", "none")
      [] kind = "before_send" /\ policy.before_send = "open" -> Value("allow", "none")
      [] OTHER -> result

-----------------------------------------------------------------------------
(* A call.                                                                 *)

NoCall == [kind |-> "observe", at |-> "idle", permit |-> FALSE, input |-> "fine", expired |-> FALSE,
           out |-> "open", err |-> "open", exit |-> "none", result |-> NoResult]
NoChild == [is |-> "none", stdin |-> "open", out |-> "silent", held |-> FALSE]

Over == {"idle", "done", "cancelled"}
Permits == MaxConcurrency - Cardinality({c \in Calls : call[c].permit})

Goes(c, at) == call' = [call EXCEPT ![c].at = at]

\* The call returns; its permit is released with its scope.
Return(c, result) ==
    call' = [call EXCEPT ![c] = [NoCall EXCEPT !.kind = call[c].kind, !.at = "done",
               !.result = IF result.is = "failed" THEN ApplyFailure(call[c].kind, result) ELSE result]]

Timeout == Failed("timeout")

\* A call of the workflow, of hooks validate or of hooks test.
StartCall(c) ==
    /\ call[c].at = "idle"
    /\ \E kind \in Kinds, input \in {"fine", "refused"} :
          call' = [call EXCEPT ![c].kind = kind, ![c].input = input, ![c].at = "check"]
    /\ UNCHANGED <<script, policy, child>>

\* The deadline covers everything from here.
Expire(c) ==
    /\ call[c].at \notin Over /\ ~call[c].expired
    /\ call' = [call EXCEPT ![c].expired = TRUE]
    /\ UNCHANGED <<script, policy, child>>

\* validate_send_input and encode_request
RequestFits(c) == call[c].input = "fine"

\* validate_script_file
RegularFile == script.file = "regular"

CheckRequest(c) ==
    /\ call[c].at = "check"
    /\ IF call[c].expired THEN Return(c, Timeout)
       ELSE IF RegularFile /\ RequestFits(c) THEN Goes(c, "permit")
       ELSE Return(c, Failed("request"))
    /\ UNCHANGED <<script, policy, child>>

AcquirePermit(c) ==
    /\ call[c].at = "permit"
    /\ \/ Permits > 0 /\ call' = [call EXCEPT ![c].at = "spawn", ![c].permit = TRUE]
       \/ call[c].expired /\ Return(c, Timeout)
    /\ UNCHANGED <<script, policy, child>>

\* A child that is spawned after the deadline is terminated before the call returns.
Spawn(c) ==
    /\ call[c].at = "spawn"
    /\ IF call[c].expired THEN Return(c, Timeout) /\ UNCHANGED child
       ELSE \/ Return(c, Failed("spawn")) /\ UNCHANGED child
            \/ Goes(c, "write") /\ child' = [child EXCEPT ![c] = [NoChild EXCEPT !.is = "running"]]
    /\ UNCHANGED <<script, policy>>

\* Mutant: the child is left to itself.
TerminateLater(c, result) ==
    /\ Return(c, result)
    /\ UNCHANGED child

\* ReaderTasks::terminate and terminate_unconnected: kill, then wait for the exit.
Terminate(c, result) ==
    /\ call' = [call EXCEPT ![c].at = "reap", ![c].result = result]
    /\ child' = [child EXCEPT ![c].is = IF @ = "running" THEN "killed" ELSE @]

Reap(c) ==
    /\ call[c].at = "reap"
    /\ child' = [child EXCEPT ![c] = [NoChild EXCEPT !.is = "reaped"]]
    /\ Return(c, call[c].result)
    /\ UNCHANGED <<script, policy>>

\* start_communication: the readers run before the request is written, so that a child that
\* writes first cannot block both sides.
WriteRequest(c) ==
    /\ call[c].at = "write"
    /\ \/ /\ child[c].is = "running"
          /\ child' = [child EXCEPT ![c].stdin = "written"] /\ Goes(c, "read")
       \/ child[c].is = "exited" /\ Terminate(c, Failed("stream"))
       \/ call[c].expired /\ Terminate(c, Timeout)
    /\ UNCHANGED <<script, policy>>

Ended(c) == child[c].is = "exited" /\ ~child[c].held

\* read_bounded: to the end of the stream or one byte beyond the limit.
ReadStream(c) ==
    /\ call[c].at = "read"
    /\ \/ /\ call[c].out = "open" /\ Ended(c)
          /\ call' = [call EXCEPT ![c].out = "complete"] /\ UNCHANGED child
       \/ /\ call[c].err = "open" /\ Ended(c)
          /\ call' = [call EXCEPT ![c].err = "complete"] /\ UNCHANGED child
       \/ /\ child[c].out = "flood" /\ call[c].out = "open"
          /\ Terminate(c, Failed("output too large"))
    /\ UNCHANGED <<script, policy>>

WaitExit(c) ==
    /\ call[c].at = "read" /\ call[c].exit = "none" /\ child[c].is = "exited"
    /\ call' = [call EXCEPT ![c].exit = IF Conduct(call[c].kind) \in {"exits with an error", "dies"}
                                        THEN "failure" ELSE "success"]
    /\ UNCHANGED <<script, policy, child>>

\* Mutant: the deadline is only looked at when something is read.
CommunicateExpiresLate(c) ==
    /\ call[c].at = "read" /\ call[c].expired /\ Ended(c)
    /\ Terminate(c, Timeout)
    /\ UNCHANGED <<script, policy>>

CommunicateExpires(c) ==
    /\ call[c].at = "read" /\ call[c].expired
    /\ Terminate(c, Timeout)
    /\ UNCHANGED <<script, policy>>

HasAll(c) == call[c].out = "complete" /\ call[c].err = "complete" /\ call[c].exit # "none"

\* finish_communication and the rest of run_request; the wait has reaped the child.
Finish(c) ==
    /\ call[c].at = "read" /\ HasAll(c)
    /\ child' = [child EXCEPT ![c] = [NoChild EXCEPT !.is = "reaped"]]
    /\ IF call[c].exit = "failure" THEN Return(c, Failed("exit"))
       ELSE IF call[c].expired THEN Return(c, Timeout)
       ELSE IF child[c].out # "response" THEN Return(c, Failed("malformed output"))
       ELSE Return(c, Interpret(call[c].kind, Bootstrap(call[c].kind)))
    /\ UNCHANGED <<script, policy>>

\* The future is dropped: kill_on_drop, and the permit goes with it.
Cancel(c) ==
    /\ call[c].at \notin Over
    /\ call' = [call EXCEPT ![c] = [NoCall EXCEPT !.kind = call[c].kind, !.at = "cancelled"]]
    /\ child' = [child EXCEPT ![c] = [NoChild EXCEPT !.is = IF child[c].is = "running" THEN "killed" ELSE child[c].is]]
    /\ UNCHANGED <<script, policy>>

-----------------------------------------------------------------------------
(* The subprocess.                                                         *)

\* _main: it reads the whole request, runs and prints one line.
ChildAnswers(c) ==
    /\ child[c].is = "running" /\ child[c].stdin = "written"
    /\ Conduct(call[c].kind) \in {"returns", "raises", "exits with an error", "leaves a process"}
    /\ child' = [child EXCEPT ![c] = [@ EXCEPT !.is = "exited", !.out = "response",
                                      !.held = Conduct(call[c].kind) = "leaves a process"]]
    /\ UNCHANGED <<script, policy, call>>

ChildFloods(c) ==
    /\ child[c].is = "running" /\ Conduct(call[c].kind) = "floods" /\ child[c].out = "silent"
    /\ child' = [child EXCEPT ![c].out = "flood"]
    /\ UNCHANGED <<script, policy, call>>

\* It may die before it has read its request, or end without an answer and without an error.
ChildDies(c) ==
    /\ child[c].is = "running" /\ Conduct(call[c].kind) \in {"dies", "exits silently"}
    /\ child' = [child EXCEPT ![c].is = "exited"]
    /\ UNCHANGED <<script, policy, call>>

HookInit ==
    /\ script \in {s \in Scripts : Interesting(s)}
    /\ policy \in {[observe |-> "open", before_send |-> "closed"],   \* the default
                  [observe |-> "closed", before_send |-> "open"]}
    /\ call = [c \in Calls |-> NoCall]
    /\ child = [c \in Calls |-> NoChild]

Runs(c) ==
    \/ CheckRequest(c) \/ AcquirePermit(c) \/ Spawn(c) \/ WriteRequest(c) \/ ReadStream(c)
    \/ WaitExit(c) \/ CommunicateExpires(c) \/ Finish(c) \/ Reap(c)
Subprocess(c) == ChildAnswers(c) \/ ChildFloods(c) \/ ChildDies(c)

AllOver == (\A c \in Calls : call[c].at \in Over \ {"idle"}) /\ UNCHANGED hookVars

HookNext == (\E c \in Calls : StartCall(c) \/ Runs(c) \/ Subprocess(c) \/ Expire(c) \/ Cancel(c)) \/ AllOver

\* Time passes and the runtime polls the call; nothing is asked of the subprocess.
HookSpec == HookInit /\ [][HookNext]_hookVars /\ \A c \in Calls : WF_hookVars(Runs(c)) /\ WF_hookVars(Expire(c))

-----------------------------------------------------------------------------
(* Properties.                                                             *)

\* The state has its type, and permits are neither lost nor invented.
HookTypeOK ==
    /\ Permits \in 0 .. MaxConcurrency
    /\ (\A c \in Calls : call[c].at \in Over) => Permits = MaxConcurrency
    /\ \A c \in Calls :
        /\ call[c].kind \in AllKinds /\ call[c].expired \in BOOLEAN /\ call[c].permit \in BOOLEAN
        /\ call[c].result.is \in {"none", "failed", "failed open", "allow", "modify", "reject",
                                  "validated", "missing", "completed"}
        /\ child[c].is \in {"none", "running", "exited", "killed", "reaped"}

\* However a call ends, there is no subprocess of it left that still runs, and one that
\* returned has also been waited for; so no more run at once than the configuration allows.
NoSubprocessIsLeft ==
    /\ \A c \in Calls : /\ call[c].at \in Over => child[c].is # "running"
                        /\ call[c].at = "done" => child[c].is \in {"none", "reaped"}
    /\ Cardinality({c \in Calls : child[c].is = "running"}) <= MaxConcurrency

\* before_send with the closed policy: a message passes only when the script was asked, ran to
\* a successful end in time and let it pass, or has no such handler.
NothingPassesUnasked ==
    \A c \in Calls :
        call[c].at = "done" /\ call[c].kind = "before_send" /\ policy.before_send = "closed"
          /\ call[c].result.is \in {"allow", "modify"} =>
            /\ script.file = "regular" /\ script.loads /\ script.handler # "invalid"
            /\ script.handler = "valid" =>
                  /\ Conduct("before_send") = "returns"
                  /\ script.result \in {"nothing", "allow", "modify"}

\* A destination or text that a script puts in place of the original, and the reason of a
\* rejection, are within their limits, and no destination and no reason is blank.
ChangesAreValid ==
    \A c \in Calls : call[c].result.is \in {"modify", "reject"} => call[c].result.detail \in {"same", "fine"}

\* hooks validate: a script is valid only if it loads and has a handler, all of them callable.
ValidatedIsUsable ==
    \A c \in Calls : call[c].result.is = "validated" => script.loads /\ script.handler = "valid"

\* Every call ends, whatever the script does.
CallEnds == \A c \in Calls : call[c].at = "check" ~> call[c].at \in Over \ {"idle"}

\* A call gives back all it took, its permit and its subprocess.
CallsAreCleanedUp == HookTypeOK /\ NoSubprocessIsLeft

\* What a script decides counts only after it was asked and its answer was checked.
OnlyCheckedAnswersCount == NothingPassesUnasked /\ ChangesAreValid /\ ValidatedIsUsable
=============================================================================
