--------------------------- MODULE SerialExecutor ---------------------------
(***************************************************************************)
(* What ManagedClient promises its callers, and nothing about how: every   *)
(* operation runs at most once and one operation runs at a time; a         *)
(* cancellation reaches, at one instant, every operation submitted before  *)
(* it and none submitted after it; what it reaches before it has started   *)
(* never runs; and while the executor is open nothing else is refused.     *)
(***************************************************************************)
CONSTANT Requests

VARIABLES phase,   \* [Requests -> Phases]
          open     \* FALSE once the executor has ended

Phases == {"new", "waiting", "doomed", "running", "halting",
           "ended", "aborted", "refused", "withdrawn"}

NothingRuns == \A r \in Requests : phase[r] \notin {"running", "halting"}

Move(r, from, to) == /\ phase[r] \in from
                     /\ phase' = [phase EXCEPT ![r] = to]
                     /\ UNCHANGED open

SerialInit == phase = [r \in Requests |-> "new"] /\ open = TRUE

Submitted(r) == Move(r, {"new"}, "waiting")
Withdrawn(r) == Move(r, {"waiting", "doomed"}, "withdrawn")
Started(r) == open /\ NothingRuns /\ Move(r, {"waiting"}, "running")
Ended(r) == Move(r, {"running", "halting"}, "ended")
Aborted(r) == Move(r, {"halting"}, "aborted")
Refused(r) == /\ phase[r] = "waiting" => ~open
              /\ Move(r, {"waiting", "doomed"}, "refused")

CancelledAll ==
    /\ phase' = [r \in Requests |-> CASE phase[r] = "waiting" -> "doomed"
                                      [] phase[r] = "running" -> "halting"
                                      [] OTHER -> phase[r]]
    /\ UNCHANGED open

\* The executor ends between two operations; what waits is refused, now or
\* when its caller finds out.
Closed == /\ open /\ NothingRuns
          /\ open' = FALSE
          /\ \E S \in SUBSET {r \in Requests : phase[r] \in {"waiting", "doomed"}} :
                phase' = [r \in Requests |-> IF r \in S THEN "refused" ELSE phase[r]]

SerialNext == \/ \E r \in Requests : \/ Submitted(r) \/ Withdrawn(r) \/ Started(r)
                                     \/ Ended(r) \/ Aborted(r) \/ Refused(r)
              \/ CancelledAll \/ Closed

SerialSpec == SerialInit /\ [][SerialNext]_<<phase, open>>
=============================================================================
