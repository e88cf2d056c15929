-------------------------- MODULE ActionLifecycle --------------------------
(***************************************************************************)
(* The lifecycle of one actuator plan, as the tables of                     *)
(* host/actuatord/apply_journal.go and approval.go define it.  "none" is a  *)
(* plan with no PREPARED record; "PREPARED" is a plan the journal knows and *)
(* nobody decided yet (the Go code holds no outcome for it).  A plan that   *)
(* carries an apply attempt is APPROVED with hasAttempt TRUE: the attempt   *)
(* is a record of its own, not a state.                                     *)
(***************************************************************************)
EXTENDS Integers

PlanStates == {"none", "PREPARED", "APPROVED", "REJECTED", "EXPIRED_UNAPPLIED",
               "STALE_ABORT", "APPLIED", "VERIFIED", "EXPIRED", "FAILED_DIRTY"}

\* The outcomes a decision record may carry: an administrator's, or the clock's.
DecisionStates == {"APPROVED", "REJECTED", "EXPIRED_UNAPPLIED"}

\* States no record can leave.
TerminalStates == {"REJECTED", "EXPIRED_UNAPPLIED", "STALE_ABORT", "EXPIRED", "FAILED_DIRTY"}

\* Mutation: a dirty plan may still be recorded as expired.
TransitionOutOfDirty(prior, hasAttempt, next) ==
    \/ prior = "APPROVED" /\ next \in {"APPLIED", "REJECTED", "FAILED_DIRTY", "STALE_ABORT"}
    \/ prior = "APPLIED" /\ next \in {"VERIFIED", "EXPIRED", "FAILED_DIRTY"}
    \/ prior \in {"VERIFIED", "FAILED_DIRTY"} /\ next \in {"EXPIRED", "FAILED_DIRTY"}

LifecycleTransitionAllowed(prior, hasAttempt, next) ==
    \/ /\ prior = "APPROVED" /\ hasAttempt
       /\ next \in {"APPLIED", "REJECTED", "FAILED_DIRTY"}
    \/ /\ prior = "APPROVED" /\ ~hasAttempt
       /\ next \in {"STALE_ABORT", "REJECTED"}
    \/ /\ prior = "APPLIED" /\ hasAttempt
       /\ next \in {"VERIFIED", "EXPIRED", "FAILED_DIRTY"}
    \/ /\ prior = "VERIFIED" /\ hasAttempt
       /\ next \in {"EXPIRED", "FAILED_DIRTY"}

MaxLifecycleFramesPerPlan == 6

\* How many more frames a plan in this state may still need.
LifecycleFutureFrames(state, hasAttempt) ==
    CASE state = "PREPARED"                   -> MaxLifecycleFramesPerPlan
      [] state = "APPROVED" /\ ~hasAttempt    -> 5
      [] state = "APPROVED" /\ hasAttempt     -> 4
      [] state = "APPLIED"                    -> 3
      [] state = "VERIFIED"                   -> 2
      [] state = "FAILED_DIRTY"               -> 1
      [] OTHER                                -> 0

\* A plan whose kernel effect is not settled by a durable record.
InFlight(state, hasAttempt) ==
    \/ state = "APPLIED"
    \/ state = "APPROVED" /\ hasAttempt

\* A plan that counts against the limits on active containments.
Active(state, hasAttempt) == InFlight(state, hasAttempt) \/ state = "VERIFIED"
=============================================================================
