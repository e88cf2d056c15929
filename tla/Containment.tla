----------------------------- MODULE Containment -----------------------------
(***************************************************************************)
(* What the actuator promises of each containment, without processes,       *)
(* crashes, clocks or files: the saga of docs/adr/0001 I5.  A verdict (the  *)
(* durable state of a plan) and a deny (an element in the kernel) evolve    *)
(* side by side; only an attempted plan is enforced, once; and a verdict    *)
(* that says the deny is not there is only pronounced when it is not.       *)
(***************************************************************************)
EXTENDS ActionLifecycle

CONSTANTS Plans, Target

VARIABLES
    verdict,    \* [Plans -> [st, att]]
    live,       \* the plans whose deny is in force
    enforced    \* the plans that were ever sent to the kernel

vars == <<verdict, live, enforced>>

Init ==
    /\ verdict = [p \in Plans |-> [st |-> "none", att |-> FALSE]]
    /\ live = {}
    /\ enforced = {}

\* No deny is open, doubtful or in the same container.
Free(p) ==
    /\ \A q \in Plans : ~InFlight(verdict[q].st, verdict[q].att) /\ verdict[q].st # "FAILED_DIRTY"
    /\ \A q \in live : Target[q] # Target[p]

Propose(p) ==
    /\ verdict[p].st = "none"
    /\ verdict' = [verdict EXCEPT ![p].st = "PREPARED"]
    /\ UNCHANGED <<live, enforced>>

Decide(p, s) ==
    /\ verdict[p].st = "PREPARED"
    /\ verdict' = [verdict EXCEPT ![p].st = s]
    /\ UNCHANGED <<live, enforced>>

Attempt(p) ==
    /\ verdict[p] = [st |-> "APPROVED", att |-> FALSE]
    /\ Free(p)
    /\ verdict' = [verdict EXCEPT ![p].att = TRUE]
    /\ UNCHANGED <<live, enforced>>

\* The one mutation of the kernel, which may also fail.
Enforce(p) ==
    /\ verdict[p] = [st |-> "APPROVED", att |-> TRUE]
    /\ p \notin enforced
    /\ enforced' = enforced \cup {p}
    /\ live' \in {live, live \cup {p}}
    /\ UNCHANGED verdict

\* A deny ends by its own timeout, or with the namespace it lives in.
Fade ==
    /\ live' \subseteq live
    /\ UNCHANGED <<verdict, enforced>>

Pronounce(p, s) ==
    /\ LifecycleTransitionAllowed(verdict[p].st, verdict[p].att, s)
    /\ s \in {"REJECTED", "STALE_ABORT", "EXPIRED"} => p \notin live
    /\ s \in {"APPLIED", "VERIFIED"} => p \in enforced
    /\ verdict' = [verdict EXCEPT ![p].st = s]
    /\ UNCHANGED <<live, enforced>>

Next ==
    \/ Fade
    \/ \E p \in Plans :
          \/ Propose(p) \/ Attempt(p) \/ Enforce(p)
          \/ \E s \in DecisionStates : Decide(p, s)
          \/ \E s \in PlanStates : Pronounce(p, s)

Spec == Init /\ [][Next]_vars
=============================================================================
