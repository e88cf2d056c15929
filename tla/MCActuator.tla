----------------------------- MODULE MCActuator -----------------------------
(***************************************************************************)
(* Instances of the actuator: two plans for one container, two plans for    *)
(* two containers, one plan alone, one plan beside a refused one, and a     *)
(* daemon whose last fault left an uncertain audit behind.                  *)
(***************************************************************************)
EXTENDS Actuator, TLC

OneContainer == [p \in Plans |-> CHOOSE c \in Containers : TRUE]

\* Plan 1 in one container, the others in another.
OwnContainers ==
    LET first == CHOOSE c \in Containers : TRUE
        other == CHOOSE c \in Containers : c # first
    IN  [p \in Plans |-> IF p = 1 THEN first ELSE other]

\* The last fault: the observer could not answer while the overdue plan 1 was audited,
\* and plan 2 was approved meanwhile.
AfterUncertainAudit ==
    /\ disk = [p \in Plans |-> IF p = 1 THEN [st |-> "VERIFIED", att |-> TRUE]
                                         ELSE [st |-> "APPROVED", att |-> FALSE]]
    /\ mem = disk /\ failed = FALSE
    /\ proc = "up" /\ worker = TRUE
    /\ pc = "idle" /\ cur = 0 /\ todo = {} /\ ctx = NoDeadline /\ seen = 0
    /\ uncertain = TRUE
    /\ manual = FALSE /\ exact = TRUE /\ file = FALSE /\ acked = FALSE
    /\ apprLeft \in [Plans -> 0..ApprovalTTL] /\ legitLeft = [p \in Plans |-> 0]
    /\ auditLeft = legitLeft
    /\ sameBoot = [p \in Plans |-> TRUE] /\ sameGen \in [Plans -> BOOLEAN]
    /\ elem = legitLeft /\ flushes = [p \in Plans |-> IF p = 1 THEN 1 ELSE 0] /\ late \in {{}, {1}}
    /\ calm = TRUE

\* A daemon that has refused plan 2 and has nothing of plan 1 yet.
OnePlanLeft ==
    /\ disk = [p \in Plans |-> [st |-> IF p = 1 THEN "none" ELSE "REJECTED", att |-> FALSE]]
    /\ mem = disk /\ failed = FALSE
    /\ proc = "down" /\ worker = FALSE
    /\ pc = "idle" /\ cur = 0 /\ todo = {} /\ ctx = NoDeadline /\ seen = 0
    /\ uncertain = FALSE
    /\ manual = FALSE /\ exact = TRUE /\ file = FALSE /\ acked = FALSE
    /\ apprLeft = [p \in Plans |-> 0] /\ legitLeft = apprLeft /\ auditLeft = apprLeft
    /\ sameBoot = [p \in Plans |-> FALSE] /\ sameGen = sameBoot
    /\ elem = [p \in Plans |-> 0] /\ flushes = elem /\ late = {}
    /\ calm = FALSE

\* Faults go on.  Whatever a daemon can do once they have ceased it can also do before,
\* so for safety the states after that show nothing new.
FaultsGoOn == ~calm

LiveSpec == (OnePlanLeft \/ AfterUncertainAudit) /\ [][Next]_vars /\ Fairness
=============================================================================
