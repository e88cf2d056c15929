------------------------------- MODULE Actuator -------------------------------
(***************************************************************************)
(* The actuator daemon (host/actuatord) around its journal: approval,       *)
(* the apply worker with its one kernel mutation, the expiry sweeper, the   *)
(* kill switch, and the reconciliation at start, against a kernel that      *)
(* expires elements by itself, containers that restart, a host that         *)
(* reboots, and a process that may crash between any two steps.             *)
(*                                                                          *)
(* disk is what the journal file says of each plan, mem what the process    *)
(* believes.  service.mutex is held from the first to the last step of an   *)
(* operation: pc is the program counter of its holder.  A deadline is kept  *)
(* as the time left until it, so that no clock grows: the boot clock drives *)
(* approvals, audits and recovery, the kernel's jiffies drive elements, and *)
(* the monotonic clock drives the context of one apply and the deadline of  *)
(* its netlink socket.  The wall clock is free: a sample may call any open  *)
(* approval expired, or be refused.  A deadline that is checked and the     *)
(* effect it guards are two steps: the process may be held in between.      *)
(***************************************************************************)
EXTENDS ActionLifecycle, FiniteSets

CONSTANTS
    Plans,          \* numbered by PreparedAt, the order of nextApprovedPlan
    Containers,
    Target,         \* Target[p]: the container of plan p
    MaxActive,      \* active denies per host
    ApprovalTTL, TTL, ApplyTimeout, AuditSlack,
    IoTimeout,      \* nftIOTimeout, the deadline of a netlink socket
    Stall,          \* held no longer than this between two steps, the process is prompt
    SuspendAllowed  \* may the host suspend?

ASSUME ActuatorConstants ==
    /\ Plans \subseteq Nat \ {0} /\ IsFiniteSet(Plans)
    /\ Target \in [Plans -> Containers]
    /\ MaxActive \in Nat
    /\ ApprovalTTL \in Nat \ {0} /\ TTL \in Nat \ {0} /\ ApplyTimeout \in Nat \ {0}
    /\ AuditSlack \in Nat /\ IoTimeout \in Nat \ {0} /\ Stall \in Nat
    /\ SuspendAllowed \in BOOLEAN

VARIABLES
    disk, mem,                \* [Plans -> [st, att]]: last state and apply attempt
    failed,                   \* the journal refuses appends until reopened
    proc,                     \* "down", "opening" or "up"
    worker,                   \* the apply worker runs
    pc, cur, todo, ctx, seen, \* the operation that holds the mutex; ctx: its deadlines
    uncertain,                \* auditUncertain
    manual, exact, file,      \* the manual kill switch: memory, trust, file
    apprLeft, legitLeft, auditLeft,  \* boot-clock deadlines of a plan
    sameBoot, sameGen,        \* the plan's boot and container generation are current
    elem,                     \* kernel time left of the plan's element, 0 if absent
    flushes, acked,           \* history: batches sent, switch acknowledged
    late,                     \* history: the plans whose batch a process sent that was not prompt
    calm                      \* faults have ceased

journal == <<disk, mem, failed>>
op == <<pc, cur, todo, ctx, seen>>
switch == <<manual, exact, file, acked>>
deadlines == <<apprLeft, legitLeft, auditLeft>>
host == <<sameBoot, sameGen>>
kernel == <<elem, flushes, late>>
vars == <<journal, proc, worker, op, uncertain, switch, deadlines, host, kernel, calm>>

PCs == {"idle", "attempt", "preflush", "flush", "send", "sending", "readback", "applied",
        "verify", "reconcile", "observed", "recoververify", "expire", "audit"}

\* The time left of the apply context, of the netlink socket, and for the process to
\* be prompt.
Deadlines == [apply : 0..ApplyTimeout, io : 0..IoTimeout, hold : 0..(Stall + 1)]
NoDeadline == [apply |-> 0, io |-> 0, hold |-> 0]

InFlightIn(s) == {p \in Plans : InFlight(s[p].st, s[p].att)}
DirtyIn(s) == {p \in Plans : s[p].st = "FAILED_DIRTY"}
In(s, state) == {p \in Plans : s[p].st = state}

Init ==
    /\ disk = [p \in Plans |-> [st |-> "none", att |-> FALSE]] /\ mem = disk /\ failed = FALSE
    /\ proc = "down" /\ worker = FALSE
    /\ pc = "idle" /\ cur = 0 /\ todo = {} /\ ctx = NoDeadline /\ seen = 0
    /\ uncertain = FALSE
    /\ manual = FALSE /\ exact = TRUE /\ file = FALSE /\ acked = FALSE
    /\ apprLeft = [p \in Plans |-> 0] /\ legitLeft = apprLeft /\ auditLeft = apprLeft
    /\ sameBoot = [p \in Plans |-> FALSE] /\ sameGen = sameBoot
    /\ elem = [p \in Plans |-> 0] /\ flushes = elem /\ late = {}
    /\ calm = FALSE

-----------------------------------------------------------------------------
(* Building blocks.                                                         *)

\* The mutex is released.
Idle == pc' = "idle" /\ cur' = 0 /\ todo' = {} /\ ctx' = NoDeadline /\ seen' = 0

\* appendLifecycle, appendDecision, appendApplyAttempt, appendPrepared: the maps
\* follow the file, unless the write or the fsync fails.
Written(p, r) ==
    /\ disk' = [disk EXCEPT ![p] = r]
    /\ mem' = [mem EXCEPT ![p] = r]
    /\ UNCHANGED failed

WriteFails(p, r) ==
    /\ ~calm
    /\ failed' = TRUE
    /\ disk' \in {disk, [disk EXCEPT ![p] = r]}
    /\ UNCHANGED mem

To(p, s) == [mem[p] EXCEPT !.st = s]

\* An ApplyNext that ends without a record stops the worker.
WorkerFails == ~calm /\ worker' = FALSE /\ Idle /\ UNCHANGED journal

\* ApplyNext ends with a durable outcome, or with a journal that refused it.
Settle(p, s) ==
    /\ Idle
    /\ \/ Written(p, To(p, s)) /\ UNCHANGED worker
       \/ WriteFails(p, To(p, s)) /\ worker' = FALSE

\* planExpiryBasis finds the approval window open.  It may find it closed at any
\* time, since the wall clock alone can close it.
WindowOpen(p) == sameBoot[p] /\ apprLeft[p] > 0

\* Mutation: a dirty plan does not lock.
MutationLockedInFlightOnly == InFlightIn(mem) # {}

MutationLocked == InFlightIn(mem) \cup DirtyIn(mem) # {}

\* No kill switch reason holds.
Unlocked == ~failed /\ ~manual /\ ~uncertain /\ ~MutationLocked

\* Two plans were bound to the same start of the same container.  If neither start
\* is the current one they may or may not coincide: outdated decides.
SameGeneration(p, q, outdated) ==
    /\ Target[p] = Target[q]
    /\ sameGen[p] = sameGen[q]
    /\ sameGen[p] \/ outdated

\* Mutation: one deny too many.
ActiveContainmentOffByOne(p, outdated) ==
    LET others == {q \in Plans \ {p} : Active(mem[q].st, mem[q].att)}
    IN  /\ Cardinality(others) <= MaxActive
        /\ \A q \in others : ~SameGeneration(p, q, outdated)

ActiveContainmentAllowed(p, outdated) ==
    LET others == {q \in Plans \ {p} : Active(mem[q].st, mem[q].att)}
    IN  /\ Cardinality(others) < MaxActive
        /\ \A q \in others : ~SameGeneration(p, q, outdated)

-----------------------------------------------------------------------------
(* The intent and admin sockets.                                            *)

Serving == proc = "up" /\ pc = "idle"

Prepare(p) ==
    /\ Serving /\ Unlocked
    /\ mem[p].st = "none"
    /\ LET r == [st |-> "PREPARED", att |-> FALSE] IN Written(p, r) \/ WriteFails(p, r)
    /\ sameBoot' = [sameBoot EXCEPT ![p] = TRUE]
    /\ sameGen' = [sameGen EXCEPT ![p] = TRUE]
    /\ apprLeft' = [apprLeft EXCEPT ![p] = ApprovalTTL]
    /\ UNCHANGED <<proc, worker, op, uncertain, switch, legitLeft, auditLeft, kernel, calm>>

\* Approve and Reject; a decision that comes too late is recorded as the expiry.
Decide(p, s) ==
    /\ Serving /\ ~failed
    /\ mem[p].st = "PREPARED"
    /\ s = "EXPIRED_UNAPPLIED" \/ WindowOpen(p)
    /\ Written(p, To(p, s)) \/ WriteFails(p, To(p, s))
    /\ UNCHANGED <<proc, worker, op, uncertain, switch, deadlines, host, kernel, calm>>

\* Mutation: a switch that is already set is not written again, even if the file was
\* last written by a call that failed.
SetManualKillSwitchTrusting(enabled) ==
    /\ Serving
    /\ \/ /\ manual = enabled
          /\ acked' = enabled
          /\ UNCHANGED <<manual, exact, file>>
       \/ /\ manual # enabled
          /\ file' = enabled /\ manual' = enabled /\ exact' = TRUE
          /\ acked' = enabled
       \/ /\ manual # enabled /\ ~calm
          /\ file' \in {file, enabled} /\ manual' = TRUE /\ exact' = FALSE
          /\ acked' = (enabled /\ acked)
    /\ UNCHANGED <<journal, proc, worker, op, uncertain, deadlines, host, kernel, calm>>

SetManualKillSwitch(enabled) ==
    /\ Serving
    /\ \/ /\ manual = enabled /\ exact
          /\ acked' = enabled
          /\ UNCHANGED <<manual, exact, file>>
       \/ /\ ~(manual = enabled /\ exact)
          /\ file' = enabled /\ manual' = enabled /\ exact' = TRUE
          /\ acked' = enabled
       \/ /\ ~(manual = enabled /\ exact) /\ ~calm
          /\ file' \in {file, enabled} /\ manual' = TRUE /\ exact' = FALSE
          /\ acked' = (enabled /\ acked)
    /\ UNCHANGED <<journal, proc, worker, op, uncertain, deadlines, host, kernel, calm>>

-----------------------------------------------------------------------------
(* ApplyNext.                                                               *)

ApplyUnchanged == UNCHANGED <<proc, uncertain, switch, host, calm>>

\* The checks before the attempt.  Facts compared with the observer, Docker and the
\* safety files may have drifted, so STALE_ABORT is always possible, and foreign
\* nftables objects may collide with ours at any time.  The netlink socket was opened,
\* and its deadline set, on the way here; the apply context starts last.
ApplyBegin(p) ==
    /\ Serving /\ worker /\ Unlocked
    /\ mem[p].st = "APPROVED"
    /\ \A q \in In(mem, "APPROVED") : p <= q
    /\ \E outdated \in BOOLEAN :
          \/ ~ActiveContainmentAllowed(p, outdated) /\ Settle(p, "REJECTED")
          \/ /\ ActiveContainmentAllowed(p, outdated)
             /\ \/ Settle(p, "STALE_ABORT")
                \/ WindowOpen(p) /\ Settle(p, "REJECTED")
                \/ WorkerFails
                \/ /\ WindowOpen(p) /\ sameGen[p]
                   /\ \A q \in Plans : Target[q] = Target[p] => elem[q] = 0
                   /\ pc' = "attempt" /\ cur' = p
                   /\ \E left \in 0..IoTimeout :
                         ctx' = [apply |-> ApplyTimeout, io |-> left, hold |-> 0]
                   /\ UNCHANGED <<journal, worker, todo, seen>>
    /\ ApplyUnchanged /\ UNCHANGED <<deadlines, kernel>>

ApplyAttempt ==
    LET r == [st |-> "APPROVED", att |-> TRUE] IN
    /\ pc = "attempt"
    /\ \/ Settle(cur, "STALE_ABORT") /\ UNCHANGED legitLeft
       \/ WorkerFails /\ UNCHANGED legitLeft
       \/ /\ WindowOpen(cur)
          /\ legitLeft' = [legitLeft EXCEPT ![cur] = ApplyTimeout + TTL]
          /\ \/ Written(cur, r) /\ pc' = "preflush" /\ UNCHANGED <<cur, todo, ctx, seen, worker>>
             \/ WriteFails(cur, r) /\ Idle /\ worker' = FALSE
    /\ ApplyUnchanged /\ UNCHANGED <<apprLeft, auditLeft, kernel>>

\* The deadline and the identity of the target, once more.
ApplyPreFlush ==
    /\ pc = "preflush"
    /\ \/ (ctx.apply = 0 \/ ~sameGen[cur] \/ ~calm) /\ Settle(cur, "REJECTED")
       \/ WorkerFails
       \/ /\ ctx.apply > 0 /\ sameGen[cur]
          /\ pc' = "flush" /\ UNCHANGED <<cur, todo, ctx, seen, journal, worker>>
    /\ ApplyUnchanged /\ UNCHANGED <<deadlines, kernel>>

\* FlushOnceAndVerify looks at the context a last time.
ApplyFlush ==
    /\ pc = "flush"
    /\ \/ ctx.apply = 0 /\ (Settle(cur, "REJECTED") \/ WorkerFails)
       \/ /\ ctx.apply > 0
          /\ pc' = "send" /\ UNCHANGED <<cur, todo, ctx, seen, journal, worker>>
    /\ ApplyUnchanged /\ UNCHANGED <<deadlines, kernel>>

\* Mutation: the socket has no deadline.
FlushSendWhenever ==
    /\ pc = "send"
    /\ pc' = "sending" /\ ctx' = [ctx EXCEPT !.hold = Stall + 1]
    /\ UNCHANGED <<cur, todo, seen, journal, worker>>
    /\ ApplyUnchanged /\ UNCHANGED <<deadlines, kernel>>

\* conn.Flush looks at the deadline of the socket.  After it nothing is sent, and the
\* readback, on the same socket, fails as well.
FlushSend ==
    /\ pc = "send"
    /\ \/ ctx.io = 0 /\ (Settle(cur, "FAILED_DIRTY") \/ WorkerFails)
       \/ /\ ctx.io > 0
          /\ pc' = "sending" /\ ctx' = [ctx EXCEPT !.hold = Stall + 1]
          /\ UNCHANGED <<cur, todo, seen, journal, worker>>
    /\ ApplyUnchanged /\ UNCHANGED <<deadlines, kernel>>

\* Mutation: a batch that seems to have failed is sent again.
FlushCommitRetries ==
    /\ pc = "sending" /\ flushes[cur] < 3
    /\ flushes' = [flushes EXCEPT ![cur] = @ + 1]
    /\ elem' = [elem EXCEPT ![cur] = TTL]
    /\ pc' \in {"sending", "readback"} /\ UNCHANGED <<cur, todo, ctx, seen, journal, worker, late>>
    /\ ApplyUnchanged /\ UNCHANGED deadlines

\* The kernel commits the batch, however long the process was held before the call.  The
\* handle pins the namespace, but one whose container is gone filters nothing.
FlushCommit ==
    /\ pc = "sending"
    /\ flushes' = [flushes EXCEPT ![cur] = @ + 1]
    /\ late' = IF ctx.hold = 0 THEN late \cup {cur} ELSE late
    /\ \/ sameGen[cur] /\ elem' = [elem EXCEPT ![cur] = TTL]
       \/ (~sameGen[cur] \/ ~calm) /\ UNCHANGED elem
    /\ pc' = "readback" /\ ctx' = [ctx EXCEPT !.hold = 0]
    /\ UNCHANGED <<cur, todo, seen, journal, worker>>
    /\ ApplyUnchanged /\ UNCHANGED deadlines

\* inspectExactNftState, on the same socket, finds the element.
FlushVerified == elem[cur] > 0 /\ ctx.io > 0

\* The exact element, the recheck of the target, and nothing in doubt; or dirty.
ApplyReadback ==
    /\ pc = "readback"
    /\ LET good == FlushVerified /\ sameGen[cur] /\ ctx.apply > 0
       IN  \/ /\ good
              /\ pc' = "applied" /\ seen' = elem[cur] /\ ctx' = NoDeadline
              /\ UNCHANGED <<cur, todo, journal, worker>>
           \/ (~good \/ ~calm) /\ Settle(cur, "FAILED_DIRTY")
           \/ WorkerFails
    /\ ApplyUnchanged /\ UNCHANGED <<deadlines, kernel>>

AuditDelta(remaining) == remaining + AuditSlack

\* The audit deadline counts from a sample taken after the readback.
ApplyApplied ==
    /\ pc = "applied"
    /\ auditLeft' = [auditLeft EXCEPT ![cur] = AuditDelta(seen)]
    /\ \/ /\ Written(cur, To(cur, "APPLIED"))
          /\ pc' = "verify" /\ seen' = 0 /\ UNCHANGED <<cur, todo, ctx, worker>>
       \/ WriteFails(cur, To(cur, "APPLIED")) /\ Idle /\ worker' = FALSE
       \/ WorkerFails
    /\ ApplyUnchanged /\ UNCHANGED <<apprLeft, legitLeft, kernel>>

ApplyVerify ==
    /\ pc = "verify"
    /\ \/ auditLeft[cur] = 0 /\ worker' = FALSE /\ Idle /\ UNCHANGED journal
       \/ WorkerFails
       \/ auditLeft[cur] > 0 /\ Settle(cur, "VERIFIED")
    /\ ApplyUnchanged /\ UNCHANGED <<deadlines, kernel>>

-----------------------------------------------------------------------------
(* Start, reconciliation and shutdown.                                      *)

\* The process is gone, and what it knew with it.
Down ==
    /\ proc' = "down" /\ worker' = FALSE /\ Idle
    /\ failed' = FALSE /\ mem' = disk /\ UNCHANGED disk /\ uncertain' = FALSE

\* OpenService: replay, the kill switch file (a file that cannot be read locks), and
\* the plans whose kernel effect is open.
Open ==
    /\ proc = "down"
    /\ proc' = "opening" /\ pc' = "reconcile" /\ todo' = InFlightIn(disk)
    /\ \/ manual' = file /\ exact' = TRUE
       \/ ~calm /\ manual' = TRUE /\ exact' = FALSE
    /\ UNCHANGED <<journal, worker, cur, ctx, seen, uncertain, file, acked, deadlines, host,
                   kernel, calm>>

\* Any error of ReconcileIncomplete or of the first ExpireDue fails OpenService.
OpenFails ==
    /\ proc = "opening" /\ ~calm
    /\ Down
    /\ UNCHANGED <<switch, deadlines, host, kernel, calm>>

StartUnchanged == UNCHANGED <<proc, worker, uncertain, switch, host, kernel, calm>>

\* The state recorded when the deny turns out not to be there.
Gone(p) == IF mem[p].st = "APPLIED" THEN "EXPIRED" ELSE "REJECTED"

Reconciled(p, s) ==
    /\ Written(p, To(p, s))
    /\ pc' = "reconcile" /\ cur' = 0 /\ todo' = todo \ {p} /\ ctx' = NoDeadline /\ seen' = 0

\* Mutation: an interrupted apply is recorded as rejected without a look at the kernel.
ReconcileBlindly(p) ==
    /\ pc = "reconcile" /\ p \in todo
    /\ Reconciled(p, Gone(p)) /\ UNCHANGED deadlines
    /\ StartUnchanged

\* The boot and the container of the plan, then InspectApplied.
ReconcileOne(p) ==
    /\ pc = "reconcile" /\ p \in todo
    /\ \/ ~(sameBoot[p] /\ sameGen[p]) /\ Reconciled(p, Gone(p))
       \/ /\ sameBoot[p] /\ sameGen[p]
          /\ pc' = "observed" /\ cur' = p /\ seen' = elem[p]
          /\ ctx' = [ctx EXCEPT !.hold = Stall + 1]
          /\ UNCHANGED <<journal, todo>>
    /\ UNCHANGED deadlines /\ StartUnchanged

\* The remaining time, counted from the boot clock now, ends by the latest expiry a
\* batch of this attempt can have.
RecoveryObservationBounded(p) == seen <= legitLeft[p]

\* The recheck of the container, and the sample of the boot clock that the remaining
\* time is added to.
ReconcileObserved ==
    /\ pc = "observed"
    /\ \/ (seen = 0 \/ ~sameGen[cur]) /\ Reconciled(cur, Gone(cur)) /\ UNCHANGED deadlines
       \/ /\ ~RecoveryObservationBounded(cur) \/ ~calm
          /\ Reconciled(cur, "FAILED_DIRTY") /\ UNCHANGED deadlines
       \/ /\ seen > 0 /\ RecoveryObservationBounded(cur)
          /\ IF mem[cur].st = "APPROVED" THEN Written(cur, To(cur, "APPLIED")) ELSE UNCHANGED journal
          /\ auditLeft' = [auditLeft EXCEPT ![cur] = AuditDelta(seen)]
          /\ pc' = "recoververify" /\ ctx' = NoDeadline /\ seen' = 0
          /\ UNCHANGED <<cur, todo, apprLeft, legitLeft>>
    /\ StartUnchanged

\* A deadline that passed meanwhile fails the start, like any error.
RecoverVerify ==
    /\ pc = "recoververify" /\ auditLeft[cur] > 0
    /\ Written(cur, To(cur, "VERIFIED"))
    /\ pc' = "reconcile" /\ todo' = todo \ {cur} /\ cur' = 0 /\ UNCHANGED <<ctx, seen>>
    /\ StartUnchanged /\ UNCHANGED deadlines

RecoverVerifyTooLate ==
    /\ pc = "recoververify" /\ auditLeft[cur] = 0
    /\ Down
    /\ UNCHANGED <<switch, deadlines, host, kernel, calm>>

-----------------------------------------------------------------------------
(* ExpireDue: at the end of the start, and every second by the sweeper.     *)

\* With the one sample of the sweep: the pending approvals found closed, and the
\* verified plans whose audit is due.
Due(closed) ==
    {p \in In(mem, "PREPARED") : ~WindowOpen(p)} \cup closed
    \cup {p \in In(mem, "VERIFIED") : ~sameBoot[p] \/ auditLeft[p] = 0}

HasWork == In(mem, "PREPARED") \cup In(mem, "VERIFIED") # {}

SweepBegin ==
    /\ \/ Serving /\ ~failed /\ HasWork
       \/ pc = "reconcile" /\ todo = {}
    /\ pc' = "expire"
    /\ \E closed \in SUBSET In(mem, "PREPARED") : todo' = Due(closed)
    /\ UNCHANGED <<cur, ctx, seen>>
    /\ UNCHANGED <<journal, proc, worker, uncertain, switch, deadlines, host, kernel, calm>>

SweptTo(p, s) ==
    \/ /\ Written(p, To(p, s)) /\ todo' = todo \ {p}
       /\ UNCHANGED <<proc, worker, pc, cur, ctx, seen, uncertain>>
    \/ /\ proc = "up" /\ WriteFails(p, To(p, s)) /\ Idle
       /\ UNCHANGED <<proc, worker, uncertain>>

ExpireApproval(p) ==
    /\ pc = "expire" /\ p \in todo \cap In(mem, "PREPARED")
    /\ SweptTo(p, "EXPIRED_UNAPPLIED")
    /\ UNCHANGED <<switch, deadlines, host, kernel, calm>>

\* Approvals come before audits.
AuditBegin ==
    /\ pc = "expire" /\ todo \cap In(mem, "PREPARED") = {}
    /\ pc' = "audit"
    /\ UNCHANGED <<journal, proc, worker, cur, todo, ctx, seen, uncertain, switch, deadlines, host,
                   kernel, calm>>

\* auditDueLocked for one plan.  An element that is still there, or a readback in
\* doubt, is dirty.
AuditOne(p) ==
    /\ pc = "audit" /\ p \in todo
    /\ \/ ~(sameBoot[p] /\ sameGen[p] /\ elem[p] > 0) /\ SweptTo(p, "EXPIRED")
       \/ /\ sameBoot[p] /\ sameGen[p] /\ (elem[p] > 0 \/ ~calm)
          /\ SweptTo(p, "FAILED_DIRTY")
    /\ UNCHANGED <<switch, deadlines, host, kernel, calm>>

\* The rest of a sweep is skipped when the wall clock is behind a pending plan, or
\* when the observer cannot say whether a container generation is still there.
SweepAborts ==
    /\ proc = "up" /\ ~calm
    /\ \/ pc = "expire" /\ In(mem, "PREPARED") # {} /\ UNCHANGED uncertain
       \/ pc = "audit" /\ (\E p \in todo : sameBoot[p]) /\ uncertain' = TRUE
    /\ Idle
    /\ UNCHANGED <<journal, proc, worker, switch, deadlines, host, kernel, calm>>

SweepEnd ==
    /\ pc = "audit" /\ todo = {}
    /\ Idle
    /\ uncertain' = FALSE
    /\ proc' = "up" /\ worker' = (proc = "opening" \/ worker)
    /\ UNCHANGED <<journal, switch, deadlines, host, kernel, calm>>

-----------------------------------------------------------------------------
(* The host.                                                                *)

\* Mutation: only a failed journal stops the daemon.
ShutdownIfJournalFailed ==
    /\ Serving /\ ~worker /\ failed
    /\ Down
    /\ UNCHANGED <<switch, deadlines, host, kernel, calm>>

\* The worker ended: the daemon closes the sockets and the service.
Shutdown ==
    /\ Serving /\ ~worker
    /\ Down
    /\ UNCHANGED <<switch, deadlines, host, kernel, calm>>

\* A crash, a kill or an orderly stop, between any two steps.
Crash ==
    /\ proc # "down" /\ ~calm
    /\ Down
    /\ UNCHANGED <<switch, deadlines, host, kernel, calm>>

Reboot ==
    /\ ~calm
    /\ Down
    /\ sameBoot' = [p \in Plans |-> FALSE] /\ sameGen' = [p \in Plans |-> FALSE]
    /\ elem' = [p \in Plans |-> 0]
    /\ UNCHANGED <<switch, deadlines, flushes, late, calm>>

\* A restarted container has a new network namespace.
ContainerRestart(c) ==
    /\ sameGen' = [p \in Plans |-> sameGen[p] /\ Target[p] # c]
    /\ elem' = [p \in Plans |-> IF Target[p] = c THEN 0 ELSE elem[p]]
    /\ UNCHANGED <<journal, proc, worker, op, uncertain, switch, deadlines, sameBoot, flushes,
                   late, calm>>

Sooner(n) == IF n = 0 THEN 0 ELSE n - 1

Earlier(left) == [p \in Plans |-> Sooner(left[p])]

BootClockTicks ==
    /\ apprLeft' = Earlier(apprLeft) /\ legitLeft' = Earlier(legitLeft)
    /\ auditLeft' = Earlier(auditLeft)

Tick ==
    /\ BootClockTicks
    /\ elem' = Earlier(elem)
    /\ ctx' = [apply |-> Sooner(ctx.apply), io |-> Sooner(ctx.io), hold |-> Sooner(ctx.hold)]
    /\ UNCHANGED <<journal, proc, worker, pc, cur, todo, seen, uncertain, switch, host, flushes,
                   late, calm>>

\* A suspended host: only the boot clock advances.
Suspend ==
    /\ SuspendAllowed
    /\ BootClockTicks
    /\ UNCHANGED <<journal, proc, worker, op, uncertain, switch, host, kernel, calm>>

FaultsCease ==
    /\ ~calm /\ calm' = TRUE
    /\ UNCHANGED <<journal, proc, worker, op, uncertain, switch, deadlines, host, kernel>>

-----------------------------------------------------------------------------
ApplyStep ==
    \/ ApplyAttempt \/ ApplyPreFlush \/ ApplyFlush \/ FlushSend \/ FlushCommit
    \/ ApplyReadback \/ ApplyApplied \/ ApplyVerify

StartStep ==
    \/ \E p \in Plans : ReconcileOne(p)
    \/ ReconcileObserved
    \/ RecoverVerify
    \/ RecoverVerifyTooLate

SweepStep == (\E p \in Plans : ExpireApproval(p) \/ AuditOne(p)) \/ AuditBegin \/ SweepEnd

Next ==
    \/ \E p \in Plans : Prepare(p) \/ ApplyBegin(p) \/ \E s \in DecisionStates : Decide(p, s)
    \/ \E enabled \in BOOLEAN : SetManualKillSwitch(enabled)
    \/ ApplyStep
    \/ Open \/ StartStep \/ OpenFails
    \/ SweepBegin \/ SweepStep \/ SweepAborts
    \/ Shutdown \/ Crash \/ Reboot
    \/ \E c \in Containers : ContainerRestart(c)
    \/ Tick \/ Suspend \/ FaultsCease

Spec == Init /\ [][Next]_vars

-----------------------------------------------------------------------------
(* Properties.                                                              *)

\* What the journal says of a plan.
PlanRecords == [st : PlanStates, att : BOOLEAN]

\* Every variable keeps its type.
TypeOK ==
    /\ disk \in [Plans -> PlanRecords]
    /\ mem \in [Plans -> PlanRecords]
    /\ proc \in {"down", "opening", "up"}
    /\ pc \in PCs /\ cur \in Plans \cup {0} /\ todo \subseteq Plans
    /\ ctx \in Deadlines /\ seen \in 0..TTL
    /\ failed \in BOOLEAN /\ worker \in BOOLEAN /\ uncertain \in BOOLEAN /\ calm \in BOOLEAN
    /\ manual \in BOOLEAN /\ exact \in BOOLEAN /\ file \in BOOLEAN /\ acked \in BOOLEAN
    /\ apprLeft \in [Plans -> 0..ApprovalTTL]
    /\ legitLeft \in [Plans -> 0..(ApplyTimeout + TTL)]
    /\ auditLeft \in [Plans -> 0..(TTL + AuditSlack)]
    /\ sameBoot \in [Plans -> BOOLEAN] /\ sameGen \in [Plans -> BOOLEAN]
    /\ elem \in [Plans -> 0..TTL]
    /\ flushes \in [Plans -> Nat] /\ late \subseteq Plans

\* No deny is in force that the journal file does not account for: there is a durable
\* attempt, and no record says that the deny was rejected, was aborted or has expired.
\* A crash may come between any two steps of ApplyNext, the sweeper or the recovery.
DenyIsAccounted ==
    \A p \in Plans : elem[p] > 0 =>
        disk[p].att /\ disk[p].st \in {"APPROVED", "APPLIED", "VERIFIED", "FAILED_DIRTY"}

\* A plan is sent to the kernel at most once, and never after the file has left
\* APPROVED: a restart only observes what an attempt did.
AppliedAtMostOnce ==
    \A p \in Plans :
        /\ flushes[p] <= 1
        /\ flushes[p] = 1 => disk[p].att

\* At most one plan at a time is between its attempt and its verdict, in whatever step of
\* ApplyNext the daemon stopped.
SingleInFlight == Cardinality(InFlightIn(disk)) <= 1

\* The limits of the host: at most one deny in a container, MaxActive on the host.
ContainmentLimits ==
    LET live == {p \in Plans : elem[p] > 0}
    IN  /\ Cardinality(live) <= MaxActive
        /\ \A p, q \in live : Target[p] = Target[q] => p = q

\* An acknowledged kill switch is in force whenever the daemon runs, across crashes,
\* failed writes of its file and unreadable files.
KillSwitchSticks == acked => file /\ (proc = "down" \/ manual)

\* The kernel is only touched while no kill switch reason holds: none acknowledged,
\* no dirty plan in the file, and the attempt of this plan durable.
MutationGuarded ==
    [][\A p \in Plans : flushes'[p] # flushes[p] =>
          /\ ~acked /\ DirtyIn(disk) = {}
          /\ disk[p] = [st |-> "APPROVED", att |-> TRUE]
          /\ sameBoot[p]]_vars

\* The constants leave a prompt process room: 10 s for the socket and 15 s for the window
\* in the code, so up to 2.5 s in each of the two gaps.
WindowFits == ~SuspendAllowed /\ IoTimeout + 2 * Stall <= ApplyTimeout

\* Without suspends, an element outlives the window that recovery grants its attempt only
\* if the process was held for longer than Stall between the deadline check of conn.Flush
\* and the commit: no check of ApplyNext covers that gap.  And recoveryObservationBounded
\* calls the element of a prompt apply dirty only if the recovery in turn was held for
\* longer than Stall between InspectApplied and its sample of the boot clock.
DenyWithinWindow ==
    WindowFits => \A p \in Plans \ late :
        /\ elem[p] <= legitLeft[p]
        /\ pc = "observed" /\ cur = p /\ ctx.hold > 0 => seen <= legitLeft[p]

\* Without suspends, when the audit of a verified plan is due its element is gone: no
\* deny that ran its course is ever recorded as overstayed.
AuditAfterExpiry ==
    SuspendAllowed \/ \A p \in Plans : disk[p].st = "VERIFIED" => elem[p] <= auditLeft[p]

\* What docs/adr/0001 says of REJECTED: a failure before the apply, or a denial by the
\* operator, so a rejected plan never had a deny in force.
RejectedWasNeverApplied ==
    \A p \in Plans : [](elem[p] > 0 => [](disk[p].st # "REJECTED"))

\* The daemon implements the saga: the file is the verdict, the kernel holds the denies.
Saga == INSTANCE Containment
    WITH verdict <- disk,
         live <- {p \in Plans : elem[p] > 0},
         enforced <- {p \in Plans : flushes[p] > 0}

\* Every step of the daemon, of a crash or of the kernel is a step of the saga or none
\* that it can see.
ImplementsContainment == Saga!Spec

-----------------------------------------------------------------------------
(* Liveness.  Go's mutex does not starve a waiting goroutine, the worker and *)
(* the sweeper loop for ever, systemd restarts a failed daemon               *)
(* (deploy/systemd/agmind-actuatord.service), and time passes.               *)

Fairness ==
    /\ WF_vars(Tick)
    /\ WF_vars(Open) /\ WF_vars(StartStep) /\ WF_vars(Shutdown)
    /\ WF_vars(ApplyStep) /\ SF_vars(\E p \in Plans : ApplyBegin(p))
    /\ WF_vars(SweepStep) /\ SF_vars(SweepBegin)

FairSpec == Spec /\ Fairness

\* Once faults cease, an attempt whose outcome is open gets a verdict, whatever step
\* of it the last crash interrupted.
AttemptIsSettled ==
    \A p \in Plans : calm /\ p \in InFlightIn(disk) ~> p \notin InFlightIn(disk)

\* Once faults cease, a verified deny is audited after its timeout.  A journal that
\* failed outside the worker is exempt: the daemon stays up and refuses every append.
VerifiedIsAudited ==
    \A p \in Plans : calm /\ ~failed /\ disk[p].st = "VERIFIED"
                        ~> disk[p].st \in {"EXPIRED", "FAILED_DIRTY"}

\* Once faults cease, an approved plan is tried, unless the manual kill switch or a
\* dirty plan keeps the daemon locked; an uncertain audit does not lock it for ever.
ApprovedIsTried ==
    \A p \in Plans :
        calm /\ ~failed /\ disk[p] = [st |-> "APPROVED", att |-> FALSE]
            ~> \/ disk[p] # [st |-> "APPROVED", att |-> FALSE]
               \/ manual \/ DirtyIn(disk) # {}
=============================================================================
