--------------------------- MODULE ActuatorProofs ---------------------------
(***************************************************************************)
(* Proofs about the actuator daemon, for every set of plans and containers,  *)
(* every limit and every timeout: the deadlines and the limits across a      *)
(* step, the safety invariants of Actuator, the guard on the kernel          *)
(* mutation, and the refinement of Containment.                              *)
(***************************************************************************)
EXTENDS ActuatorSteps, FiniteSetTheorems

\* SMT, then Zenon, with time to spare on a slow machine.
USE SMTT(30), ZenonT(20)

-----------------------------------------------------------------------------
(* The window of recovery.                                                  *)

\* The steps of an operation with a deadline, or with a readback it will rely on.
Watched == {"preflush", "flush", "send", "sending", "applied", "observed"}

\* A step that starts nothing, sends nothing and grants nothing: denies may end.
Onward ==
    /\ UNCHANGED <<late, legitLeft>> /\ \A q \in Plans : elem'[q] <= elem[q]
    /\ \/ pc' \notin Watched
       \/ UNCHANGED <<pc, cur, ctx, seen, flushes>>
       \/ pc \in {"preflush", "flush"} /\ pc' \in {"flush", "send"} /\ UNCHANGED <<cur, ctx>>

\* Only the clocks, the attempt, the batch and the readbacks do more.
LEMMA Timing ==
    ASSUME Types, [Next]_vars
    PROVE  \/ Onward \/ Tick \/ Suspend \/ ApplyAttempt \/ FlushSend \/ FlushCommit \/ ApplyReadback
           \/ \E p \in Plans : ReconcileOne(p)
<1>. USE DEF journal, op, switch, deadlines, host, kernel, Watched
<1>0. \A q \in Plans : elem[q] \in Nat BY ActuatorConstants DEF Types, KernelType
<1>e. UNCHANGED elem => \A q \in Plans : elem'[q] <= elem[q] BY <1>0
<1>i. ASSUME NEW p, NEW s, Settle(p, s) \/ WorkerFails \/ Idle PROVE pc' \notin Watched
  BY <1>i DEF Settle, WorkerFails, Idle
<1>1. ASSUME NEW p \in Plans, Prepare(p) PROVE Onward BY <1>1, <1>e, Zenon DEF Prepare, Serving, Onward
<1>2. ASSUME NEW p \in Plans, NEW s \in DecisionStates, Decide(p, s) PROVE Onward
  BY <1>2, <1>e, Zenon DEF Decide, Serving, Onward
<1>3. ASSUME NEW enabled \in BOOLEAN, SetManualKillSwitch(enabled) PROVE Onward
  BY <1>3, <1>e, Zenon DEF SetManualKillSwitch, Serving, Onward
<1>4. ASSUME NEW p \in Plans, ApplyBegin(p) PROVE Onward
  <2>1. pc' \notin Watched BY <1>4, <1>i, BeginCases DEF Begun
  <2>. QED BY <1>4, <1>e, <2>1, Zenon DEF ApplyBegin, Onward
<1>5. ASSUME ApplyPreFlush \/ ApplyFlush PROVE Onward
  <2>1. CASE pc' \notin Watched BY <1>5, <1>e, <2>1, Zenon DEF ApplyPreFlush, ApplyFlush, Onward
  <2>2. CASE pc' \in Watched
    <3>1. pc \in {"preflush", "flush"} /\ pc' \in {"flush", "send"} /\ UNCHANGED <<cur, ctx>>
      BY <1>5, <1>i, <2>2, Zenon DEF ApplyPreFlush, ApplyFlush
    <3>. QED BY <1>5, <1>e, <3>1, Zenon DEF ApplyPreFlush, ApplyFlush, Onward
  <2>. QED BY <2>1, <2>2
<1>6. ASSUME ApplyApplied \/ ApplyVerify PROVE Onward
  <2>1. pc' \notin Watched BY <1>6, <1>i DEF ApplyApplied, ApplyVerify
  <2>. QED BY <1>6, <1>e, <2>1, Zenon DEF ApplyApplied, ApplyVerify, Onward
<1>7. ASSUME Open \/ ReconcileObserved \/ RecoverVerify \/ SweepBegin \/ AuditBegin PROVE Onward
  <2>1. pc' \notin Watched BY Zenon, <1>7 DEF Open, ReconcileObserved, Reconciled, RecoverVerify, SweepBegin, AuditBegin
  <2>. QED BY <1>7, <1>e, <2>1, Zenon DEF Open, ReconcileObserved, RecoverVerify, StartUnchanged, SweepBegin, AuditBegin, Onward
<1>8. ASSUME NEW p \in Plans, ExpireApproval(p) \/ AuditOne(p) PROVE Onward
  <2>1. pc' \notin Watched BY <1>8, <1>i, ZenonT(40) DEF ExpireApproval, AuditOne, SweptTo
  <2>. QED BY <1>8, <1>e, <2>1, Zenon DEF ExpireApproval, AuditOne, Onward
<1>9. ASSUME SweepAborts \/ SweepEnd PROVE Onward
  BY <1>9, <1>e, <1>i, Zenon DEF SweepAborts, SweepEnd, Onward
<1>10. ASSUME Down, UNCHANGED <<deadlines, kernel>> PROVE Onward
  BY <1>10, <1>e, <1>i, Zenon DEF Down, Onward
<1>11. ASSUME Reboot PROVE Onward
  <2>1. \A q \in Plans : elem'[q] <= elem[q] BY <1>0, <1>11 DEF Reboot
  <2>. QED BY <1>11, <1>i, <2>1, Zenon DEF Reboot, Down, Onward
<1>12. ASSUME NEW c \in Containers, ContainerRestart(c) PROVE Onward
  <2>1. \A q \in Plans : elem'[q] <= elem[q] BY <1>0, <1>12 DEF ContainerRestart
  <2>. QED BY <1>12, <2>1, Zenon DEF ContainerRestart, Onward
<1>13. ASSUME FaultsCease \/ UNCHANGED vars PROVE Onward BY <1>13, <1>e, Zenon DEF FaultsCease, vars, Onward
<1>. QED
  BY Zenon, <1>1, <1>2, <1>3, <1>4, <1>5, <1>6, <1>7, <1>8, <1>9, <1>10, <1>11, <1>12, <1>13
  DEF Next, ApplyStep, StartStep, SweepStep, OpenFails, RecoverVerifyTooLate, Shutdown, Crash

\* What a readback found still bounds what is left, after every step.
LEMMA SeenStep ==
    ASSUME Types, Types', ControlOK, TodoOK, StageOK, KernelOK, SeenOK, [Next]_vars
    PROVE  SeenOK'
<1>. USE DEF journal, op, switch, deadlines, host, kernel
<1>0. \A q \in Plans : elem[q] \in Nat /\ elem'[q] \in Nat /\ seen \in Nat
  BY ActuatorConstants DEF Types, KernelType, OpType
<1>1. ASSUME UNCHANGED <<pc, cur, seen, flushes>>, \A q \in Plans : elem'[q] <= elem[q] PROVE SeenOK'
  <2>1. pc \in {"applied", "observed"} => cur \in Plans BY Zenon DEF ControlOK, TodoOK, Applying, Types, OpType
  <2>. QED BY <1>0, <1>1, <2>1 DEF SeenOK
<1>2. CASE Onward BY <1>1, <1>2, Zenon DEF Onward, SeenOK, Watched
<1>3. CASE Tick \/ Suspend
  <2>1. \A q \in Plans : elem'[q] <= elem[q] BY <1>0, <1>3 DEF Tick, Suspend, Earlier, Sooner
  <2>. QED BY <1>1, <1>3, <2>1, Zenon DEF Tick, Suspend
<1>4. CASE ApplyAttempt \/ FlushSend \/ FlushCommit
  BY <1>4, Zenon DEF ApplyAttempt, FlushSend, FlushCommit, Settle, WorkerFails, Idle, SeenOK
<1>5. CASE ApplyReadback
  <2>1. cur \in Plans /\ flushes'[cur] = 1 /\ UNCHANGED elem
    BY <1>5, Zenon DEF ApplyReadback, ControlOK, Applying, StageOK
  <2>2. CASE pc' = "idle" BY <2>2 DEF SeenOK
  <2>3. CASE pc' = "applied" /\ seen' = elem[cur] /\ UNCHANGED cur BY <1>0, <2>1, <2>3 DEF SeenOK
  <2>. QED BY <1>5, <2>2, <2>3, Zenon DEF ApplyReadback, Settle, WorkerFails, Idle
<1>6. ASSUME NEW p \in Plans, ReconcileOne(p) PROVE SeenOK'
  <2>1. UNCHANGED <<elem, flushes>> BY <1>6, Zenon DEF ReconcileOne, StartUnchanged
  <2>2. CASE pc' = "reconcile" BY <2>2 DEF SeenOK
  <2>3. CASE cur' = p /\ seen' = elem[p] BY <1>0, <2>1, <2>3 DEF SeenOK, KernelOK
  <2>. QED BY <1>6, <2>2, <2>3, Zenon DEF ReconcileOne, Reconciled
<1>. QED BY <1>2, <1>3, <1>4, <1>5, <1>6, Timing, Zenon

\* Every step keeps the window ahead of a deny that was sent promptly.
LEMMA WindowStep ==
    ASSUME Types, Types', ControlOK, TodoOK, WindowOK, [Next]_vars
    PROVE  WindowOK'
<1>. USE DEF journal, op, switch, deadlines, host, kernel
<1>. SUFFICES ASSUME WindowFits PROVE WindowOK' BY DEF WindowOK, WindowFits
<1>f. /\ ~SuspendAllowed /\ IoTimeout + 2 * Stall <= ApplyTimeout
      /\ TTL \in Nat \ {0} /\ ApplyTimeout \in Nat /\ IoTimeout \in Nat /\ Stall \in Nat
  BY ActuatorConstants DEF WindowFits
<1>n. /\ \A p \in Plans : /\ elem[p] \in 0..TTL /\ elem'[p] \in 0..TTL
                          /\ legitLeft[p] \in Nat /\ legitLeft'[p] \in Nat
      /\ seen \in Nat /\ ctx.io \in 0..IoTimeout /\ ctx.hold \in 0..(Stall + 1)
  BY <1>f, DeadlinesFields DEF Types, KernelType, TimeType, OpType
<1>w. /\ \A p \in Plans \ late : elem[p] > 0 => elem[p] + Stall <= legitLeft[p]
      /\ pc \in {"preflush", "flush", "send"} /\ ctx.io > 0 =>
            ctx.io + ApplyTimeout + TTL <= legitLeft[cur] + IoTimeout
      /\ pc = "sending" /\ ctx.hold > 0 => ctx.hold + Stall + TTL <= legitLeft[cur]
      /\ pc = "observed" /\ cur \notin late /\ seen > 0 /\ ctx.hold > 0 =>
            seen + ctx.hold <= legitLeft[cur] + 1
  BY Zenon DEF WindowOK
<1>c. pc \in Watched \cup {"attempt"} => cur \in Plans
  BY Zenon DEF Watched, ControlOK, TodoOK, Applying, Types, OpType
<1>. DEFINE Reserve == \A p \in Plans \ late : elem[p] > 0 => elem[p] + Stall <= legitLeft[p]
<1>u. ASSUME Reserve', pc' \notin Watched PROVE WindowOK' BY Zenon, <1>u DEF WindowOK, Watched
<1>l. ASSUME UNCHANGED <<late, legitLeft>>, \A q \in Plans : elem'[q] <= elem[q] PROVE Reserve'
  BY <1>f, <1>n, <1>w, <1>l
<1>1. CASE Onward
  <2>1. Reserve' BY <1>1, <1>l DEF Onward
  <2>2. CASE pc' \notin Watched BY <1>u, <2>1, <2>2
  <2>3. CASE UNCHANGED <<pc, cur, ctx, seen, flushes>> BY Zenon, <1>1, <1>w, <2>1, <2>3 DEF Onward, WindowOK
  <2>4. CASE pc \in {"preflush", "flush"} /\ pc' \in {"flush", "send"} /\ UNCHANGED <<cur, ctx>>
    BY Zenon, <1>1, <1>w, <2>1, <2>4 DEF Onward, WindowOK
  <2>. QED BY <1>1, <2>2, <2>3, <2>4 DEF Onward
<1>2. CASE Tick
  <2>1. \A p \in Plans : elem'[p] = Sooner(elem[p]) /\ legitLeft'[p] = Sooner(legitLeft[p])
    BY <1>2, Zenon DEF Tick, BootClockTicks, Earlier
  <2>2. UNCHANGED <<pc, cur, seen, late>> BY <1>2, Zenon DEF Tick
  <2>3. ctx'.io = Sooner(ctx.io) /\ ctx'.hold = Sooner(ctx.hold) BY <1>2 DEF Tick
  <2>4. Reserve' BY <1>f, <1>n, <1>w, <2>1, <2>2 DEF Sooner
  <2>5. pc' \in {"preflush", "flush", "send"} /\ ctx'.io > 0 =>
            ctx'.io + ApplyTimeout + TTL <= legitLeft'[cur'] + IoTimeout
    BY <1>c, <1>f, <1>n, <1>w, <2>1, <2>2, <2>3 DEF Sooner, Watched
  <2>6. pc' = "sending" /\ ctx'.hold > 0 => ctx'.hold + Stall + TTL <= legitLeft'[cur']
    BY <1>c, <1>f, <1>n, <1>w, <2>1, <2>2, <2>3 DEF Sooner, Watched
  <2>7. pc' = "observed" /\ cur' \notin late' /\ seen' > 0 /\ ctx'.hold > 0 =>
            seen' + ctx'.hold <= legitLeft'[cur'] + 1
    BY <1>c, <1>f, <1>n, <1>w, <2>1, <2>2, <2>3 DEF Sooner, Watched
  <2>. QED BY <2>4, <2>5, <2>6, <2>7, Zenon DEF WindowOK
<1>3. CASE Suspend BY Zenon, <1>3, <1>f DEF Suspend
<1>4. CASE ApplyAttempt
  <2>1. cur \in Plans /\ UNCHANGED <<elem, late>> BY <1>4, <1>c, Zenon DEF ApplyAttempt
  <2>2. CASE UNCHANGED legitLeft /\ pc' = "idle"
    <3>1. Reserve' BY <1>w, <2>1, <2>2
    <3>. QED BY <1>u, <2>2, <3>1 DEF Watched
  <2>3. CASE /\ legitLeft' = [legitLeft EXCEPT ![cur] = ApplyTimeout + TTL]
             /\ pc' = "idle" \/ (pc' = "preflush" /\ UNCHANGED <<cur, ctx>>)
    <3>1. legitLeft'[cur] = ApplyTimeout + TTL /\ \A q \in Plans : q # cur => legitLeft'[q] = legitLeft[q]
      BY Zenon, <2>1, <2>3 DEF Types, TimeType
    <3>2. Reserve' BY <1>f, <1>n, <1>w, <2>1, <3>1
    <3>3. CASE pc' = "idle" BY <1>u, <3>2, <3>3 DEF Watched
    <3>4. CASE pc' = "preflush" /\ UNCHANGED <<cur, ctx>>
      <4>1. ctx.io + ApplyTimeout + TTL <= legitLeft'[cur'] + IoTimeout BY <1>f, <1>n, <2>1, <3>1, <3>4
      <4>. QED BY <3>2, <3>4, <4>1 DEF WindowOK
    <3>. QED BY <2>3, <3>3, <3>4
  <2>. QED BY Zenon, <1>4, <2>2, <2>3 DEF ApplyAttempt, Settle, WorkerFails, Idle
<1>5. CASE FlushSend
  <2>1. cur \in Plans /\ UNCHANGED <<elem, late, legitLeft>> BY <1>5, <1>c, Zenon DEF FlushSend, Watched
  <2>2. Reserve' BY <1>w, <2>1
  <2>3. CASE pc' = "idle" BY <1>u, <2>2, <2>3 DEF Watched
  <2>4. CASE /\ ctx.io > 0 /\ pc' = "sending" /\ ctx' = [ctx EXCEPT !.hold = Stall + 1]
             /\ UNCHANGED cur
    <3>1. ctx'.hold = Stall + 1 BY <2>4, <1>f, DeadlinesHold DEF Types, OpType
    <3>2. ctx.io + ApplyTimeout + TTL <= legitLeft[cur] + IoTimeout BY <1>5, <1>w, <2>4, Zenon DEF FlushSend
    <3>3. ctx'.hold + Stall + TTL <= legitLeft'[cur'] BY <1>f, <1>n, <2>1, <2>4, <3>1, <3>2
    <3>. QED BY <2>2, <2>4, <3>3 DEF WindowOK
  <2>. QED BY Zenon, <1>5, <2>3, <2>4 DEF FlushSend, Settle, WorkerFails, Idle
<1>6. CASE FlushCommit
  <2>1. /\ cur \in Plans /\ pc' = "readback" /\ UNCHANGED legitLeft
        /\ elem' \in {elem, [elem EXCEPT ![cur] = TTL]}
        /\ late' = IF ctx.hold = 0 THEN late \cup {cur} ELSE late
    BY <1>6, <1>c, Zenon DEF FlushCommit, Watched
  <2>2. ctx.hold > 0 => ctx.hold + Stall + TTL <= legitLeft[cur] BY <1>6, <1>w, Zenon DEF FlushCommit
  <2>3. \A q \in Plans : elem'[q] = elem[q] \/ (q = cur /\ elem'[q] = TTL)
    BY <2>1 DEF Types, KernelType
  <2>4. ASSUME NEW q \in Plans \ late', elem'[q] > 0 PROVE elem'[q] + Stall <= legitLeft'[q]
    <3>1. q \notin late /\ legitLeft'[q] = legitLeft[q] BY <2>1
    <3>2. CASE elem'[q] = elem[q] BY <1>w, <2>4, <3>1, <3>2
    <3>3. CASE q = cur /\ elem'[q] = TTL
      <4>1. ctx.hold # 0 BY <2>1, <3>3
      <4>. QED BY <1>f, <1>n, <2>2, <3>1, <3>3, <4>1
    <3>. QED BY <2>3, <3>2, <3>3
  <2>. QED BY <1>u, <2>1, <2>4 DEF Watched
<1>7. CASE ApplyReadback
  <2>1. UNCHANGED <<elem, late, legitLeft>> BY <1>7, Zenon DEF ApplyReadback
  <2>2. Reserve' BY <1>w, <2>1
  <2>3. pc' \in {"idle", "applied"} BY <1>7, Zenon DEF ApplyReadback, Settle, WorkerFails, Idle
  <2>. QED BY <2>2, <2>3 DEF WindowOK
<1>8. ASSUME NEW p \in Plans, ReconcileOne(p) PROVE WindowOK'
  <2>1. UNCHANGED <<elem, late, legitLeft>> BY <1>8, Zenon DEF ReconcileOne, StartUnchanged
  <2>2. Reserve' BY <1>w, <2>1
  <2>3. CASE pc' = "reconcile" BY <1>u, <2>2, <2>3 DEF Watched
  <2>4. CASE /\ pc' = "observed" /\ cur' = p /\ seen' = elem[p]
             /\ ctx' = [ctx EXCEPT !.hold = Stall + 1]
    <3>1. ctx'.hold = Stall + 1 BY <2>4, <1>f, DeadlinesHold DEF Types, OpType
    <3>2. cur' \notin late' /\ seen' > 0 => seen' + ctx'.hold <= legitLeft'[cur'] + 1
      BY <1>f, <1>n, <1>w, <2>1, <2>4, <3>1
    <3>. QED BY <2>2, <2>4, <3>2 DEF WindowOK
  <2>. QED BY Zenon, <1>8, <2>3, <2>4 DEF ReconcileOne, Reconciled
<1>. QED BY Zenon, <1>1, <1>2, <1>3, <1>4, <1>5, <1>6, <1>7, <1>8, Timing

-----------------------------------------------------------------------------
(* The audit deadlines, on a host that does not suspend.                    *)

\* No deny outlives its audit.
Ages == \A p \in Plans : disk[p].st = "VERIFIED" => elem[p] <= auditLeft[p]

\* The operation under way will keep it so.
Timed == pc \in {"verify", "recoververify"} => elem[cur] <= auditLeft[cur]

\* The two make up AuditOK.
LEMMA Audits == (AuditOK <=> SuspendAllowed \/ (Ages /\ Timed)) /\ (AuditOK <=> SuspendAllowed \/ (Ages /\ Timed))'
  BY Zenon DEF AuditOK, Ages, Timed

\* No audit matters to the other operations.
LEMMA Untimed == ASSUME pc' \notin {"verify", "recoververify"} PROVE Timed'
  BY DEF Timed

\* A record of another state than VERIFIED ages nothing, nor does VERIFIED within the audit.
LEMMA AppendAges ==
    ASSUME Types, Ages, mem = disk, NEW p \in Plans, NEW s \in PlanStates,
           Written(p, To(p, s)) \/ WriteFails(p, To(p, s)),
           s = "VERIFIED" => elem[p] <= auditLeft[p],
           UNCHANGED <<elem, auditLeft>>
    PROVE  Ages'
<1>1. \A q \in Plans : disk'[q] = disk[q] \/ (q = p /\ disk'[q] = To(p, s))
  BY DEF Written, WriteFails, Types, JournalType
<1>2. To(p, s).st = s
  <2>1. disk[p] \in PlanRecords BY DEF Types, JournalType
  <2>2. To(p, s) = [st |-> s, att |-> disk[p].att] BY <2>1, RecordTo DEF To
  <2>. QED BY <2>2
<1>. QED BY <1>1, <1>2 DEF Ages

\* The end of ApplyNext ages nothing either,
LEMMA SettleAges ==
    ASSUME Types, Ages, mem = disk, NEW p \in Plans, NEW s \in PlanStates, Settle(p, s),
           s = "VERIFIED" => elem[p] <= auditLeft[p],
           UNCHANGED <<elem, auditLeft>>
    PROVE  Ages' /\ Timed'
<1>1. Ages' BY AppendAges DEF Settle
<1>2. Timed' BY Untimed DEF Settle, Idle
<1>. QED BY <1>1, <1>2

\* nor does the end of a deny.
LEMMA FadeAges ==
    ASSUME Types, Types', Ages, UNCHANGED <<disk, auditLeft>>,
           \A p \in Plans : elem'[p] <= elem[p]
    PROVE  Ages'
<1>1. \A p \in Plans : elem[p] \in Nat /\ elem'[p] \in Nat /\ auditLeft[p] \in Nat
  BY ActuatorConstants DEF Types, KernelType, TimeType
<1>. QED BY <1>1 DEF Ages

\* Every step keeps the audits after the denies.
LEMMA AuditStep ==
    ASSUME Types, Types', ControlOK, TodoOK, StageOK, SeenOK, AuditOK, [Next]_vars
    PROVE  AuditOK'
<1>. USE DEF journal, op, switch, deadlines, host, kernel
<1>. SUFFICES ASSUME ~SuspendAllowed PROVE Ages' /\ Timed' BY Audits
<1>w. Ages /\ Timed BY Audits
<1>n. /\ \A p \in Plans : elem[p] \in Nat /\ elem'[p] \in Nat /\ auditLeft[p] \in Nat
      /\ seen \in Nat /\ AuditSlack \in Nat
  BY ActuatorConstants DEF Types, KernelType, TimeType, OpType
<1>q. ASSUME UNCHANGED <<disk, elem, auditLeft>> PROVE Ages'
  BY <1>q, <1>w DEF Ages
<1>f. ASSUME WorkerFails, UNCHANGED <<elem, auditLeft>> PROVE Ages' /\ Timed'
  BY <1>f, <1>q, Untimed DEF WorkerFails, Idle
<1>a. ASSUME pc \in Applying PROVE ~failed /\ mem = disk /\ cur \in Plans
  BY Zenon, <1>a DEF ControlOK, Applying
<1>1. ASSUME NEW p \in Plans, Prepare(p) PROVE Ages' /\ Timed'
  <2>1. \A q \in Plans : disk'[q].st = "VERIFIED" => disk[q].st = "VERIFIED"
    BY <1>1 DEF Prepare, Written, WriteFails, Types, JournalType
  <2>2. Ages' BY <1>1, <1>w, <2>1, ZenonT(40) DEF Prepare, Ages
  <2>. QED BY <1>1, <2>2, Untimed DEF Prepare, Serving
<1>2. ASSUME NEW p \in Plans, NEW s \in DecisionStates, Decide(p, s) PROVE Ages' /\ Timed'
  <2>1. mem = disk BY <1>2, ZenonT(40) DEF Decide, ControlOK
  <2>2. Ages' BY Zenon, States, <1>2, <1>w, <2>1, AppendAges DEF Decide
  <2>. QED BY <1>2, <2>2, Untimed DEF Decide, Serving
<1>3. ASSUME NEW enabled \in BOOLEAN, SetManualKillSwitch(enabled) PROVE Ages' /\ Timed'
  BY Zenon, <1>3, <1>q, Untimed DEF SetManualKillSwitch, Serving
<1>4. ASSUME NEW p \in Plans, ApplyBegin(p) PROVE Ages' /\ Timed'
  <2>1. mem = disk /\ UNCHANGED <<elem, auditLeft>>
    BY Zenon, <1>4 DEF ApplyBegin, Unlocked, ControlOK
  <2>2. CASE Settle(p, "REJECTED") \/ Settle(p, "STALE_ABORT") BY Zenon, States, <1>w, <2>1, <2>2, SettleAges
  <2>3. CASE WorkerFails BY <1>f, <2>1, <2>3
  <2>4. CASE Begun(p) BY <1>q, <2>1, <2>4, Untimed DEF Begun
  <2>. QED BY <1>4, <2>2, <2>3, <2>4, BeginCases
<1>5. CASE ApplyAttempt
  <2>1. mem = disk /\ cur \in Plans /\ UNCHANGED <<elem, auditLeft>>
    BY <1>5, <1>a DEF ApplyAttempt, Applying
  <2>. DEFINE r == [st |-> "APPROVED", att |-> TRUE]
  <2>2. CASE Settle(cur, "STALE_ABORT") BY States, <1>w, <2>1, <2>2, SettleAges
  <2>3. CASE WorkerFails BY <1>f, <2>1, <2>3
  <2>4. CASE disk' \in {disk, [disk EXCEPT ![cur] = r]} /\ pc' \in {"preflush", "idle"}
    <3>1. \A q \in Plans : disk'[q].st = "VERIFIED" => disk[q].st = "VERIFIED"
      BY <2>4 DEF Types, JournalType
    <3>2. Ages' BY <1>w, <2>1, <3>1 DEF Ages
    <3>. QED BY <2>4, <3>2, Untimed
  <2>. QED BY Zenon, <1>5, <2>2, <2>3, <2>4 DEF ApplyAttempt, Written, WriteFails, Idle
<1>6. CASE ApplyPreFlush \/ ApplyFlush \/ FlushSend
  <2>1. mem = disk /\ cur \in Plans /\ UNCHANGED <<elem, auditLeft>>
    BY <1>6, <1>a, Zenon DEF ApplyPreFlush, ApplyFlush, FlushSend, Applying
  <2>2. ASSUME NEW s \in {"REJECTED", "FAILED_DIRTY"}, Settle(cur, s) PROVE Ages' /\ Timed'
    BY States, <1>w, <2>1, <2>2, SettleAges, Zenon
  <2>3. CASE WorkerFails BY <1>f, <2>1, <2>3
  <2>4. CASE pc' \in {"flush", "send", "sending"} /\ UNCHANGED journal
    BY <1>q, <2>1, <2>4, Untimed
  <2>. QED BY <1>6, <2>2, <2>3, <2>4, Zenon DEF ApplyPreFlush, ApplyFlush, FlushSend
<1>7. CASE FlushCommit
  <2>1. cur \in Plans /\ UNCHANGED <<disk, auditLeft>> /\ disk[cur].st = "APPROVED" /\ pc' = "readback"
    BY <1>7, <1>a DEF FlushCommit, Applying, StageOK
  <2>2. \A q \in Plans \ {cur} : elem'[q] = elem[q]
    BY <1>7, Zenon DEF FlushCommit, Types, KernelType
  <2>3. Ages' BY <1>w, <2>1, <2>2, ZenonT(40) DEF Ages
  <2>. QED BY <2>1, <2>3, Untimed
<1>8. CASE ApplyReadback
  <2>1. mem = disk /\ cur \in Plans /\ UNCHANGED <<elem, auditLeft>>
    BY <1>8, <1>a, ZenonT(40) DEF ApplyReadback, Applying
  <2>2. CASE Settle(cur, "FAILED_DIRTY") BY States, <1>w, <2>1, <2>2, SettleAges, ZenonT(40)
  <2>3. CASE WorkerFails BY <1>f, <2>1, <2>3
  <2>4. CASE pc' = "applied" /\ UNCHANGED journal BY <1>q, <2>1, <2>4, Untimed
  <2>. QED BY <1>8, <2>2, <2>3, <2>4, ZenonT(40) DEF ApplyReadback
<1>9. CASE ApplyApplied
  <2>1. /\ mem = disk /\ cur \in Plans /\ UNCHANGED elem
        /\ disk[cur].st # "VERIFIED" /\ elem[cur] <= seen
        /\ auditLeft' = [auditLeft EXCEPT ![cur] = seen + AuditSlack]
    BY <1>9, <1>a DEF ApplyApplied, Applying, StageOK, SeenOK, AuditDelta
  <2>2. auditLeft'[cur] = seen + AuditSlack /\ \A q \in Plans : q # cur => auditLeft'[q] = auditLeft[q]
    BY <2>1, Zenon DEF Types, TimeType
  <2>3. elem'[cur] <= auditLeft'[cur] BY <1>n, <2>1, <2>2
  <2>4. \A q \in Plans : q # cur => (disk'[q].st = "VERIFIED" => disk[q].st = "VERIFIED")
    BY Zenon, <1>9 DEF ApplyApplied, WorkerFails, Written, WriteFails, Types, JournalType
  <2>5. Ages' BY <1>w, <2>1, <2>2, <2>3, <2>4, ZenonT(40) DEF Ages
  <2>6. Timed' BY Zenon, <1>9, <2>3 DEF ApplyApplied, WorkerFails, Idle, Timed
  <2>. QED BY <2>5, <2>6
<1>10. CASE ApplyVerify
  <2>1. /\ mem = disk /\ cur \in Plans /\ UNCHANGED <<elem, auditLeft>>
        /\ elem[cur] <= auditLeft[cur]
    BY <1>10, <1>a, <1>w, ZenonT(40) DEF ApplyVerify, Applying, Timed
  <2>2. CASE Settle(cur, "VERIFIED") BY States, <1>w, <2>1, <2>2, SettleAges, ZenonT(40)
  <2>3. CASE WorkerFails BY <1>f, <2>1, <2>3, ZenonT(40)
  <2>4. CASE Idle /\ UNCHANGED journal BY <1>q, <2>1, <2>4, Untimed, ZenonT(40) DEF Idle
  <2>. QED BY <1>10, <2>2, <2>3, <2>4 DEF ApplyVerify
<1>11. CASE Open \/ SweepBegin \/ AuditBegin
  BY Zenon, <1>11, <1>q, Untimed DEF Open, SweepBegin, AuditBegin
<1>12. CASE SweepAborts \/ SweepEnd BY Zenon, <1>12, <1>q, Untimed DEF SweepAborts, SweepEnd, Idle
<1>13. CASE Down /\ UNCHANGED <<elem, auditLeft>> BY <1>13, <1>q, Untimed DEF Down, Idle
<1>14. ASSUME (\E p \in Plans : ReconcileOne(p)) \/ ReconcileObserved PROVE Ages' /\ Timed'
  <2>1. mem = disk /\ UNCHANGED elem /\ \A p \in todo : p \in Plans /\ disk[p].st # "VERIFIED"
    BY <1>14, Zenon DEF ReconcileOne, ReconcileObserved, StartUnchanged, ControlOK, TodoOK, InFlightIn, InFlight
  <2>2. ASSUME NEW p \in todo, NEW s \in {"EXPIRED", "REJECTED", "FAILED_DIRTY"}, Reconciled(p, s),
               UNCHANGED deadlines
        PROVE  Ages' /\ Timed'
    <3>1. Ages' BY States, <1>w, <2>1, <2>2, AppendAges, ZenonT(40) DEF Reconciled
    <3>2. Timed' BY <2>2, Untimed, Zenon DEF Reconciled
    <3>. QED BY <3>1, <3>2
  <2>3. CASE pc' = "observed" /\ UNCHANGED <<journal, deadlines>> BY <1>q, <2>1, <2>3, Untimed
  <2>4. CASE /\ pc = "observed"
             /\ IF mem[cur].st = "APPROVED" THEN Written(cur, To(cur, "APPLIED")) ELSE UNCHANGED journal
             /\ auditLeft' = [auditLeft EXCEPT ![cur] = AuditDelta(seen)]
             /\ pc' = "recoververify" /\ UNCHANGED cur
    <3>0. cur \in todo /\ cur \in Plans /\ disk[cur].st # "VERIFIED" /\ elem[cur] <= seen
      BY <2>1, <2>4, Zenon DEF TodoOK, SeenOK
    <3>1. auditLeft'[cur] = seen + AuditSlack /\ \A q \in Plans : q # cur => auditLeft'[q] = auditLeft[q]
      BY Zenon, <2>4, <3>0 DEF Types, TimeType, AuditDelta
    <3>2. elem'[cur] <= auditLeft'[cur] BY <1>n, <2>1, <3>0, <3>1
    <3>3. \A q \in Plans : q # cur => disk'[q] = disk[q] BY <2>4 DEF Written, Types, JournalType
    <3>4. Ages' BY <1>w, <2>1, <2>4, <3>1, <3>2, <3>3, ZenonT(40) DEF Ages
    <3>5. Timed' BY <2>4, <3>2, Zenon DEF Timed
    <3>. QED BY <3>4, <3>5
  <2>5. pc = "observed" => cur \in todo BY Zenon DEF TodoOK
  <2>. QED BY <1>14, <2>2, <2>3, <2>4, <2>5, ZenonT(40) DEF ReconcileOne, ReconcileObserved, Gone
<1>15. CASE RecoverVerify
  <2>1. /\ mem = disk /\ cur \in Plans /\ UNCHANGED <<elem, auditLeft>>
        /\ elem[cur] <= auditLeft[cur]
    BY <1>15, <1>w, ZenonT(40) DEF RecoverVerify, StartUnchanged, ControlOK, TodoOK, Timed
  <2>2. Ages' BY States, <1>15, <1>w, <2>1, AppendAges, ZenonT(40) DEF RecoverVerify
  <2>. QED BY <1>15, <2>2, Untimed DEF RecoverVerify
<1>16. ASSUME NEW p \in Plans, ExpireApproval(p) \/ AuditOne(p) PROVE Ages' /\ Timed'
  <2>1. mem = disk /\ UNCHANGED <<elem, auditLeft>> /\ pc \in {"expire", "audit"}
    BY Zenon, <1>16 DEF ExpireApproval, AuditOne, ControlOK
  <2>2. ASSUME NEW s \in {"EXPIRED_UNAPPLIED", "EXPIRED", "FAILED_DIRTY"}, SweptTo(p, s)
        PROVE  Ages' /\ Timed'
    <3>1. Ages' BY States, <1>w, <2>1, <2>2, AppendAges, Zenon DEF SweptTo
    <3>2. Timed' BY <2>1, <2>2, Untimed DEF SweptTo, Idle
    <3>. QED BY <3>1, <3>2
  <2>. QED BY <1>16, <2>2, ZenonT(40) DEF ExpireApproval, AuditOne
<1>17. CASE Reboot
  <2>1. \A p \in Plans : elem'[p] <= elem[p] BY <1>n, <1>17 DEF Reboot
  <2>. QED BY <1>17, <1>w, <2>1, FadeAges, Untimed DEF Reboot, Down, Idle
<1>18. ASSUME NEW c \in Containers, ContainerRestart(c) PROVE Ages' /\ Timed'
  <2>1. \A p \in Plans : elem'[p] <= elem[p] BY <1>n, <1>18 DEF ContainerRestart
  <2>2. Ages' BY <1>18, <1>w, <2>1, FadeAges, ZenonT(40) DEF ContainerRestart
  <2>3. pc \in {"verify", "recoververify"} => cur \in Plans
    BY <1>a, ZenonT(40) DEF Applying, TodoOK
  <2>4. Timed' BY <1>18, <1>n, <1>w, <2>1, <2>3 DEF ContainerRestart, Timed
  <2>. QED BY <2>2, <2>4
<1>19. CASE Tick
  <2>1. \A p \in Plans : elem'[p] = Sooner(elem[p]) /\ auditLeft'[p] = Sooner(auditLeft[p])
    BY <1>19, ZenonT(40) DEF Tick, BootClockTicks, Earlier
  <2>2. \A p \in Plans : elem[p] <= auditLeft[p] => elem'[p] <= auditLeft'[p] BY <1>n, <2>1 DEF Sooner
  <2>3. Ages' BY <1>19, <1>w, <2>2, ZenonT(40) DEF Tick, Ages
  <2>4. pc \in {"verify", "recoververify"} => cur \in Plans BY Zenon, <1>a DEF Applying, TodoOK
  <2>5. Timed' BY Zenon, <1>19, <1>w, <2>2, <2>4 DEF Tick, Timed
  <2>. QED BY <2>3, <2>5
<1>20. CASE Suspend BY Zenon, <1>20 DEF Suspend
<1>21. CASE FaultsCease \/ UNCHANGED vars
  <2>1. Ages' BY Zenon, <1>q, <1>21 DEF FaultsCease, vars
  <2>2. Timed' BY <1>w, <1>21, Zenon DEF FaultsCease, vars, Timed
  <2>. QED BY <2>1, <2>2
<1>. QED
  BY <1>1, <1>2, <1>3, <1>4, <1>5, <1>6, <1>7, <1>8, <1>9, <1>10, <1>11, <1>12, <1>13, <1>14,
     <1>15, <1>16, <1>17, <1>18, <1>19, <1>20, <1>21, ZenonT(40)
  DEF Next, ApplyStep, StartStep, SweepStep, OpenFails, RecoverVerifyTooLate, Shutdown, Crash

-----------------------------------------------------------------------------
(* The limits on denies.                                                    *)

\* The sets of denies are finite.
LEMMA FiniteDenies ==
    ASSUME NEW S, S \subseteq Plans
    PROVE  /\ IsFiniteSet(S) /\ Cardinality(S) \in Nat
           /\ \A T \in SUBSET S : Cardinality(T) <= Cardinality(S)
<1>1. IsFiniteSet(Plans) BY ActuatorConstants
<1>2. IsFiniteSet(S) BY <1>1, FS_Subset
<1>. QED BY <1>2, FS_Subset, FS_CardinalityType

\* The room found at the beginning is still there at the batch.
LEMMA RoomStep ==
    ASSUME Types, Types', ControlOK, KernelOK, RoomOK, [Next]_vars
    PROVE  RoomOK'
<1>. SUFFICES ASSUME pc' \in BeforeFlush
              PROVE  /\ Cardinality(LiveOthers(cur)') < MaxActive
                     /\ \A q \in Plans : Target[q] = Target[cur'] => elem'[q] = 0
  BY Zenon DEF RoomOK
<1>0. \A q \in Plans : elem[q] \in Nat /\ elem'[q] \in Nat
  BY ActuatorConstants DEF Types, KernelType
<1>m. MaxActive \in Nat BY ActuatorConstants
<1>1. CASE pc \in BeforeFlush /\ cur' = cur /\ \A q \in Plans : elem'[q] <= elem[q]
  <2>1. LiveOthers(cur)' \subseteq LiveOthers(cur) /\ LiveOthers(cur) \subseteq Plans
    BY <1>0, <1>1 DEF LiveOthers
  <2>2. /\ Cardinality(LiveOthers(cur)') \in Nat /\ Cardinality(LiveOthers(cur)) \in Nat
        /\ Cardinality(LiveOthers(cur)') <= Cardinality(LiveOthers(cur))
    BY <2>1, FiniteDenies
  <2>3. Cardinality(LiveOthers(cur)') < MaxActive BY <1>1, <1>m, <2>2 DEF RoomOK
  <2>4. ASSUME NEW q \in Plans, Target[q] = Target[cur'] PROVE elem'[q] = 0
    BY <1>0, <1>1, <2>4 DEF RoomOK
  <2>. QED BY Zenon, <2>3, <2>4
<1>2. ASSUME NEW p \in Plans, ApplyBegin(p), Begun(p)
      PROVE  /\ Cardinality(LiveOthers(cur)') < MaxActive
             /\ \A q \in Plans : Target[q] = Target[cur'] => elem'[q] = 0
  <2>1. mem = disk /\ DirtyIn(disk) = {} /\ elem' = elem /\ cur' = p
    BY Zenon, <1>2 DEF ApplyBegin, Begun, Unlocked, MutationLocked, ControlOK, kernel
  <2>2. PICK outdated \in BOOLEAN : ActiveContainmentAllowed(p, outdated) BY Zenon, <1>2 DEF Begun
  <2>. DEFINE others == {q \in Plans \ {p} : Active(mem[q].st, mem[q].att)}
  <2>3. Cardinality(others) < MaxActive BY Zenon, <2>2 DEF ActiveContainmentAllowed
  <2>4. LiveOthers(cur)' \subseteq others
    <3>1. ASSUME NEW q \in Plans, elem[q] > 0 PROVE Active(mem[q].st, mem[q].att)
      <4>1. disk[q].att /\ disk[q].st \in {"APPROVED", "APPLIED", "VERIFIED", "FAILED_DIRTY"}
        BY Zenon, <3>1 DEF KernelOK, DenyIsAccounted
      <4>. QED BY Zenon, <2>1, <4>1 DEF DirtyIn, Active, InFlight
    <3>. QED BY Zenon, <2>1, <3>1 DEF LiveOthers
  <2>5. /\ Cardinality(LiveOthers(cur)') \in Nat /\ Cardinality(others) \in Nat
        /\ Cardinality(LiveOthers(cur)') <= Cardinality(others)
    <3>1. others \subseteq Plans OBVIOUS
    <3>. QED BY <2>4, <3>1, FiniteDenies
  <2>6. Cardinality(LiveOthers(cur)') < MaxActive BY <1>m, <2>3, <2>5
  <2>7. \A q \in Plans : Target[q] = Target[cur'] => elem'[q] = 0 BY Zenon, <1>2, <2>1 DEF Begun
  <2>. QED BY Zenon, <2>6, <2>7
<1>. QED BY Zenon, <1>1, <1>2, StillBefore

\* The limits hold after every step: only a batch adds a deny, and there is room for it.
LEMMA LimitsStep ==
    ASSUME Types, Types', ControlOK, RoomOK, ContainmentLimits, Effect
    PROVE  ContainmentLimits'
<1>. DEFINE live == {p \in Plans : elem[p] > 0}
<1>0. \A q \in Plans : elem[q] \in Nat /\ elem'[q] \in Nat
  BY ActuatorConstants DEF Types, KernelType
<1>m. MaxActive \in Nat BY ActuatorConstants
<1>1. CASE live' \subseteq live
  <2>1. Cardinality(live) \in Nat /\ Cardinality(live') \in Nat /\ Cardinality(live') <= Cardinality(live)
    <3>1. live \subseteq Plans OBVIOUS
    <3>. QED BY Zenon, <1>1, <3>1, FiniteDenies
  <2>2. Cardinality(live') <= MaxActive BY <1>m, <2>1 DEF ContainmentLimits
  <2>3. \A p, q \in live' : Target[p] = Target[q] => p = q BY Zenon, <1>1 DEF ContainmentLimits
  <2>. QED BY Zenon, <2>2, <2>3 DEF ContainmentLimits
<1>2. CASE Flushed /\ ~(live' \subseteq live)
  <2>1. /\ cur \in Plans /\ Cardinality(LiveOthers(cur)) < MaxActive
        /\ \A q \in Plans : Target[q] = Target[cur] => elem[q] = 0
    BY Zenon, <1>2 DEF Flushed, ControlOK, Applying, RoomOK, BeforeFlush
  <2>2. elem' = [elem EXCEPT ![cur] = TTL] BY <1>2 DEF Flushed
  <2>3. live' \subseteq LiveOthers(cur) \cup {cur}
    BY Zenon, <2>1, <2>2 DEF LiveOthers, Types, KernelType
  <2>4. /\ IsFiniteSet(LiveOthers(cur)) /\ Cardinality(LiveOthers(cur)) \in Nat
        /\ cur \notin LiveOthers(cur) /\ LiveOthers(cur) \cup {cur} \subseteq Plans
    <3>1. LiveOthers(cur) \subseteq Plans BY DEF LiveOthers
    <3>. QED BY Zenon, <2>1, <3>1, FiniteDenies DEF LiveOthers
  <2>5. Cardinality(LiveOthers(cur) \cup {cur}) = Cardinality(LiveOthers(cur)) + 1
    BY Zenon, <2>4, FS_AddElement
  <2>6. Cardinality(live') \in Nat /\ Cardinality(live') <= Cardinality(LiveOthers(cur) \cup {cur})
    BY Zenon, <2>3, <2>4, FiniteDenies
  <2>7. Cardinality(live') <= MaxActive BY <1>m, <2>1, <2>4, <2>5, <2>6
  <2>8. \A p, q \in live' : Target[p] = Target[q] => p = q
    BY Zenon, <1>0, <2>1, <2>3 DEF ContainmentLimits, LiveOthers
  <2>. QED BY <2>7, <2>8 DEF ContainmentLimits
<1>3. ASSUME Faded \/ Attempted \/ (\E p \in Plans, s \in PlanStates : Recorded(p, s))
      PROVE  live' \subseteq live
  BY <1>0, <1>3 DEF Faded, Attempted, Recorded
<1>. QED BY Zenon, <1>1, <1>2, <1>3 DEF Effect

-----------------------------------------------------------------------------
(* The theorems.                                                            *)

\* The invariant holds at first,
LEMMA InitInvariant == Init => IInv
<1>. SUFFICES ASSUME Init PROVE IInv OBVIOUS
<1>0. /\ disk = [p \in Plans |-> [st |-> "none", att |-> FALSE]] /\ mem = disk /\ failed = FALSE
      /\ proc = "down" /\ pc = "idle" /\ elem = [p \in Plans |-> 0] /\ flushes = elem
  BY DEF Init
<1>1. Types
  <2>1. [st |-> "none", att |-> FALSE] \in PlanRecords BY RecordNew, Zenon DEF PlanStates
  <2>2. JournalType BY <1>0, <2>1, Zenon DEF JournalType
  <2>3. OpType BY ActuatorConstants, NoDeadlineType DEF Init, OpType, PCs
  <2>6. FlagType BY Zenon DEF Init, FlagType
  <2>4. TimeType BY ActuatorConstants DEF Init, TimeType
  <2>5. HostType /\ KernelType BY ActuatorConstants DEF Init, HostType, KernelType
  <2>. QED BY <2>2, <2>3, <2>4, <2>5, <2>6 DEF Types
<1>2. \A p \in Plans : /\ disk[p].st = "none" /\ disk[p].att = FALSE
                       /\ elem[p] = 0 /\ flushes[p] = 0
  BY Zenon, <1>0
<1>3. ControlOK /\ TodoOK /\ StageOK /\ RoomOK
  BY Zenon, <1>0 DEF ControlOK, TodoOK, StageOK, RoomOK, Applying, BeforeFlush
<1>4. RecordsOK /\ KernelOK BY <1>2 DEF RecordsOK, KernelOK, DenyIsAccounted
<1>5. FlightOK BY Zenon, <1>2 DEF FlightOK, InFlightIn, InFlight
<1>6. SwitchOK BY ZenonT(40) DEF Init, SwitchOK, KillSwitchSticks
<1>7. SeenOK /\ WindowOK /\ AuditOK
  <2>1. SeenOK BY <1>0 DEF SeenOK
  <2>2. WindowOK BY <1>0, <1>2 DEF WindowOK
  <2>3. AuditOK BY <1>0, <1>2 DEF AuditOK
  <2>. QED BY <2>1, <2>2, <2>3
<1>8. ContainmentLimits
  <2>1. {p \in Plans : elem[p] > 0} = {} BY <1>2
  <2>2. Cardinality({}) <= MaxActive BY FS_EmptySet, ActuatorConstants
  <2>. QED BY Zenon, <2>1, <2>2 DEF ContainmentLimits
<1>. QED BY <1>1, <1>3, <1>4, <1>5, <1>6, <1>7, <1>8, TypesAre DEF IInv, Core

\* and every step keeps it and has a lawful effect.
LEMMA StepInvariant == IInv /\ [Next]_vars => IInv' /\ Effect
<1>. SUFFICES ASSUME IInv, [Next]_vars PROVE IInv' /\ Effect OBVIOUS
<1>0. /\ Types /\ ControlOK /\ TodoOK /\ StageOK /\ Place /\ RecordsOK /\ KernelOK /\ FlightOK
      /\ SwitchOK /\ SeenOK /\ WindowOK /\ AuditOK /\ RoomOK /\ ContainmentLimits
  BY TypesAre DEF IInv, Core, Place
<1>1. Types' BY <1>0, TypeStep
<1>2. Effect BY <1>0, StepEffect
<1>3. ControlOK' /\ TodoOK' /\ StageOK' BY <1>0, PlaceStep DEF Place
<1>4. RecordsOK' BY <1>0, <1>2, RecordsStep
<1>5. KernelOK' BY <1>0, <1>1, <1>2, KernelStep
<1>6. FlightOK' BY <1>0, <1>2, FlightStep
<1>7. SwitchOK' BY <1>0, SwitchStep
<1>8. SeenOK' /\ WindowOK' /\ AuditOK' BY <1>0, <1>1, SeenStep, WindowStep, AuditStep
<1>9. RoomOK' BY <1>0, <1>1, RoomStep
<1>10. ContainmentLimits' BY <1>0, <1>1, <1>2, LimitsStep
<1>. QED
  BY <1>1, <1>2, <1>3, <1>4, <1>5, <1>6, <1>7, <1>8, <1>9, <1>10, TypesAre DEF IInv, Core

\* The invariant holds in every reachable state.
THEOREM Invariant == Spec => []IInv
<1>1. Init => IInv BY InitInvariant
<1>2. IInv /\ [Next]_vars => IInv' BY StepInvariant
<1>. QED BY <1>1, <1>2, PTL DEF Spec

\* Every variable keeps its type.
THEOREM TypeCorrect == Spec => []TypeOK
<1>1. IInv => TypeOK BY DEF IInv, Core
<1>. QED BY <1>1, Invariant, PTL

\* No deny is in force that the journal file does not account for, whatever step of
\* ApplyNext, the recovery or the sweeper a crash interrupts.
THEOREM DenyAccounted == Spec => []DenyIsAccounted
<1>1. IInv => DenyIsAccounted BY DEF IInv, Core, KernelOK
<1>. QED BY <1>1, Invariant, PTL

\* The kernel batch of a plan is sent at most once, over any number of restarts.
THEOREM AtMostOnce == Spec => []AppliedAtMostOnce
<1>1. IInv => AppliedAtMostOnce BY DEF IInv, Core, RecordsOK, AppliedAtMostOnce
<1>. QED BY <1>1, Invariant, PTL

\* At most one plan is between its attempt and its verdict.
THEOREM OneInFlight == Spec => []SingleInFlight
<1>1. ASSUME IInv PROVE SingleInFlight
  <2>1. FlightOK BY <1>1 DEF IInv, Core
  <2>2. CASE InFlightIn(disk) = {}
    BY <2>2, FS_EmptySet DEF SingleInFlight
  <2>3. ASSUME NEW p \in InFlightIn(disk) PROVE SingleInFlight
    <3>1. InFlightIn(disk) = {p} BY <2>1 DEF FlightOK
    <3>2. Cardinality({p}) = 1 BY FS_Singleton
    <3>. QED BY <3>1, <3>2 DEF SingleInFlight
  <2>. QED BY <2>2, <2>3
<1>. QED BY <1>1, Invariant, PTL

\* An acknowledged kill switch is in force whenever the daemon runs.
THEOREM SwitchSticks == Spec => []KillSwitchSticks
<1>1. IInv => KillSwitchSticks BY DEF IInv, SwitchOK
<1>. QED BY <1>1, Invariant, PTL

\* The limits on denies, per container and per host, hold in the kernel.
THEOREM WithinLimits == Spec => []ContainmentLimits
<1>1. IInv => ContainmentLimits BY DEF IInv
<1>. QED BY <1>1, Invariant, PTL

\* Where the socket deadline and two stalls fit in the apply timeout, and nothing
\* suspends, a deny that was sent promptly never outlives the window in which
\* recovery knows it, and neither does the readback recovery compares with it.
THEOREM WithinWindow == Spec => []DenyWithinWindow
<1>1. ASSUME IInv, WindowFits, NEW p \in Plans \ late
      PROVE  /\ elem[p] <= legitLeft[p]
             /\ pc = "observed" /\ cur = p /\ ctx.hold > 0 => seen <= legitLeft[p]
  <2>1. Types BY <1>1, TypesAre DEF IInv, Core
  <2>2. /\ elem[p] \in Nat /\ legitLeft[p] \in Nat /\ seen \in Nat /\ Stall \in Nat
        /\ ctx.hold \in Nat
    BY <2>1, ActuatorConstants, DeadlinesFields DEF Types, KernelType, TimeType, OpType
  <2>3. /\ elem[p] > 0 => elem[p] + Stall <= legitLeft[p]
        /\ pc = "observed" /\ cur = p /\ seen > 0 /\ ctx.hold > 0 => seen + ctx.hold <= legitLeft[p] + 1
    BY <1>1, Zenon DEF IInv, WindowOK
  <2>. QED BY <2>2, <2>3
<1>2. IInv => DenyWithinWindow BY <1>1, Zenon DEF DenyWithinWindow
<1>. QED BY <1>2, Invariant, PTL

\* Without suspends, the element of a verified plan is gone when its audit is due.
THEOREM GoneAtAudit == Spec => []AuditAfterExpiry
<1>1. IInv => AuditAfterExpiry BY Zenon DEF IInv, AuditOK, AuditAfterExpiry
<1>. QED BY <1>1, Invariant, PTL

\* The kernel is only touched with no kill switch reason and with the attempt durable.
THEOREM Guarded == Spec => MutationGuarded
<1>. DEFINE Guard == \A p \in Plans : flushes'[p] # flushes[p] =>
                        /\ ~acked /\ DirtyIn(disk) = {}
                        /\ disk[p] = [st |-> "APPROVED", att |-> TRUE]
                        /\ sameBoot[p]
<1>1. ASSUME IInv, [Next]_vars PROVE [Guard]_vars
  <2>1. Effect BY <1>1, StepInvariant
  <2>2. ASSUME NEW p \in Plans, flushes'[p] # flushes[p]
        PROVE  /\ ~acked /\ DirtyIn(disk) = {}
               /\ disk[p] = [st |-> "APPROVED", att |-> TRUE]
               /\ sameBoot[p]
    <3>1. Flushed BY <2>1, <2>2 DEF Effect, Faded, Attempted, Recorded
    <3>2. p = cur BY Zenon, <2>2, <3>1, <1>1 DEF Flushed, IInv, Core, TypeOK
    <3>3. /\ ControlOK /\ StageOK /\ SwitchOK /\ pc = "sending" BY <1>1, <3>1 DEF IInv, Core, Flushed
    <3>4. ~acked BY Zenon, <3>3 DEF ControlOK, StageOK, SwitchOK, KillSwitchSticks, BeforeFlush, Applying
    <3>. QED BY Zenon, <3>2, <3>3, <3>4 DEF ControlOK, StageOK, BeforeFlush, Applying
  <2>. QED BY Zenon, <2>2
<1>. QED BY <1>1, Invariant, PTL DEF Spec, MutationGuarded

-----------------------------------------------------------------------------
(* The refinement.                                                          *)

\* The daemon, with its crashes, clocks and files, implements the containment saga.
THEOREM Refinement == Spec => ImplementsContainment
<1>1. Init => Saga!Init
  <2>. SUFFICES ASSUME Init PROVE Saga!Init OBVIOUS
  <2>1. Live = {} /\ Enforced = {} BY DEF Init, Live, Enforced
  <2>. QED BY Zenon, <2>1 DEF Init, Saga!Init, Live, Enforced
<1>2. IInv /\ [Next]_vars => [Saga!Next]_Saga!vars
  <2>. SUFFICES ASSUME IInv, [Next]_vars PROVE [Saga!Next]_Saga!vars OBVIOUS
  <2>1. IInv' /\ Effect BY StepInvariant
  <2>2. Types' BY <2>1, TypesAre DEF IInv, Core
  <2>. QED BY <2>1, <2>2, EffectRefines
<1>. QED BY <1>1, <1>2, Invariant, PTL DEF Spec, ImplementsContainment, Saga!Spec
=============================================================================
