--------------------------- MODULE ActuatorSteps ---------------------------
(***************************************************************************)
(* What a step of the actuator daemon does to the file and the kernel, and   *)
(* what that preserves of the records, the elements, the one attempt and     *)
(* where the operation that holds the mutex stands.                          *)
(***************************************************************************)
EXTENDS ActuatorInvariant

\* SMT, then Zenon, with time to spare on a slow machine.
USE SMTT(30), ZenonT(20)

-----------------------------------------------------------------------------
(* The effect of every step.                                               *)

\* Nothing of the file and the kernel changes.
LEMMA QuietEffect ==
    ASSUME Types, UNCHANGED <<disk, elem, flushes>>,
           \A p \in Plans : KeepsHost(p)
    PROVE  Effect
  BY DEF Types, KernelType, Effect, Faded

\* An append, done or failed, of a lawful state has a lawful effect,
LEMMA AppendEffect ==
    ASSUME Types, ControlOK, ~failed, NEW p \in Plans, NEW s \in PlanStates, Lawful(p, s),
           Written(p, To(p, s)) \/ WriteFails(p, To(p, s)),
           UNCHANGED <<elem, flushes>>, \A q \in Plans : KeepsHost(q)
    PROVE  Effect
<1>1. To(p, s) = [disk[p] EXCEPT !.st = s] BY DEF ControlOK, To
<1>2. CASE disk' = disk BY <1>2, QuietEffect
<1>3. CASE disk' = [disk EXCEPT ![p] = To(p, s)]
  <2>1. Recorded(p, s) BY <1>1, <1>3 DEF Recorded
  <2>. QED BY <2>1 DEF Effect
<1>. QED BY <1>2, <1>3 DEF Written, WriteFails

\* also at the end of ApplyNext
LEMMA SettleEffect ==
    ASSUME Types, ControlOK, ~failed, NEW p \in Plans, NEW s \in PlanStates, Lawful(p, s),
           Settle(p, s), UNCHANGED <<elem, flushes, sameBoot, sameGen>>
    PROVE  Effect
<1>1. \A q \in Plans : KeepsHost(q) BY DEF KeepsHost
<1>2. Written(p, To(p, s)) \/ WriteFails(p, To(p, s)) BY DEF Settle
<1>. QED BY <1>1, <1>2, AppendEffect

\* and in a sweep.
LEMMA SweptEffect ==
    ASSUME Types, ControlOK, ~failed, NEW p \in Plans, NEW s \in PlanStates, Lawful(p, s),
           SweptTo(p, s), UNCHANGED <<elem, flushes, sameBoot, sameGen>>
    PROVE  Effect
<1>1. \A q \in Plans : KeepsHost(q) BY DEF KeepsHost
<1>2. Written(p, To(p, s)) \/ WriteFails(p, To(p, s)) BY DEF SweptTo
<1>. QED BY <1>1, <1>2, AppendEffect

\* Every step of the daemon, of the host or of the kernel has a lawful effect: here the steps of
\* ApplyNext, the recovery and the sweeper are matched with the table of the lifecycle.
LEMMA StepEffect ==
    ASSUME Types, ControlOK, TodoOK, RecordsOK, KernelOK, StageOK, SeenOK, [Next]_vars
    PROVE  Effect
<1>. USE DEF journal, op, switch, deadlines, host, kernel
<1>h. ASSUME UNCHANGED host PROVE \A p \in Plans : KeepsHost(p)
  BY <1>h DEF KeepsHost
<1>e. \A p \in Plans : elem[p] \in Nat /\ (elem[p] > 0 => /\ disk[p].att /\ flushes[p] = 1
                                                      /\ sameBoot[p] /\ sameGen[p])
  <2>1. \A p \in Plans : elem[p] \in Nat BY ActuatorConstants DEF Types, KernelType
  <2>. QED BY <2>1 DEF KernelOK, DenyIsAccounted
<1>1. ASSUME NEW p \in Plans, Prepare(p) PROVE Effect
  <2>1. mem = disk /\ ~failed /\ disk[p].st = "none"
    BY <1>1 DEF Prepare, Unlocked, ControlOK
  <2>2. [st |-> "PREPARED", att |-> FALSE] = To(p, "PREPARED")
    <3>1. disk[p] \in PlanRecords /\ ~disk[p].att BY <2>1 DEF Types, JournalType, RecordsOK
    <3>. QED BY <2>1, <3>1, States, RecordTo, RecordFields, Zenon DEF To
  <2>3. \A q \in Plans : KeepsHost(q) BY <1>1 DEF Prepare, KeepsHost, Types, HostType
  <2>4. Lawful(p, "PREPARED") BY <2>1 DEF Lawful
  <2>. QED BY <1>1, <2>1, <2>2, <2>3, <2>4, States, AppendEffect, Zenon DEF Prepare
<1>2. ASSUME NEW p \in Plans, NEW s \in DecisionStates, Decide(p, s) PROVE Effect
  <2>1. mem = disk /\ ~failed /\ Lawful(p, s) BY Zenon, <1>2 DEF Decide, ControlOK, Lawful
  <2>. QED BY <1>2, <2>1, States, <1>h, AppendEffect DEF Decide
<1>3. ASSUME NEW p \in Plans, ApplyBegin(p) PROVE Effect
  <2>1. mem = disk /\ ~failed /\ disk[p].st = "APPROVED" /\ ~disk[p].att
    BY Zenon, <1>3 DEF ApplyBegin, Unlocked, MutationLocked, InFlightIn, InFlight, ControlOK
  <2>2. Lawful(p, "REJECTED") /\ Lawful(p, "STALE_ABORT")
    BY <2>1, <1>e DEF Lawful, LifecycleTransitionAllowed
  <2>3. CASE Settle(p, "REJECTED") \/ Settle(p, "STALE_ABORT")
    BY Zenon, <1>3, <2>1, <2>2, <2>3, States, SettleEffect DEF ApplyBegin, ApplyUnchanged
  <2>4. CASE UNCHANGED journal
    BY <1>3, <2>4, <1>h, QuietEffect DEF ApplyBegin, ApplyUnchanged
  <2>. QED BY <1>3, <2>3, <2>4, BeginCases, Zenon DEF WorkerFails, Begun
<1>4. CASE ApplyAttempt
  <2>1. /\ cur \in Plans /\ ~failed /\ mem = disk
        /\ disk[cur] = [st |-> "APPROVED", att |-> FALSE]
    BY <1>4 DEF ApplyAttempt, ControlOK, Applying, StageOK
  <2>2. Lawful(cur, "STALE_ABORT") BY <2>1, <1>e DEF Lawful, LifecycleTransitionAllowed
  <2>3. CASE Settle(cur, "STALE_ABORT")
    BY Zenon, <1>4, <2>1, <2>2, <2>3, States, SettleEffect DEF ApplyAttempt, ApplyUnchanged
  <2>4. CASE UNCHANGED disk
    BY <1>4, <2>4, <1>h, QuietEffect DEF ApplyAttempt, ApplyUnchanged
  <2>5. CASE disk' = [disk EXCEPT ![cur] = [st |-> "APPROVED", att |-> TRUE]]
    BY <1>4, <2>5 DEF ApplyAttempt, ApplyUnchanged, Attempted, Effect
  <2>. QED BY <1>4, <2>3, <2>4, <2>5 DEF ApplyAttempt, WorkerFails, Written, WriteFails
<1>5. CASE ApplyPreFlush
  <2>1. /\ cur \in Plans /\ ~failed /\ disk[cur] = [st |-> "APPROVED", att |-> TRUE]
        /\ flushes[cur] = 0
    BY Zenon, <1>5 DEF ApplyPreFlush, ControlOK, Applying, StageOK
  <2>2. Lawful(cur, "REJECTED") BY <2>1, <1>e DEF Lawful, LifecycleTransitionAllowed
  <2>3. CASE Settle(cur, "REJECTED")
    BY Zenon, <1>5, <2>1, <2>2, <2>3, States, SettleEffect DEF ApplyPreFlush, ApplyUnchanged
  <2>4. CASE UNCHANGED journal
    BY <1>5, <2>4, <1>h, QuietEffect DEF ApplyPreFlush, ApplyUnchanged
  <2>. QED BY <1>5, <2>3, <2>4 DEF ApplyPreFlush, WorkerFails
<1>6. CASE ApplyFlush \/ FlushSend
  <2>1. /\ cur \in Plans /\ ~failed /\ disk[cur] = [st |-> "APPROVED", att |-> TRUE]
        /\ flushes[cur] = 0
    BY <1>6 DEF ApplyFlush, FlushSend, ControlOK, Applying, StageOK
  <2>2. Lawful(cur, "REJECTED") /\ Lawful(cur, "FAILED_DIRTY")
    BY <2>1, <1>e DEF Lawful, LifecycleTransitionAllowed
  <2>h. UNCHANGED <<host, elem, flushes>>
    BY <1>6, Zenon DEF ApplyFlush, FlushSend, ApplyUnchanged
  <2>3. CASE Settle(cur, "REJECTED") \/ Settle(cur, "FAILED_DIRTY")
    BY Zenon, <2>h, <2>1, <2>2, <2>3, States, SettleEffect
  <2>4. CASE UNCHANGED journal BY Zenon, <2>h, <2>4, <1>h, QuietEffect
  <2>. QED BY Zenon, <1>6, <2>3, <2>4 DEF ApplyFlush, FlushSend, WorkerFails
<1>21. CASE FlushCommit
  BY Zenon, <1>21 DEF FlushCommit, ApplyUnchanged, Flushed, Effect
<1>7. CASE ApplyReadback
  <2>1. /\ cur \in Plans /\ ~failed /\ disk[cur] = [st |-> "APPROVED", att |-> TRUE]
    BY Zenon, <1>7 DEF ApplyReadback, ControlOK, Applying, StageOK
  <2>2. Lawful(cur, "FAILED_DIRTY") BY <2>1 DEF Lawful, LifecycleTransitionAllowed
  <2>3. CASE Settle(cur, "FAILED_DIRTY")
    BY Zenon, <1>7, <2>1, <2>2, <2>3, States, SettleEffect DEF ApplyReadback, ApplyUnchanged
  <2>4. CASE UNCHANGED journal
    BY <1>7, <2>4, <1>h, QuietEffect DEF ApplyReadback, ApplyUnchanged
  <2>. QED BY Zenon, <1>7, <2>3, <2>4 DEF ApplyReadback, WorkerFails
<1>8. CASE ApplyApplied
  <2>1. /\ cur \in Plans /\ ~failed /\ disk[cur] = [st |-> "APPROVED", att |-> TRUE]
        /\ flushes[cur] = 1
    BY <1>8 DEF ApplyApplied, ControlOK, Applying, StageOK
  <2>2. Lawful(cur, "APPLIED") BY <2>1 DEF Lawful, LifecycleTransitionAllowed
  <2>3. CASE Written(cur, To(cur, "APPLIED")) \/ WriteFails(cur, To(cur, "APPLIED"))
    BY Zenon, <1>8, <2>1, <2>2, <2>3, States, <1>h, AppendEffect DEF ApplyApplied, ApplyUnchanged
  <2>4. CASE UNCHANGED journal
    BY <1>8, <2>4, <1>h, QuietEffect DEF ApplyApplied, ApplyUnchanged
  <2>. QED BY <1>8, <2>3, <2>4 DEF ApplyApplied, WorkerFails
<1>9. CASE ApplyVerify
  <2>1. /\ cur \in Plans /\ ~failed /\ disk[cur] = [st |-> "APPLIED", att |-> TRUE]
        /\ flushes[cur] = 1
    BY <1>9 DEF ApplyVerify, ControlOK, Applying, StageOK, RecordsOK
  <2>2. Lawful(cur, "VERIFIED") BY <2>1 DEF Lawful, LifecycleTransitionAllowed
  <2>3. CASE Settle(cur, "VERIFIED")
    BY Zenon, <1>9, <2>1, <2>2, <2>3, States, SettleEffect DEF ApplyVerify, ApplyUnchanged
  <2>4. CASE UNCHANGED journal
    BY <1>9, <2>4, <1>h, QuietEffect DEF ApplyVerify, ApplyUnchanged
  <2>. QED BY <1>9, <2>3, <2>4 DEF ApplyVerify, WorkerFails
<1>w. ASSUME NEW p \in Plans, p \in todo, pc \in {"reconcile", "observed"}
      PROVE  ~failed /\ mem = disk /\ InFlight(disk[p].st, disk[p].att) /\ disk[p].att
  <2>1. ~failed /\ mem = disk /\ InFlight(disk[p].st, disk[p].att)
    BY Zenon, <1>w DEF ControlOK, TodoOK, InFlightIn
  <2>. QED BY <2>1 DEF InFlight, RecordsOK
<1>g. ASSUME NEW p \in Plans, p \in todo, pc \in {"reconcile", "observed"}, UNCHANGED <<host, elem, flushes>>,
             elem[p] = 0, Reconciled(p, Gone(p))
      PROVE  Effect
  <2>1. Lawful(p, Gone(p)) /\ Gone(p) \in PlanStates
    BY Zenon, <1>g, <1>w, States DEF Lawful, LifecycleTransitionAllowed, Gone, InFlight
  <2>. QED BY Zenon, <1>g, <1>w, <1>h, <2>1, AppendEffect DEF Reconciled
<1>10. ASSUME NEW p \in Plans, ReconcileOne(p) PROVE Effect
  <2>h. UNCHANGED <<host, elem, flushes>> /\ p \in todo /\ pc = "reconcile"
    BY <1>10, Zenon DEF ReconcileOne, StartUnchanged
  <2>3. CASE UNCHANGED journal BY <2>3, <2>h, <1>h, QuietEffect, Zenon
  <2>4. CASE ~(sameBoot[p] /\ sameGen[p]) /\ Reconciled(p, Gone(p))
    <3>1. elem[p] = 0 BY <1>e, <2>4
    <3>. QED BY Zenon, <1>g, <2>h, <2>4, <3>1
  <2>. QED BY Zenon, <1>10, <2>3, <2>4 DEF ReconcileOne
<1>22. CASE ReconcileObserved
  <2>h. UNCHANGED <<host, elem, flushes>> /\ pc = "observed" BY <1>22, Zenon DEF ReconcileObserved, StartUnchanged
  <2>0. cur \in todo /\ cur \in Plans BY Zenon, <2>h DEF TodoOK, Types, OpType
  <2>1. ~failed /\ mem = disk /\ InFlight(disk[cur].st, disk[cur].att) /\ disk[cur].att
    BY Zenon, <1>w, <2>h, <2>0
  <2>2. elem[cur] <= seen /\ (seen > 0 => flushes[cur] = 1) BY Zenon, <2>h DEF SeenOK
  <2>3. CASE UNCHANGED journal BY <2>3, <2>h, <1>h, QuietEffect, Zenon
  <2>4. ASSUME NEW s \in PlanStates, Lawful(cur, s), Written(cur, To(cur, s)) PROVE Effect
    BY <2>4, <2>0, <2>1, <2>h, <1>h, AppendEffect, Zenon
  <2>5. CASE (seen = 0 \/ ~sameGen[cur]) /\ Reconciled(cur, Gone(cur))
    <3>1. elem[cur] = 0 BY <1>e, <2>0, <2>2, <2>5
    <3>. QED BY Zenon, <1>g, <2>h, <2>0, <2>5, <3>1
  <2>6. CASE Written(cur, To(cur, "FAILED_DIRTY"))
    BY Zenon, <2>1, <2>4, <2>6, States DEF Lawful, LifecycleTransitionAllowed, InFlight
  <2>7. CASE seen > 0 /\ mem[cur].st = "APPROVED" /\ Written(cur, To(cur, "APPLIED"))
    BY Zenon, <2>1, <2>2, <2>4, <2>7, States DEF Lawful, LifecycleTransitionAllowed
  <2>. QED BY Zenon, <1>22, <2>3, <2>5, <2>6, <2>7 DEF ReconcileObserved, Reconciled
<1>11. CASE RecoverVerify
  <2>1. cur \in Plans /\ ~failed /\ disk[cur] = [st |-> "APPLIED", att |-> TRUE] /\ flushes[cur] = 1
    BY <1>11 DEF RecoverVerify, ControlOK, TodoOK, RecordsOK
  <2>2. Lawful(cur, "VERIFIED") BY <2>1 DEF Lawful, LifecycleTransitionAllowed
  <2>. QED BY Zenon, <1>11, <2>1, <2>2, States, <1>h, AppendEffect DEF RecoverVerify, StartUnchanged
<1>12. ASSUME NEW p \in Plans, ExpireApproval(p) PROVE Effect
  <2>1. ~failed /\ mem = disk /\ disk[p].st = "PREPARED"
    BY <1>12 DEF ExpireApproval, ControlOK, In
  <2>2. Lawful(p, "EXPIRED_UNAPPLIED") BY <2>1 DEF Lawful, DecisionStates
  <2>. QED BY <1>12, <2>1, <2>2, States, SweptEffect DEF ExpireApproval
<1>13. ASSUME NEW p \in Plans, AuditOne(p) PROVE Effect
  <2>1. ~failed /\ mem = disk /\ disk[p].st = "VERIFIED" /\ disk[p].att
    BY Zenon, <1>13 DEF AuditOne, ControlOK, TodoOK, In, RecordsOK
  <2>2. CASE elem[p] = 0 /\ SweptTo(p, "EXPIRED")
    <3>1. Lawful(p, "EXPIRED") BY <2>1, <2>2 DEF Lawful, LifecycleTransitionAllowed
    <3>. QED BY Zenon, <1>13, <2>1, <2>2, <3>1, States, SweptEffect DEF AuditOne
  <2>3. CASE SweptTo(p, "FAILED_DIRTY")
    <3>1. Lawful(p, "FAILED_DIRTY") BY <2>1 DEF Lawful, LifecycleTransitionAllowed
    <3>. QED BY Zenon, <1>13, <2>1, <2>3, <3>1, States, SweptEffect DEF AuditOne
  <2>. QED BY <1>13, <2>2, <2>3, <1>e DEF AuditOne
<1>14. ASSUME NEW enabled \in BOOLEAN, SetManualKillSwitch(enabled) PROVE Effect
  BY Zenon, <1>14, <1>h, QuietEffect DEF SetManualKillSwitch
<1>15. CASE Open \/ SweepBegin \/ AuditBegin \/ SweepAborts \/ SweepEnd
  <2>1. UNCHANGED <<disk, host, elem, flushes>>
    BY <1>15, Zenon DEF Open, SweepBegin, AuditBegin, SweepAborts, SweepEnd
  <2>. QED BY <2>1, <1>h, QuietEffect, Zenon
<1>16. CASE Down /\ UNCHANGED <<switch, deadlines, host, kernel, calm>>
  BY <1>16, <1>h, QuietEffect DEF Down
<1>17. CASE Reboot
  <2>1. UNCHANGED <<disk, flushes>> /\ elem' = [p \in Plans |-> 0] BY <1>17, Zenon DEF Reboot, Down
  <2>2. Faded BY <1>e, <2>1 DEF Faded
  <2>. QED BY <2>2 DEF Effect
<1>18. ASSUME NEW c \in Containers, ContainerRestart(c) PROVE Effect
  <2>0. UNCHANGED <<disk, flushes, sameBoot>> BY <1>18, Zenon DEF ContainerRestart
  <2>1. ASSUME NEW p \in Plans
        PROVE  elem'[p] <= elem[p] /\ (elem'[p] > 0 => KeepsHost(p))
    <3>0. sameBoot'[p] = sameBoot[p] BY <2>0
    <3>1. CASE Target[p] = c
      <4>1. elem'[p] = 0 BY <1>18, <3>1, Zenon DEF ContainerRestart
      <4>. QED BY <4>1, <1>e
    <3>2. CASE Target[p] # c
      <4>1. elem'[p] = elem[p] /\ (sameGen[p] => sameGen'[p])
        BY <1>18, <3>2, Zenon DEF ContainerRestart
      <4>. QED BY <4>1, <3>0, <1>e DEF KeepsHost
    <3>. QED BY <3>1, <3>2
  <2>2. Faded BY <2>0, <2>1 DEF Faded
  <2>. QED BY <2>2 DEF Effect
<1>19. CASE Tick
  <2>0. elem' = Earlier(elem) BY <1>19, Zenon DEF Tick
  <2>1. \A p \in Plans : elem'[p] <= elem[p] BY <2>0, <1>e DEF Earlier, Sooner
  <2>2. Faded BY <1>19, <1>h, <2>1, Zenon DEF Tick, Faded
  <2>. QED BY <2>2 DEF Effect
<1>20. CASE Suspend \/ FaultsCease \/ UNCHANGED vars
  BY Zenon, <1>20, <1>h, QuietEffect DEF Suspend, FaultsCease, vars
<1>. QED
  BY Zenon, <1>1, <1>2, <1>3, <1>4, <1>5, <1>6, <1>7, <1>8, <1>9, <1>10, <1>11, <1>12, <1>13, <1>14,
     <1>15, <1>16, <1>17, <1>18, <1>19, <1>20, <1>21, <1>22
  DEF Next, ApplyStep, StartStep, SweepStep, OpenFails, RecoverVerifyTooLate, Shutdown, Crash

\* What the file says after a record.
LEMMA RecordedFields ==
    ASSUME Types, NEW p \in Plans, NEW s \in PlanStates, Recorded(p, s)
    PROVE  /\ disk'[p].st = s /\ disk'[p].att = disk[p].att
           /\ \A q \in Plans : q # p => disk'[q] = disk[q]
<1>1. disk[p] \in PlanRecords BY DEF Types, JournalType
<1>2. disk'[p] = [st |-> s, att |-> disk[p].att] BY <1>1, RecordTo DEF Recorded, Types, JournalType
<1>. QED BY <1>2 DEF Recorded

\* What it says after an attempt.
LEMMA AttemptedFields ==
    ASSUME Types, cur \in Plans, Attempted
    PROVE  /\ disk'[cur].st = "APPROVED" /\ disk'[cur].att
           /\ \A q \in Plans : q # cur => disk'[q] = disk[q]
<1>1. disk'[cur] = [st |-> "APPROVED", att |-> TRUE] BY DEF Attempted, Types, JournalType
<1>. QED BY <1>1 DEF Attempted

\* The attempt, the batch and the states of a plan still go together after every step.
LEMMA RecordsStep ==
    ASSUME Types, ControlOK, RecordsOK, StageOK, Effect
    PROVE  RecordsOK'
<1>1. CASE Faded BY <1>1, Zenon DEF Faded, RecordsOK
<1>2. CASE Attempted
  <2>1. cur \in Plans /\ disk[cur].st = "APPROVED" BY <1>2 DEF Attempted, ControlOK, Applying, StageOK
  <2>. QED BY Zenon, <1>2, <2>1, AttemptedFields DEF RecordsOK, Attempted
<1>3. CASE Flushed
  <2>1. cur \in Plans BY Zenon, <1>3 DEF Flushed, ControlOK, Applying
  <2>2. disk[cur].st = "APPROVED" /\ disk[cur].att /\ flushes[cur] = 0
    BY <1>3 DEF Flushed, StageOK
  <2>3. flushes'[cur] = 1 /\ \A q \in Plans : q # cur => flushes'[q] = flushes[q]
    BY <1>3, <2>1, <2>2 DEF Flushed, Types, KernelType
  <2>. QED BY <1>3, <2>1, <2>2, <2>3 DEF Flushed, RecordsOK
<1>4. ASSUME NEW p \in Plans, NEW s \in PlanStates, Recorded(p, s) PROVE RecordsOK'
  BY <1>4, RecordedFields DEF RecordsOK, Recorded, Lawful, LifecycleTransitionAllowed, DecisionStates
<1>. QED BY <1>1, <1>2, <1>3, <1>4 DEF Effect

\* The records and the host that a deny in force needs.
Sound(p) ==
    /\ disk[p].att /\ disk[p].st \in {"APPROVED", "APPLIED", "VERIFIED", "FAILED_DIRTY"}
    /\ flushes[p] = 1 /\ sameBoot[p] /\ sameGen[p]

\* That is what KernelOK says.
LEMMA KernelSound ==
    /\ KernelOK <=> \A p \in Plans : elem[p] > 0 => Sound(p)
    /\ (KernelOK <=> \A p \in Plans : elem[p] > 0 => Sound(p))'
  BY DEF KernelOK, DenyIsAccounted, Sound

\* A deny in force is still accounted for after every step.
LEMMA KernelStep ==
    ASSUME Types, Types', ControlOK, RecordsOK, KernelOK, StageOK, Effect
    PROVE  KernelOK'
<1>0. \A p \in Plans : elem[p] \in Nat /\ (elem[p] > 0 => Sound(p))
  <2>1. \A p \in Plans : elem[p] \in Nat BY ActuatorConstants DEF Types, KernelType
  <2>. QED BY <2>1, KernelSound
<1>. SUFFICES ASSUME NEW p \in Plans, elem'[p] > 0 PROVE Sound(p)'
  BY KernelSound
<1>1. CASE Faded
  <2>1. elem[p] \in Nat /\ elem'[p] \in Nat /\ elem'[p] <= elem[p] 
    BY <1>0, <1>1, ActuatorConstants DEF Faded, Types, KernelType
  <2>2. Sound(p) /\ KeepsHost(p) BY <1>0, <1>1, <2>1 DEF Faded
  <2>. QED BY Zenon, <1>1, <2>2 DEF Faded, KeepsHost, Sound
<1>2. CASE Attempted
  <2>1. cur \in Plans /\ disk[cur].st = "APPROVED" BY <1>2 DEF Attempted, ControlOK, Applying, StageOK
  <2>. QED BY Zenon, <1>0, <1>2, <2>1, AttemptedFields DEF Attempted, Sound
<1>3. CASE Flushed
  <2>1. cur \in Plans /\ sameBoot[cur] BY <1>3 DEF Flushed, ControlOK, Applying
  <2>2. disk[cur].st = "APPROVED" /\ disk[cur].att /\ flushes[cur] = 0
    BY <1>3 DEF Flushed, StageOK
  <2>3. flushes'[cur] = 1 /\ \A q \in Plans : q # cur => flushes'[q] = flushes[q] /\ elem'[q] = elem[q]
    BY <1>3, <2>1, <2>2 DEF Flushed, Types, KernelType
  <2>4. elem[cur] = 0 BY <1>0, <2>1, <2>2 DEF Sound
  <2>. QED BY <1>0, <1>3, <2>1, <2>2, <2>3, <2>4 DEF Flushed, Sound
<1>4. ASSUME NEW q \in Plans, NEW s \in PlanStates, Recorded(q, s) PROVE Sound(p)'
  <2>1. elem[p] > 0 /\ flushes'[p] = flushes[p] /\ KeepsHost(p) BY <1>4 DEF Recorded
  <2>2. CASE p # q BY Zenon, <1>0, <1>4, <2>1, <2>2, RecordedFields DEF KeepsHost, Sound
  <2>3. CASE p = q
    <3>1. disk[p].att /\ disk[p].st \in {"APPROVED", "APPLIED", "VERIFIED", "FAILED_DIRTY"} BY Zenon, <1>0, <2>1 DEF Sound
    <3>2. s \in {"APPLIED", "VERIFIED", "FAILED_DIRTY"}
      BY <1>0, <1>4, <2>1, <2>3, <3>1 DEF Recorded, Lawful, LifecycleTransitionAllowed
    <3>. QED BY Zenon, <1>0, <1>4, <2>1, <2>3, <3>1, <3>2, RecordedFields DEF KeepsHost, Sound
  <2>. QED BY <2>2, <2>3
<1>. QED BY <1>1, <1>2, <1>3, <1>4 DEF Effect

\* No step puts a second plan in flight.
LEMMA FlightStep ==
    ASSUME Types, ControlOK, RecordsOK, FlightOK, StageOK, Effect
    PROVE  FlightOK'
<1>1. CASE Faded \/ Flushed BY Zenon, <1>1 DEF Faded, Flushed, FlightOK, InFlightIn
<1>2. CASE Attempted
  <2>1. cur \in Plans /\ InFlightIn(disk) = {} BY Zenon, <1>2 DEF Attempted, ControlOK, Applying, StageOK
  <2>. QED BY Zenon, <1>2, <2>1, AttemptedFields DEF FlightOK, InFlightIn
<1>3. ASSUME NEW p \in Plans, NEW s \in PlanStates, Recorded(p, s) PROVE FlightOK'
  <2>1. InFlight(s, disk[p].att) => InFlight(disk[p].st, disk[p].att)
    BY <1>3 DEF Recorded, Lawful, LifecycleTransitionAllowed, DecisionStates, RecordsOK, InFlight
  <2>2. InFlightIn(disk') \subseteq InFlightIn(disk)
    BY Zenon, <1>3, <2>1, RecordedFields DEF InFlightIn
  <2>. QED BY <2>2 DEF FlightOK
<1>. QED BY <1>1, <1>2, <1>3 DEF Effect

-----------------------------------------------------------------------------
(* Where the operation that holds the mutex stands.                         *)

Place == ControlOK /\ TodoOK /\ StageOK

\* Memory follows the file.
LEMMA WrittenFields ==
    ASSUME Types, mem = disk, NEW p \in Plans, NEW s \in PlanStates, Written(p, To(p, s))
    PROVE  /\ mem' = disk' /\ UNCHANGED failed
           /\ disk'[p] = [st |-> s, att |-> disk[p].att]
           /\ disk'[p].st = s /\ disk'[p].att = disk[p].att
           /\ \A q \in Plans : q # p => disk'[q] = disk[q]
<1>1. disk[p] \in PlanRecords BY DEF Types, JournalType
<1>2. To(p, s) = [st |-> s, att |-> disk[p].att] BY <1>1, RecordTo DEF To
<1>3. disk'[p] = To(p, s) BY DEF Written, Types, JournalType
<1>4. To(p, s).st = s /\ To(p, s).att = disk[p].att BY <1>2
<1>. QED BY <1>2, <1>3, <1>4 DEF Written

\* With the mutex free, only the trust in memory matters.
LEMMA IdlePlace ==
    ASSUME pc' = "idle", failed' => proc' = "up", ~failed' => mem' = disk', proc' # "opening"
    PROVE  Place'
  BY Zenon DEF Place, ControlOK, TodoOK, StageOK, Applying, BeforeFlush

\* An ApplyNext that ends with an outcome leaves the mutex free,
LEMMA SettlePlace ==
    ASSUME ControlOK, ~failed, proc' = "up", NEW p \in Plans, NEW s \in PlanStates, Settle(p, s)
    PROVE  Place'
<1>1. mem = disk BY DEF ControlOK
<1>2. failed' \/ mem' = disk' BY <1>1 DEF Settle, Written, WriteFails
<1>. QED BY <1>2, IdlePlace DEF Settle, Idle

\* and so does one that ends with an error.
LEMMA WorkerFailsPlace ==
    ASSUME ControlOK, ~failed, proc' = "up", WorkerFails
    PROVE  Place'
  BY IdlePlace DEF ControlOK, WorkerFails, Idle, journal

\* The host and the clocks disturb no operation.
LEMMA FadePlace ==
    ASSUME Place, UNCHANGED <<disk, mem, failed, proc, pc, cur, todo, flushes, manual, sameBoot>>
    PROVE  Place'
<1>1. ControlOK' BY DEF Place, ControlOK
<1>2. TodoOK' BY Zenon DEF Place, TodoOK, InFlightIn, In
<1>3. StageOK' BY Zenon DEF Place, StageOK, InFlightIn, DirtyIn
<1>. QED BY <1>1, <1>2, <1>3 DEF Place

\* Every step leaves the operation where it should be.
LEMMA PlaceStep ==
    ASSUME Types, Place, RecordsOK, [Next]_vars
    PROVE  Place'
<1>. USE DEF journal, op, switch, deadlines, host, kernel
<1>c. ControlOK /\ TodoOK /\ StageOK BY DEF Place
<1>1. ASSUME NEW p \in Plans, Prepare(p) PROVE Place'
  <2>1. ~failed /\ mem = disk BY Zenon, <1>1, <1>c DEF Prepare, Unlocked, ControlOK
  <2>2. failed' \/ mem' = disk' BY <1>1, <2>1, Zenon DEF Prepare, Written, WriteFails
  <2>. QED BY Zenon, <1>1, <2>2, IdlePlace DEF Prepare, Serving
<1>2. ASSUME NEW p \in Plans, NEW s \in DecisionStates, Decide(p, s) PROVE Place'
  <2>1. ~failed /\ mem = disk BY Zenon, <1>2, <1>c DEF Decide, ControlOK
  <2>2. failed' \/ mem' = disk' BY <1>2, <2>1 DEF Decide, Written, WriteFails
  <2>. QED BY Zenon, <1>2, <2>2, IdlePlace DEF Decide, Serving
<1>3. ASSUME NEW enabled \in BOOLEAN, SetManualKillSwitch(enabled) PROVE Place'
  BY Zenon, <1>3, <1>c, IdlePlace DEF SetManualKillSwitch, Serving, ControlOK
<1>4. ASSUME NEW p \in Plans, ApplyBegin(p) PROVE Place'
  <2>1. /\ proc = "up" /\ proc' = "up" /\ ~failed /\ mem = disk /\ ~manual /\ ~manual'
        /\ InFlightIn(disk) = {} /\ DirtyIn(disk) = {} /\ disk[p].st = "APPROVED"
    BY Zenon, <1>4, <1>c DEF ApplyBegin, ApplyUnchanged, Serving, Unlocked, MutationLocked, ControlOK
  <2>2. CASE Settle(p, "REJECTED") \/ Settle(p, "STALE_ABORT") BY Zenon, <1>c, States, <2>1, <2>2, SettlePlace
  <2>3. CASE WorkerFails BY Zenon, <1>c, <2>1, <2>3, WorkerFailsPlace
  <2>4. CASE Begun(p)
    <3>1. disk[p] = [st |-> "APPROVED", att |-> FALSE]
      <4>1. disk[p] \in PlanRecords BY DEF Types, JournalType
      <4>2. ~disk[p].att BY <2>1 DEF InFlightIn, InFlight
      <4>. QED BY <2>1, <4>1, <4>2, RecordFields, Zenon
    <3>2. sameBoot'[p] BY Zenon, <1>4, <2>4 DEF ApplyBegin, ApplyUnchanged, Begun, WindowOpen
    <3>3. ControlOK' BY Zenon, <2>1, <2>4, <3>2 DEF Begun, ControlOK, Applying
    <3>4. TodoOK' BY Zenon, <2>4 DEF Begun, TodoOK
    <3>5. StageOK' BY Zenon, <2>1, <2>4, <3>1 DEF Begun, StageOK, BeforeFlush, InFlightIn, DirtyIn
    <3>. QED BY <3>3, <3>4, <3>5 DEF Place
  <2>. QED BY <1>4, <2>2, <2>3, <2>4, BeginCases
<1>5. ASSUME pc \in Applying
      PROVE  proc = "up" /\ ~failed /\ mem = disk /\ cur \in Plans /\ sameBoot[cur]
  BY <1>5, <1>c DEF ControlOK, Applying
<1>6. CASE ApplyAttempt
  <2>1. /\ proc = "up" /\ proc' = "up" /\ ~failed /\ mem = disk /\ cur \in Plans /\ sameBoot'[cur]
        /\ disk[cur] = [st |-> "APPROVED", att |-> FALSE]
        /\ ~manual' /\ DirtyIn(disk) = {}
    BY Zenon, <1>5, <1>6, <1>c DEF ApplyAttempt, ApplyUnchanged, Applying, StageOK, BeforeFlush
  <2>. DEFINE r == [st |-> "APPROVED", att |-> TRUE]
  <2>2. CASE Settle(cur, "STALE_ABORT") BY Zenon, <1>c, States, <2>1, <2>2, SettlePlace
  <2>3. CASE WorkerFails BY Zenon, <1>c, <2>1, <2>3, WorkerFailsPlace
  <2>4. CASE WriteFails(cur, r) /\ Idle BY Zenon, <2>1, <2>4, IdlePlace DEF WriteFails, Idle
  <2>5. CASE Written(cur, r) /\ pc' = "preflush" /\ UNCHANGED cur
    <3>1. disk' = [disk EXCEPT ![cur] = r] /\ mem' = disk' /\ ~failed' BY Zenon, <2>1, <2>5 DEF Written
    <3>2. ControlOK' BY Zenon, <2>1, <2>5, <3>1 DEF ControlOK, Applying
    <3>3. TodoOK' BY Zenon, <2>5 DEF TodoOK
    <3>4. disk'[cur] = r /\ r.st # "FAILED_DIRTY" BY Zenon, <2>1, <3>1 DEF Types, JournalType
    <3>5. DirtyIn(disk') = {} BY Zenon, <2>1, <3>1, <3>4 DEF DirtyIn, Types, JournalType
    <3>6. flushes'[cur] = 0
      <4>1. ~disk[cur].att BY Zenon, <2>1, RecordParts
      <4>. QED BY Zenon, <1>6, <2>1, <4>1 DEF ApplyAttempt, RecordsOK
    <3>7. StageOK' BY Zenon, <2>1, <2>5, <3>4, <3>5, <3>6 DEF StageOK, BeforeFlush, DirtyIn
    <3>. QED BY <3>2, <3>3, <3>7 DEF Place
  <2>. QED BY Zenon, <1>6, <2>2, <2>3, <2>4, <2>5 DEF ApplyAttempt
<1>7. CASE ApplyPreFlush
  <2>1. /\ proc = "up" /\ proc' = "up" /\ ~failed /\ mem = disk /\ cur \in Plans /\ sameBoot'[cur]
        /\ ~manual' /\ UNCHANGED flushes
    BY Zenon, <1>5, <1>7, <1>c DEF ApplyPreFlush, ApplyUnchanged, Applying, StageOK, BeforeFlush
  <2>2. CASE Settle(cur, "REJECTED") BY <1>c, States, <2>1, <2>2, SettlePlace
  <2>3. CASE WorkerFails BY <1>c, <2>1, <2>3, WorkerFailsPlace
  <2>4. CASE pc' = "flush" /\ UNCHANGED <<cur, todo, ctx, seen, journal, worker>>
    <3>1. ControlOK' /\ TodoOK' BY Zenon, <2>1, <2>4, <1>c DEF ControlOK, TodoOK, Applying
    <3>2. StageOK' BY Zenon, <1>7, <2>1, <2>4, <1>c DEF ApplyPreFlush, StageOK, BeforeFlush, DirtyIn
    <3>. QED BY <3>1, <3>2 DEF Place
  <2>. QED BY Zenon, <1>7, <2>2, <2>3, <2>4 DEF ApplyPreFlush
<1>8. CASE ApplyFlush \/ FlushSend
  <2>1. /\ proc = "up" /\ proc' = "up" /\ ~failed /\ mem = disk /\ cur \in Plans /\ sameBoot'[cur]
        /\ disk[cur] = [st |-> "APPROVED", att |-> TRUE] /\ flushes[cur] = 0
        /\ ~manual' /\ DirtyIn(disk) = {} /\ UNCHANGED flushes
    <3>1. pc \in {"flush", "send"} /\ UNCHANGED <<proc, sameBoot, manual, flushes>>
      BY <1>8, Zenon DEF ApplyFlush, FlushSend, ApplyUnchanged
    <3>2. proc = "up" /\ ~failed /\ mem = disk /\ cur \in Plans /\ sameBoot[cur]
      BY <1>5, <3>1, Zenon DEF Applying
    <3>3. /\ disk[cur] = [st |-> "APPROVED", att |-> TRUE] /\ flushes[cur] = 0
          /\ ~manual /\ DirtyIn(disk) = {}
      BY <1>c, <3>1, Zenon DEF StageOK, BeforeFlush
    <3>. QED BY <3>1, <3>2, <3>3
  <2>2. CASE Settle(cur, "REJECTED") \/ Settle(cur, "FAILED_DIRTY") BY Zenon, <1>c, States, <2>1, <2>2, SettlePlace
  <2>3. CASE WorkerFails BY Zenon, <1>c, <2>1, <2>3, WorkerFailsPlace
  <2>4. CASE pc' \in {"send", "sending"} /\ UNCHANGED <<cur, journal>>
    <3>1. ControlOK' /\ TodoOK' BY Zenon, <2>1, <2>4, <1>c DEF ControlOK, TodoOK, Applying
    <3>2. StageOK' BY Zenon, <2>1, <2>4 DEF StageOK, BeforeFlush, DirtyIn
    <3>. QED BY <3>1, <3>2 DEF Place
  <2>. QED BY Zenon, <1>8, <2>2, <2>3, <2>4 DEF ApplyFlush, FlushSend
<1>23. CASE FlushCommit
  <2>1. /\ proc = "up" /\ proc' = "up" /\ ~failed /\ mem = disk /\ cur \in Plans /\ sameBoot'[cur]
        /\ disk[cur] = [st |-> "APPROVED", att |-> TRUE] /\ flushes[cur] = 0
        /\ flushes' = [flushes EXCEPT ![cur] = @ + 1]
        /\ pc' = "readback" /\ UNCHANGED <<cur, journal>>
    BY Zenon, <1>5, <1>23, <1>c DEF FlushCommit, ApplyUnchanged, Applying, StageOK
  <2>2. ControlOK' /\ TodoOK' BY Zenon, <2>1, <1>c DEF ControlOK, TodoOK, Applying
  <2>3. flushes'[cur] = 1
    <3>1. flushes'[cur] = flushes[cur] + 1 BY Zenon, <2>1 DEF Types, KernelType
    <3>2. 0 + 1 = 1 OBVIOUS
    <3>. QED BY Zenon, <2>1, <3>1, <3>2
  <2>4. StageOK' BY Zenon, <2>1, <2>3 DEF StageOK, BeforeFlush
  <2>. QED BY <2>2, <2>4 DEF Place
<1>9. CASE ApplyReadback
  <2>1. /\ proc = "up" /\ proc' = "up" /\ ~failed /\ mem = disk /\ cur \in Plans /\ sameBoot'[cur]
        /\ UNCHANGED flushes
    BY Zenon, <1>5, <1>9, <1>c DEF ApplyReadback, ApplyUnchanged, Applying
  <2>2. CASE Settle(cur, "FAILED_DIRTY") BY <1>c, States, <2>1, <2>2, SettlePlace
  <2>3. CASE WorkerFails BY <1>c, <2>1, <2>3, WorkerFailsPlace
  <2>4. CASE pc' = "applied" /\ UNCHANGED <<cur, todo, journal, worker>>
    <3>1. ControlOK' /\ TodoOK' BY Zenon, <2>1, <2>4, <1>c DEF ControlOK, TodoOK, Applying
    <3>2. StageOK' BY Zenon, <1>9, <2>1, <2>4, <1>c DEF ApplyReadback, StageOK, BeforeFlush
    <3>. QED BY <3>1, <3>2 DEF Place
  <2>. QED BY Zenon, <1>9, <2>2, <2>3, <2>4 DEF ApplyReadback
<1>10. CASE ApplyApplied
  <2>1. /\ proc = "up" /\ proc' = "up" /\ ~failed /\ mem = disk /\ cur \in Plans /\ sameBoot'[cur]
        /\ disk[cur] = [st |-> "APPROVED", att |-> TRUE]
    BY Zenon, <1>5, <1>10, <1>c DEF ApplyApplied, ApplyUnchanged, Applying, StageOK
  <2>2. CASE WriteFails(cur, To(cur, "APPLIED")) /\ Idle BY <2>1, <2>2, IdlePlace DEF WriteFails, Idle
  <2>3. CASE WorkerFails BY Zenon, <1>c, <2>1, <2>3, WorkerFailsPlace
  <2>4. CASE Written(cur, To(cur, "APPLIED")) /\ pc' = "verify" /\ UNCHANGED cur
    <3>1. mem' = disk' /\ ~failed' /\ disk'[cur] = [st |-> "APPLIED", att |-> TRUE]
      <4>1. disk[cur].att = TRUE BY Zenon, <2>1, RecordParts
      <4>. QED BY States, <2>1, <2>4, <4>1, WrittenFields, Zenon
    <3>2. ControlOK' /\ TodoOK' BY Zenon, <2>1, <2>4, <3>1 DEF ControlOK, TodoOK, Applying
    <3>3. StageOK' BY Zenon, <2>4, <3>1 DEF StageOK, BeforeFlush
    <3>. QED BY <3>2, <3>3 DEF Place
  <2>. QED BY <1>10, <2>2, <2>3, <2>4 DEF ApplyApplied
<1>11. CASE ApplyVerify
  <2>1. proc = "up" /\ proc' = "up" /\ ~failed /\ mem = disk /\ cur \in Plans
    BY Zenon, <1>5, <1>11 DEF ApplyVerify, ApplyUnchanged, Applying
  <2>2. CASE Settle(cur, "VERIFIED") BY <1>c, States, <2>1, <2>2, SettlePlace
  <2>3. CASE WorkerFails BY <1>c, <2>1, <2>3, WorkerFailsPlace
  <2>4. CASE Idle /\ UNCHANGED journal BY <2>1, <2>4, IdlePlace DEF Idle
  <2>. QED BY <1>11, <2>2, <2>3, <2>4 DEF ApplyVerify
<1>12. CASE Open
  <2>1. ~failed /\ mem = disk BY <1>12, <1>c DEF Open, ControlOK
  <2>2. ControlOK' BY <1>12, <2>1 DEF Open, ControlOK, Applying
  <2>3. TodoOK' BY Zenon, <1>12 DEF Open, TodoOK, InFlightIn
  <2>4. StageOK' BY Zenon, <1>12 DEF Open, StageOK, BeforeFlush
  <2>. QED BY <2>2, <2>3, <2>4 DEF Place
<1>13. CASE Down BY <1>13, IdlePlace DEF Down, Idle
<1>o. ASSUME pc \in {"reconcile", "observed"}
      PROVE  proc = "opening" /\ ~failed /\ mem = disk /\ todo = InFlightIn(disk)
  BY <1>o, <1>c, Zenon DEF ControlOK, TodoOK
<1>r. ASSUME NEW p \in todo, pc \in {"reconcile", "observed"}, UNCHANGED proc,
             NEW s \in {"EXPIRED", "REJECTED", "FAILED_DIRTY"}, Reconciled(p, s)
      PROVE  Place'
  <2>0. p \in Plans BY DEF Types, OpType
  <2>1. /\ mem' = disk' /\ ~failed' /\ disk'[p].st = s
        /\ \A q \in Plans : q # p => disk'[q] = disk[q]
    BY States, <1>o, <1>r, <2>0, WrittenFields, Zenon DEF Reconciled
  <2>2. InFlightIn(disk') = InFlightIn(disk) \ {p} BY Zenon, <2>1 DEF InFlightIn, InFlight
  <2>3. ControlOK' BY <1>o, <1>r, <2>1, ZenonT(40) DEF Reconciled, ControlOK, Applying
  <2>4. TodoOK' BY <1>o, <1>r, <2>2, Zenon DEF Reconciled, TodoOK, InFlightIn
  <2>5. StageOK' BY <1>r, Zenon DEF Reconciled, StageOK, BeforeFlush
  <2>. QED BY <2>3, <2>4, <2>5 DEF Place
<1>14. ASSUME NEW p \in Plans, ReconcileOne(p) PROVE Place'
  <2>1. pc = "reconcile" /\ p \in todo /\ UNCHANGED <<proc, sameBoot>>
    BY <1>14, Zenon DEF ReconcileOne, StartUnchanged
  <2>2. CASE Reconciled(p, Gone(p)) BY <1>r, <2>1, <2>2, Zenon DEF Gone
  <2>3. CASE pc' = "observed" /\ cur' = p /\ UNCHANGED <<journal, todo>>
    <3>1. ControlOK' BY Zenon, <1>o, <2>1, <2>3 DEF ControlOK, Applying
    <3>2. TodoOK' BY Zenon, <1>o, <2>1, <2>3 DEF TodoOK, InFlightIn
    <3>3. StageOK' BY Zenon, <2>3 DEF StageOK, BeforeFlush
    <3>. QED BY <3>1, <3>2, <3>3 DEF Place
  <2>. QED BY Zenon, <1>14, <2>2, <2>3 DEF ReconcileOne
<1>24. CASE ReconcileObserved
  <2>h. pc = "observed" /\ UNCHANGED proc BY <1>24, Zenon DEF ReconcileObserved, StartUnchanged
  <2>1. /\ proc = "opening" /\ proc' = "opening" /\ ~failed /\ mem = disk
        /\ todo = InFlightIn(disk) /\ cur \in todo
    BY <1>c, <1>o, <2>h, Zenon DEF TodoOK
  <2>2. CASE Reconciled(cur, Gone(cur)) \/ Reconciled(cur, "FAILED_DIRTY")
    BY <1>r, <2>h, <2>1, <2>2, Zenon DEF Gone
  <2>4. PICK p \in Plans : p = cur BY <2>1 DEF InFlightIn
  <2>3. CASE /\ IF mem[cur].st = "APPROVED" THEN Written(cur, To(cur, "APPLIED")) ELSE UNCHANGED journal
             /\ pc' = "recoververify" /\ UNCHANGED <<cur, todo>>
    <3>1. InFlight(disk[p].st, disk[p].att) /\ disk[p] \in PlanRecords
      BY <2>1, <2>4 DEF InFlightIn, Types, JournalType
    <3>2. disk[p].att = TRUE BY Zenon, <3>1, RecordFields DEF InFlight, RecordsOK
    <3>3. /\ mem' = disk' /\ ~failed' /\ disk'[p] = [st |-> "APPLIED", att |-> TRUE]
          /\ \A q \in Plans : q # p => disk'[q] = disk[q]
      <4>1. CASE disk[p].st = "APPROVED" BY States, <2>1, <2>4, <2>3, <3>2, <4>1, WrittenFields, Zenon
      <4>2. CASE disk[p].st # "APPROVED"
        <5>1. disk[p] = [st |-> "APPLIED", att |-> TRUE] BY <3>1, <3>2, <4>2, RecordFields, ZenonT(40) DEF InFlight
        <5>. QED BY Zenon, <2>1, <2>4, <2>3, <4>2, <5>1
      <4>. QED BY Zenon, <4>1, <4>2
    <3>4. InFlightIn(disk') = InFlightIn(disk)
      <4>1. disk'[p].st = "APPLIED"
        <5>1. \A r : r = [st |-> "APPLIED", att |-> TRUE] => r.st = "APPLIED" BY RecordParts
        <5>. QED BY Zenon, <3>3, <5>1
      <4>. QED BY Zenon, <3>1, <3>3, <4>1 DEF InFlightIn, InFlight
    <3>5. ControlOK' BY Zenon, <2>1, <2>4, <2>3, <3>3 DEF ControlOK, Applying
    <3>6. TodoOK' BY Zenon, <2>1, <2>4, <2>3, <3>3, <3>4 DEF TodoOK
    <3>7. StageOK' BY Zenon, <2>3 DEF StageOK, BeforeFlush
    <3>. QED BY <3>5, <3>6, <3>7 DEF Place
  <2>. QED BY Zenon, <1>24, <2>2, <2>3 DEF ReconcileObserved
<1>15. CASE RecoverVerify
  <2>1. /\ proc = "opening" /\ proc' = "opening" /\ ~failed /\ mem = disk
        /\ todo = InFlightIn(disk) /\ cur \in Plans
    BY <1>15, <1>c, ZenonT(40) DEF RecoverVerify, StartUnchanged, ControlOK, TodoOK
  <2>2. /\ mem' = disk' /\ ~failed' /\ disk'[cur].st = "VERIFIED"
        /\ \A q \in Plans : q # cur => disk'[q] = disk[q]
    BY States, <1>15, <2>1, WrittenFields, Zenon DEF RecoverVerify
  <2>3. InFlightIn(disk') = InFlightIn(disk) \ {cur} BY Zenon, <2>2 DEF InFlightIn, InFlight
  <2>0. pc' = "reconcile" /\ todo' = todo \ {cur} BY <1>15, Zenon DEF RecoverVerify
  <2>4. ControlOK' BY Zenon, <2>0, <2>1, <2>2 DEF ControlOK, Applying
  <2>5. TodoOK' BY Zenon, <2>0, <2>1, <2>3 DEF TodoOK
  <2>6. StageOK' BY <1>15, Zenon DEF RecoverVerify, StageOK, BeforeFlush
  <2>. QED BY <2>4, <2>5, <2>6 DEF Place
<1>16. CASE SweepBegin
  <2>1. ~failed /\ mem = disk /\ proc \in {"opening", "up"}
    BY <1>16, <1>c, Zenon DEF SweepBegin, Serving, ControlOK, TodoOK
  <2>2. ControlOK' BY Zenon, <1>16, <2>1 DEF SweepBegin, ControlOK, Applying
  <2>3. todo' \subseteq In(disk, "PREPARED") \cup In(disk, "VERIFIED")
    BY Zenon, <1>16, <2>1 DEF SweepBegin, Due, In
  <2>4. TodoOK' BY Zenon, <1>16, <2>3 DEF SweepBegin, TodoOK, In
  <2>5. StageOK' BY Zenon, <1>16 DEF SweepBegin, StageOK, BeforeFlush
  <2>. QED BY <2>2, <2>4, <2>5 DEF Place
<1>17. ASSUME NEW p \in Plans, ExpireApproval(p) PROVE Place'
  <2>1. /\ ~failed /\ mem = disk /\ p \in todo /\ pc = "expire"
        /\ todo \subseteq In(disk, "PREPARED") \cup In(disk, "VERIFIED")
    BY Zenon, <1>17, <1>c DEF ExpireApproval, ControlOK, TodoOK
  <2>2. CASE Written(p, To(p, "EXPIRED_UNAPPLIED")) /\ todo' = todo \ {p} /\ UNCHANGED <<proc, pc>>
    <3>1. mem' = disk' /\ ~failed' /\ \A q \in Plans : q # p => disk'[q] = disk[q]
      BY States, <2>1, <2>2, WrittenFields, Zenon
    <3>2. ControlOK' BY Zenon, <1>c, <2>1, <2>2, <3>1 DEF ControlOK, Applying
    <3>3. todo' \subseteq In(disk', "PREPARED") \cup In(disk', "VERIFIED") BY Zenon, <2>1, <2>2, <3>1 DEF In
    <3>4. TodoOK' BY Zenon, <2>1, <2>2, <3>3 DEF TodoOK, In
    <3>5. StageOK' BY Zenon, <2>1, <2>2 DEF StageOK, BeforeFlush
    <3>. QED BY <3>2, <3>4, <3>5 DEF Place
  <2>3. CASE proc = "up" /\ UNCHANGED proc /\ failed' = TRUE /\ pc' = "idle" BY <2>3, IdlePlace
  <2>. QED BY <1>17, <2>2, <2>3, Zenon DEF ExpireApproval, SweptTo, WriteFails, Idle
<1>18. CASE AuditBegin
  <2>1. /\ ~failed /\ mem = disk /\ pc = "expire"
        /\ todo \subseteq In(disk, "PREPARED") \cup In(disk, "VERIFIED")
    BY Zenon, <1>18, <1>c DEF AuditBegin, ControlOK, TodoOK
  <2>2. ControlOK' BY Zenon, <1>18, <1>c, <2>1 DEF AuditBegin, ControlOK, Applying
  <2>3. todo' \subseteq In(disk', "VERIFIED") BY Zenon, <1>18, <2>1 DEF AuditBegin, In
  <2>4. TodoOK' BY Zenon, <1>18, <2>3 DEF AuditBegin, TodoOK, In
  <2>5. StageOK' BY Zenon, <1>18 DEF AuditBegin, StageOK, BeforeFlush
  <2>. QED BY <2>2, <2>4, <2>5 DEF Place
<1>19. ASSUME NEW p \in Plans, AuditOne(p) PROVE Place'
  <2>1. ~failed /\ mem = disk /\ p \in todo /\ pc = "audit" /\ todo \subseteq In(disk, "VERIFIED")
    BY Zenon, <1>19, <1>c DEF AuditOne, ControlOK, TodoOK
  <2>2. ASSUME NEW s \in {"EXPIRED", "FAILED_DIRTY"},
               Written(p, To(p, s)), todo' = todo \ {p}, UNCHANGED <<proc, pc>>
        PROVE  Place'
    <3>1. mem' = disk' /\ ~failed' /\ \A q \in Plans : q # p => disk'[q] = disk[q]
      BY States, <2>1, <2>2, WrittenFields, ZenonT(40)
    <3>2. ControlOK' BY Zenon, <1>c, <2>1, <2>2, <3>1 DEF ControlOK, Applying
    <3>3. todo' \subseteq In(disk', "VERIFIED") BY Zenon, <2>1, <2>2, <3>1 DEF In
    <3>4. TodoOK' BY Zenon, <2>1, <2>2, <3>3 DEF TodoOK, In
    <3>5. StageOK' BY Zenon, <2>1, <2>2 DEF StageOK, BeforeFlush
    <3>. QED BY <3>2, <3>4, <3>5 DEF Place
  <2>3. CASE proc = "up" /\ UNCHANGED proc /\ failed' = TRUE /\ pc' = "idle" BY <2>3, IdlePlace
  <2>. QED BY <1>19, <2>2, <2>3, Zenon DEF AuditOne, SweptTo, WriteFails, Idle
<1>20. CASE SweepAborts \/ SweepEnd
  BY Zenon, <1>20, <1>c, IdlePlace DEF SweepAborts, SweepEnd, Idle, ControlOK
<1>21. ASSUME NEW c \in Containers, ContainerRestart(c) PROVE Place'
  BY Zenon, <1>21, FadePlace DEF ContainerRestart
<1>22. CASE Tick \/ Suspend \/ FaultsCease \/ UNCHANGED vars
  BY Zenon, <1>22, FadePlace DEF Tick, Suspend, FaultsCease, vars
<1>. QED
  BY Zenon, <1>1, <1>2, <1>3, <1>4, <1>6, <1>7, <1>8, <1>9, <1>10, <1>11, <1>12, <1>13, <1>14,
     <1>15, <1>16, <1>17, <1>18, <1>19, <1>20, <1>21, <1>22, <1>23, <1>24
  DEF Next, ApplyStep, StartStep, SweepStep, OpenFails, RecoverVerifyTooLate, Shutdown, Crash, Reboot

=============================================================================
