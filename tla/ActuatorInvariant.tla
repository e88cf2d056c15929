------------------------- MODULE ActuatorInvariant -------------------------
(***************************************************************************)
(* The inductive invariant of the actuator daemon, that every step keeps the *)
(* types and an acknowledged kill switch, and what the containment saga sees *)
(* of a step.  The properties of Actuator speak of the file and the kernel;  *)
(* the invariant ties them to the program counter of the operation that      *)
(* holds the mutex: what ApplyNext has established at each of its steps,     *)
(* what a reconciliation and a sweep still have to do, and why memory may be *)
(* trusted meanwhile.                                                        *)
(***************************************************************************)
EXTENDS Actuator, TLAPS

\* SMT, then Zenon, with time to spare on a slow machine.
USE SMTT(30), ZenonT(20)

-----------------------------------------------------------------------------
(* The inductive invariant.                                                 *)

\* The steps of ApplyNext, and those of them that come before the kernel batch.
Applying == {"attempt", "preflush", "flush", "send", "sending", "readback", "applied", "verify"}
BeforeFlush == {"attempt", "preflush", "flush", "send", "sending"}

\* The denies in force other than that of p.
LiveOthers(p) == {q \in Plans \ {p} : elem[q] > 0}

\* Memory is the file unless an append failed, after which nothing is started until the
\* process ends; who holds the mutex is of the phase the process is in.
ControlOK ==
    /\ failed => proc = "up" /\ pc = "idle"
    /\ ~failed => mem = disk
    /\ proc = "down" => pc = "idle"
    /\ proc = "opening" => pc \in {"reconcile", "observed", "recoververify", "expire", "audit"}
    /\ pc \in Applying => proc = "up" /\ cur \in Plans /\ sameBoot[cur]

\* What a reconciliation and a sweep have left to do is what the file says.
TodoOK ==
    /\ pc \in {"reconcile", "observed", "recoververify"} =>
          proc = "opening" /\ todo = InFlightIn(disk)
    /\ pc = "observed" => cur \in todo
    /\ pc = "recoververify" => cur \in Plans /\ disk[cur] = [st |-> "APPLIED", att |-> TRUE]
    /\ pc = "expire" => todo \subseteq In(disk, "PREPARED") \cup In(disk, "VERIFIED")
    /\ pc = "audit" => todo \subseteq In(disk, "VERIFIED")

\* The attempt, the batch and the states of a plan go together.
RecordsOK ==
    \A p \in Plans :
        /\ disk[p].st \in {"none", "PREPARED", "STALE_ABORT", "EXPIRED_UNAPPLIED"} => ~disk[p].att
        /\ disk[p].st \in {"APPLIED", "VERIFIED", "EXPIRED", "FAILED_DIRTY"} => disk[p].att
        /\ disk[p].st \in {"APPLIED", "VERIFIED"} => flushes[p] = 1
        /\ flushes[p] \in {0, 1}
        /\ flushes[p] = 1 => disk[p].att

\* A deny in force was sent, in the boot and the container generation of its plan.
KernelOK ==
    /\ DenyIsAccounted
    /\ \A p \in Plans : elem[p] > 0 => flushes[p] = 1 /\ sameBoot[p] /\ sameGen[p]

\* One plan at a time is in flight.
FlightOK == \A p, q \in InFlightIn(disk) : p = q

\* What ApplyNext has established at its steps.
StageOK ==
    /\ pc = "attempt" => disk[cur] = [st |-> "APPROVED", att |-> FALSE] /\ InFlightIn(disk) = {}
    /\ pc \in {"preflush", "flush", "send", "sending"} =>
          disk[cur] = [st |-> "APPROVED", att |-> TRUE] /\ flushes[cur] = 0
    /\ pc \in {"readback", "applied"} =>
          disk[cur] = [st |-> "APPROVED", att |-> TRUE] /\ flushes[cur] = 1
    /\ pc = "verify" => disk[cur] = [st |-> "APPLIED", att |-> TRUE]
    /\ pc \in BeforeFlush => ~manual /\ DirtyIn(disk) = {}

\* The room for one more deny, checked in memory, is there in the kernel.
RoomOK ==
    pc \in BeforeFlush =>
        /\ Cardinality(LiveOthers(cur)) < MaxActive
        /\ \A q \in Plans : Target[q] = Target[cur] => elem[q] = 0

\* A switch whose file may differ is on.
SwitchOK ==
    /\ KillSwitchSticks
    /\ exact => manual = file
    /\ ~exact => manual

\* A readback bounds what is left of the element it found, which was sent.
SeenOK ==
    pc \in {"applied", "observed"} => elem[cur] <= seen /\ (seen > 0 => flushes[cur] = 1)

\* The window of recovery, for constants that leave room.  What is left of it covers what is
\* left of the socket's deadline and the timeout of the element, then what is left for the
\* process to be prompt; a deny that was sent promptly keeps Stall of it in reserve, which
\* the readback of the recovery may use up.
WindowOK ==
    WindowFits =>
        /\ \A p \in Plans \ late : elem[p] > 0 => elem[p] + Stall <= legitLeft[p]
        /\ pc \in {"preflush", "flush", "send"} /\ ctx.io > 0 =>
              ctx.io + ApplyTimeout + TTL <= legitLeft[cur] + IoTimeout
        /\ pc = "sending" /\ ctx.hold > 0 => ctx.hold + Stall + TTL <= legitLeft[cur]
        /\ pc = "observed" /\ cur \notin late /\ seen > 0 /\ ctx.hold > 0 =>
              seen + ctx.hold <= legitLeft[cur] + 1

\* The audit deadlines, on a host that does not suspend.
AuditOK ==
    SuspendAllowed \/
        /\ \A p \in Plans : disk[p].st = "VERIFIED" => elem[p] <= auditLeft[p]
        /\ pc \in {"verify", "recoververify"} => elem[cur] <= auditLeft[cur]

\* All of it but the limits on denies, which need the finiteness of sets.
Core == TypeOK /\ ControlOK /\ TodoOK /\ RecordsOK /\ KernelOK /\ FlightOK /\ StageOK

IInv == Core /\ SwitchOK /\ SeenOK /\ WindowOK /\ AuditOK /\ RoomOK /\ ContainmentLimits

-----------------------------------------------------------------------------
(* Types.                                                                   *)

\* The fields of a record given as a whole.
LEMMA RecordParts ==
    ASSUME NEW s, NEW b, NEW r, r = [st |-> s, att |-> b]
    PROVE  r.st = s /\ r.att = b
  OBVIOUS

\* A record built at once.
LEMMA RecordNew ==
    ASSUME NEW s \in PlanStates, NEW b \in BOOLEAN
    PROVE  [st |-> s, att |-> b] \in PlanRecords
  BY DEF PlanRecords

\* A record with another state.
LEMMA RecordTo ==
    ASSUME NEW r \in PlanRecords, NEW s \in PlanStates
    PROVE  /\ [r EXCEPT !.st = s] \in PlanRecords
           /\ [r EXCEPT !.st = s] = [st |-> s, att |-> r.att]
  BY DEF PlanRecords

\* A record with another attempt.
LEMMA RecordAttempt ==
    ASSUME NEW r \in PlanRecords, NEW b \in BOOLEAN
    PROVE  [r EXCEPT !.att = b] = [st |-> r.st, att |-> b]
  BY DEF PlanRecords

\* The fields of a record, which determine it.
LEMMA RecordFields ==
    ASSUME NEW r \in PlanRecords
    PROVE  r.st \in PlanStates /\ r.att \in BOOLEAN /\ r = [st |-> r.st, att |-> r.att]
  BY DEF PlanRecords

\* Deadlines built at once,
LEMMA DeadlinesNew ==
    ASSUME NEW a \in 0..ApplyTimeout, NEW i \in 0..IoTimeout, NEW h \in 0..(Stall + 1)
    PROVE  /\ [apply |-> a, io |-> i, hold |-> h] \in Deadlines
           /\ [apply |-> a, io |-> i, hold |-> h].io = i
           /\ [apply |-> a, io |-> i, hold |-> h].hold = h
  BY DEF Deadlines

\* with another hold,
LEMMA DeadlinesHold ==
    ASSUME NEW d \in Deadlines, NEW h \in 0..(Stall + 1)
    PROVE  /\ [d EXCEPT !.hold = h] \in Deadlines
           /\ [d EXCEPT !.hold = h].io = d.io /\ [d EXCEPT !.hold = h].hold = h
  BY DEF Deadlines

\* and the fields of any.
LEMMA DeadlinesFields ==
    ASSUME NEW d \in Deadlines
    PROVE  d.apply \in 0..ApplyTimeout /\ d.io \in 0..IoTimeout /\ d.hold \in 0..(Stall + 1)
  BY DEF Deadlines

\* There are deadlines that have passed.
LEMMA NoDeadlineType == NoDeadline \in Deadlines
  BY ActuatorConstants DEF Deadlines, NoDeadline

\* The types of the groups of variables: the journal, the operation that holds the mutex, the
\* flags of the process, the deadlines, the host and the kernel.
JournalType == disk \in [Plans -> PlanRecords] /\ mem \in [Plans -> PlanRecords] /\ failed \in BOOLEAN
OpType ==
    /\ pc \in PCs /\ cur \in Plans \cup {0} /\ todo \subseteq Plans
    /\ ctx \in Deadlines /\ seen \in 0..TTL
FlagType ==
    /\ proc \in {"down", "opening", "up"}
    /\ worker \in BOOLEAN /\ uncertain \in BOOLEAN /\ calm \in BOOLEAN
    /\ manual \in BOOLEAN /\ exact \in BOOLEAN /\ file \in BOOLEAN /\ acked \in BOOLEAN
TimeType ==
    /\ apprLeft \in [Plans -> 0..ApprovalTTL]
    /\ legitLeft \in [Plans -> 0..(ApplyTimeout + TTL)]
    /\ auditLeft \in [Plans -> 0..(TTL + AuditSlack)]
HostType ==
    /\ sameBoot \in [Plans -> BOOLEAN] /\ sameGen \in [Plans -> BOOLEAN]
KernelType ==
    /\ elem \in [Plans -> 0..TTL]
    /\ flushes \in [Plans -> Nat] /\ late \subseteq Plans

\* The types of the groups of variables, which are those of TypeOK.
Types == JournalType /\ OpType /\ FlagType /\ TimeType /\ HostType /\ KernelType

\* The groups together are the type invariant, before a step and after it.
LEMMA TypesAre == (TypeOK <=> Types) /\ (TypeOK <=> Types)'
  BY DEF TypeOK, Types, JournalType, OpType, FlagType, TimeType, HostType, KernelType

\* An append, done or failed, keeps the types of the journal.
LEMMA AppendTypes ==
    ASSUME Types, NEW p \in Plans, NEW r \in PlanRecords, Written(p, r) \/ WriteFails(p, r)
    PROVE  JournalType'
  BY Zenon DEF Types, JournalType, Written, WriteFails

\* What an outcome would record is a record.
LEMMA ToType ==
    ASSUME Types, NEW p \in Plans, NEW s \in PlanStates
    PROVE  To(p, s) \in PlanRecords
  BY RecordTo, Zenon DEF Types, JournalType, To

\* A released mutex is well typed.
LEMMA IdleType == ASSUME Idle PROVE OpType'
  BY NoDeadlineType, ActuatorConstants DEF Idle, OpType, PCs

\* So is the end of ApplyNext with an outcome,
LEMMA SettleType ==
    ASSUME Types, NEW p \in Plans, NEW s \in PlanStates, Settle(p, s)
    PROVE  JournalType' /\ OpType' /\ worker' \in BOOLEAN
  BY ToType, AppendTypes, IdleType, Zenon DEF Settle, Types, FlagType

\* and its end with an error.
LEMMA WorkerFailsType ==
    ASSUME Types, WorkerFails
    PROVE  JournalType' /\ OpType' /\ worker' \in BOOLEAN
  BY IdleType, Zenon DEF WorkerFails, Types, JournalType, journal

\* How ApplyNext may begin: with an outcome at once, with an error, or with the attempt.
Begun(p) ==
    /\ WindowOpen(p) /\ \E outdated \in BOOLEAN : ActiveContainmentAllowed(p, outdated)
    /\ \A q \in Plans : Target[q] = Target[p] => elem[q] = 0
    /\ pc' = "attempt" /\ cur' = p
    /\ \E left \in 0..IoTimeout : ctx' = [apply |-> ApplyTimeout, io |-> left, hold |-> 0]
    /\ UNCHANGED <<journal, worker, todo, seen>>

\* There is no other way to begin.
LEMMA BeginCases ==
    ASSUME NEW p \in Plans, ApplyBegin(p)
    PROVE  Settle(p, "REJECTED") \/ Settle(p, "STALE_ABORT") \/ WorkerFails \/ Begun(p)
<1>1. PICK outdated \in BOOLEAN :
          \/ ~ActiveContainmentAllowed(p, outdated) /\ Settle(p, "REJECTED")
          \/ /\ ActiveContainmentAllowed(p, outdated)
             /\ \/ Settle(p, "STALE_ABORT")
                \/ WindowOpen(p) /\ Settle(p, "REJECTED")
                \/ WorkerFails
                \/ /\ WindowOpen(p) /\ sameGen[p]
                   /\ \A q \in Plans : Target[q] = Target[p] => elem[q] = 0
                   /\ pc' = "attempt" /\ cur' = p
                   /\ \E left \in 0..IoTimeout :
                         ctx' = [apply |-> ApplyTimeout, io |-> left, hold |-> 0]
                   /\ UNCHANGED <<journal, worker, todo, seen>>
  BY Zenon DEF ApplyBegin
<1>. QED BY <1>1 DEF Begun

\* A process that is gone is well typed.
LEMMA DownType ==
    ASSUME Types, Down
    PROVE  JournalType' /\ OpType' /\ proc' = "down" /\ worker' = FALSE /\ uncertain' = FALSE
  BY IdleType, Zenon DEF Down, Types, JournalType

\* So is a record of the sweeper, done or failed.
LEMMA SweptType ==
    ASSUME Types, NEW p \in Plans, NEW s \in PlanStates, SweptTo(p, s)
    PROVE  JournalType' /\ OpType' /\ UNCHANGED <<proc, worker, uncertain>>
<1>1. JournalType' BY ToType, AppendTypes DEF SweptTo
<1>2. OpType' BY IdleType DEF SweptTo, Types, OpType
<1>. QED BY <1>1, <1>2 DEF SweptTo

\* The states that the steps record.
LEMMA States ==
    /\ \A s \in {"PREPARED", "APPROVED", "REJECTED", "STALE_ABORT", "EXPIRED_UNAPPLIED",
                  "FAILED_DIRTY", "APPLIED", "VERIFIED", "EXPIRED"} : s \in PlanStates
    /\ \A s \in DecisionStates : s \in PlanStates /\ s # "VERIFIED"
  BY DEF PlanStates, DecisionStates

\* Every step keeps the types, given that an operation about one plan has one.
LEMMA TypeStep ==
    ASSUME Types, ControlOK, TodoOK, [Next]_vars
    PROVE  Types'
<1>. USE DEF journal, op, switch, deadlines, host, kernel
<1>1. JournalType /\ OpType /\ FlagType /\ TimeType /\ HostType /\ KernelType
  BY DEF Types
<1>2. ASSUME NEW p \in Plans, NEW s \in DecisionStates, Decide(p, s) PROVE Types'
  <2>0. s \in PlanStates BY States
  <2>1. JournalType' BY <2>0, <1>2, <1>1, ToType, AppendTypes DEF Decide
  <2>2. OpType' BY <1>2, <1>1 DEF Decide, OpType
  <2>3. FlagType' BY <1>2, <1>1 DEF Decide, FlagType
  <2>4. TimeType' /\ HostType' /\ KernelType' BY <1>2, <1>1 DEF Decide, TimeType, HostType, KernelType
  <2>. QED BY <2>1, <2>2, <2>3, <2>4 DEF Types
<1>4. ASSUME NEW p \in Plans, ApplyBegin(p) PROVE Types'
  <2>1. JournalType' /\ OpType' /\ worker' \in BOOLEAN
    <3>1. CASE Settle(p, "REJECTED") \/ Settle(p, "STALE_ABORT") BY <3>1, States, SettleType
    <3>2. CASE WorkerFails BY <3>2, WorkerFailsType
    <3>3. CASE Begun(p)
      <4>1. ctx' \in Deadlines BY <3>3, DeadlinesNew, ActuatorConstants DEF Begun
      <4>. QED BY <3>3, <1>1, <4>1 DEF Begun, JournalType, OpType, FlagType, PCs
    <3>. QED BY <1>4, <3>1, <3>2, <3>3, BeginCases
  <2>3. FlagType' BY <1>4, <1>1, <2>1 DEF ApplyBegin, ApplyUnchanged, FlagType
  <2>4. TimeType' /\ HostType' /\ KernelType' BY <1>4, <1>1 DEF ApplyBegin, ApplyUnchanged, TimeType, HostType, KernelType
  <2>. QED BY <2>1, <2>3, <2>4 DEF Types
<1>5. CASE ApplyAttempt
  <2>. DEFINE r == [st |-> "APPROVED", att |-> TRUE]
  <2>0. cur \in Plans /\ r \in PlanRecords BY <1>5, States, RecordNew, Zenon DEF ApplyAttempt, ControlOK, Applying
  <2>. HIDE DEF r
  <2>1. JournalType' /\ OpType' /\ worker' \in BOOLEAN
    <3>1. CASE Settle(cur, "STALE_ABORT") BY <2>0, <3>1, States, SettleType
    <3>2. CASE WorkerFails BY <3>2, WorkerFailsType
    <3>3. CASE Written(cur, r) /\ pc' = "preflush" /\ UNCHANGED <<cur, todo, ctx, seen, worker>>
      BY <2>0, <3>3, <1>1, AppendTypes DEF OpType, FlagType, PCs
    <3>4. CASE WriteFails(cur, r) /\ Idle /\ worker' = FALSE BY <3>4, <2>0, AppendTypes, IdleType, Zenon
    <3>. QED BY <1>5, <3>1, <3>2, <3>3, <3>4, Zenon DEF ApplyAttempt, r
  <2>3. FlagType' BY <1>5, <1>1, <2>1 DEF ApplyAttempt, ApplyUnchanged, FlagType
  <2>4. TimeType' BY <1>5, <1>1, ActuatorConstants DEF ApplyAttempt, TimeType
  <2>5. HostType' /\ KernelType' BY <1>5, <1>1 DEF ApplyAttempt, ApplyUnchanged, HostType, KernelType
  <2>. QED BY <2>1, <2>3, <2>4, <2>5 DEF Types
<1>6. CASE ApplyPreFlush
  <2>0. cur \in Plans BY Zenon, <1>6 DEF ApplyPreFlush, ControlOK, Applying
  <2>1. JournalType' /\ OpType' /\ worker' \in BOOLEAN
    <3>1. CASE Settle(cur, "REJECTED") BY <2>0, <3>1, States, SettleType
    <3>2. CASE WorkerFails BY <3>2, WorkerFailsType
    <3>3. CASE pc' = "flush" /\ UNCHANGED <<cur, todo, ctx, seen, journal, worker>>
      BY <3>3, <1>1 DEF JournalType, OpType, FlagType, PCs
    <3>. QED BY <1>6, <3>1, <3>2, <3>3 DEF ApplyPreFlush
  <2>3. FlagType' BY <1>6, <1>1, <2>1 DEF ApplyPreFlush, ApplyUnchanged, FlagType
  <2>4. TimeType' /\ HostType' /\ KernelType'
    BY <1>6, <1>1 DEF ApplyPreFlush, ApplyUnchanged, TimeType, HostType, KernelType
  <2>. QED BY <2>1, <2>3, <2>4 DEF Types
<1>h. ASSUME NEW d \in Deadlines
      PROVE  [d EXCEPT !.hold = Stall + 1] \in Deadlines /\ [d EXCEPT !.hold = 0] \in Deadlines
  BY DeadlinesHold, ActuatorConstants
<1>7. CASE ApplyFlush \/ FlushSend
  <2>0. cur \in Plans BY Zenon, <1>7 DEF ApplyFlush, FlushSend, ControlOK, Applying
  <2>1. JournalType' /\ OpType' /\ worker' \in BOOLEAN
    <3>1. CASE Settle(cur, "REJECTED") \/ Settle(cur, "FAILED_DIRTY") BY <2>0, <3>1, States, SettleType
    <3>2. CASE WorkerFails BY <3>2, WorkerFailsType
    <3>3. CASE /\ pc' \in {"send", "sending"} /\ ctx' \in {ctx, [ctx EXCEPT !.hold = Stall + 1]}
               /\ UNCHANGED <<cur, todo, seen, journal, worker>>
      <4>1. ctx' \in Deadlines BY <3>3, <1>1, <1>h DEF OpType
      <4>. QED BY <3>3, <1>1, <4>1 DEF JournalType, OpType, FlagType, PCs
    <3>. QED BY <1>7, <3>1, <3>2, <3>3 DEF ApplyFlush, FlushSend
  <2>3. FlagType' BY Zenon, <1>7, <1>1, <2>1 DEF ApplyFlush, FlushSend, ApplyUnchanged, FlagType
  <2>4. TimeType' /\ HostType' /\ KernelType'
    BY Zenon, <1>7, <1>1 DEF ApplyFlush, FlushSend, ApplyUnchanged, TimeType, HostType, KernelType
  <2>. QED BY <2>1, <2>3, <2>4 DEF Types
<1>27. CASE FlushCommit
  <2>0. cur \in Plans BY <1>27 DEF FlushCommit, ControlOK, Applying
  <2>1. JournalType' /\ OpType' /\ worker' \in BOOLEAN
    <3>1. ctx' \in Deadlines BY <1>27, <1>1, <1>h DEF FlushCommit, OpType
    <3>. QED BY <1>27, <1>1, <3>1 DEF FlushCommit, JournalType, OpType, FlagType, PCs
  <2>3. FlagType' BY <1>27, <1>1, <2>1 DEF FlushCommit, ApplyUnchanged, FlagType
  <2>4. TimeType' /\ HostType'
    BY <1>27, <1>1 DEF FlushCommit, ApplyUnchanged, TimeType, HostType
  <2>5. KernelType'
    <3>1. TTL \in 0..TTL /\ \A p \in Plans : flushes[p] + 1 \in Nat
      BY <1>1, ActuatorConstants DEF KernelType
    <3>2. elem' \in [Plans -> 0..TTL] /\ late' \subseteq Plans
      BY <1>27, <1>1, <2>0, <3>1 DEF FlushCommit, KernelType
    <3>3. flushes' \in [Plans -> Nat] BY <1>27, <1>1, <2>0, <3>1 DEF FlushCommit, KernelType
    <3>. QED BY <3>2, <3>3 DEF KernelType
  <2>. QED BY <2>1, <2>3, <2>4, <2>5 DEF Types
<1>8. CASE ApplyReadback
  <2>0. cur \in Plans BY <1>8 DEF ApplyReadback, ControlOK, Applying
  <2>1. JournalType' /\ OpType' /\ worker' \in BOOLEAN
    <3>1. CASE Settle(cur, "FAILED_DIRTY") BY <2>0, <3>1, States, SettleType
    <3>2. CASE WorkerFails BY <3>2, WorkerFailsType
    <3>3. CASE /\ pc' = "applied" /\ seen' = elem[cur] /\ ctx' = NoDeadline
               /\ UNCHANGED <<cur, todo, journal, worker>>
      BY <2>0, <3>3, <1>1, NoDeadlineType DEF JournalType, OpType, FlagType, KernelType, PCs
    <3>. QED BY <1>8, <3>1, <3>2, <3>3 DEF ApplyReadback
  <2>3. FlagType' BY Zenon, <1>8, <1>1, <2>1 DEF ApplyReadback, ApplyUnchanged, FlagType
  <2>4. TimeType' /\ HostType' /\ KernelType'
    BY <1>8, <1>1 DEF ApplyReadback, ApplyUnchanged, TimeType, HostType, KernelType
  <2>. QED BY <2>1, <2>3, <2>4 DEF Types
<1>9. CASE ApplyApplied
  <2>0. cur \in Plans BY <1>9 DEF ApplyApplied, ControlOK, Applying
  <2>1. JournalType' /\ OpType' /\ worker' \in BOOLEAN
    <3>0. To(cur, "APPLIED") \in PlanRecords BY <2>0, States, ToType
    <3>1. CASE /\ Written(cur, To(cur, "APPLIED"))
               /\ pc' = "verify" /\ seen' = 0 /\ UNCHANGED <<cur, todo, ctx, worker>>
      BY <2>0, <3>0, <3>1, <1>1, AppendTypes, ActuatorConstants DEF OpType, FlagType, PCs
    <3>2. CASE WorkerFails BY <3>2, WorkerFailsType
    <3>3. CASE WriteFails(cur, To(cur, "APPLIED")) /\ Idle /\ worker' = FALSE
      BY <2>0, <3>0, <3>3, AppendTypes, IdleType, Zenon
    <3>. QED BY <1>9, <3>1, <3>2, <3>3, Zenon DEF ApplyApplied
  <2>3. FlagType' BY <1>9, <1>1, <2>1 DEF ApplyApplied, ApplyUnchanged, FlagType
  <2>4. TimeType' BY <1>9, <1>1, <2>0, ActuatorConstants DEF ApplyApplied, AuditDelta, TimeType, OpType
  <2>5. HostType' /\ KernelType'
    BY Zenon, <1>9, <1>1 DEF ApplyApplied, ApplyUnchanged, HostType, KernelType
  <2>. QED BY <2>1, <2>3, <2>4, <2>5 DEF Types
<1>10. CASE ApplyVerify
  <2>0. cur \in Plans BY <1>10 DEF ApplyVerify, ControlOK, Applying
  <2>1. JournalType' /\ OpType' /\ worker' \in BOOLEAN
    <3>1. CASE Settle(cur, "VERIFIED") BY <2>0, <3>1, States, SettleType
    <3>2. CASE WorkerFails BY <3>2, WorkerFailsType
    <3>3. CASE worker' = FALSE /\ Idle /\ UNCHANGED journal
      BY <3>3, <1>1, IdleType, Zenon DEF JournalType
    <3>. QED BY <1>10, <3>1, <3>2, <3>3, Zenon DEF ApplyVerify
  <2>3. FlagType' BY Zenon, <1>10, <1>1, <2>1 DEF ApplyVerify, ApplyUnchanged, FlagType
  <2>4. TimeType' /\ HostType' /\ KernelType'
    BY <1>10, <1>1 DEF ApplyVerify, ApplyUnchanged, TimeType, HostType, KernelType
  <2>. QED BY <2>1, <2>3, <2>4 DEF Types
<1>11. CASE Open
  <2>1. JournalType' /\ TimeType' /\ HostType' /\ KernelType'
    BY Zenon, <1>11, <1>1 DEF Open, JournalType, TimeType, HostType, KernelType
  <2>2. OpType' BY <1>11, <1>1 DEF Open, OpType, PCs, InFlightIn
  <2>3. FlagType' BY <1>11, <1>1, Zenon DEF Open, FlagType
  <2>. QED BY <2>1, <2>2, <2>3 DEF Types
<1>12. CASE Down /\ UNCHANGED <<switch, deadlines, host, kernel, calm>>
  BY <1>12, <1>1, DownType, ZenonT(40) DEF Types, FlagType, TimeType, HostType, KernelType
<1>r. ASSUME NEW p \in Plans, NEW s \in PlanStates, Reconciled(p, s) PROVE JournalType' /\ OpType'
  <2>1. JournalType' BY <1>r, ToType, AppendTypes DEF Reconciled
  <2>2. OpType' BY <1>r, <1>1, NoDeadlineType, ActuatorConstants DEF Reconciled, OpType, PCs
  <2>. QED BY <2>1, <2>2
<1>g. \A p \in Plans : Gone(p) \in PlanStates BY States DEF Gone
<1>13. ASSUME NEW p \in Plans, ReconcileOne(p) PROVE Types'
  <2>1. JournalType' /\ OpType'
    <3>1. CASE Reconciled(p, Gone(p)) BY <3>1, <1>r, <1>g
    <3>2. CASE /\ pc' = "observed" /\ cur' = p /\ seen' = elem[p]
               /\ ctx' = [ctx EXCEPT !.hold = Stall + 1] /\ UNCHANGED <<journal, todo>>
      <4>1. ctx' \in Deadlines BY <3>2, <1>1, <1>h DEF OpType
      <4>. QED BY <3>2, <1>1, <4>1 DEF JournalType, OpType, KernelType, PCs
    <3>. QED BY Zenon, <1>13, <3>1, <3>2 DEF ReconcileOne
  <2>3. FlagType' BY <1>13, <1>1, Zenon DEF ReconcileOne, StartUnchanged, FlagType
  <2>4. TimeType' /\ HostType' /\ KernelType'
    BY <1>13, <1>1, Zenon DEF ReconcileOne, StartUnchanged, TimeType, HostType, KernelType
  <2>. QED BY <2>1, <2>3, <2>4 DEF Types
<1>28. CASE ReconcileObserved
  <2>0. cur \in Plans BY Zenon, <1>28, <1>1 DEF ReconcileObserved, TodoOK, OpType
  <2>1. JournalType' /\ OpType'
    <3>1. CASE Reconciled(cur, Gone(cur)) \/ Reconciled(cur, "FAILED_DIRTY")
      BY <2>0, <3>1, <1>r, <1>g, States
    <3>2. CASE /\ IF mem[cur].st = "APPROVED" THEN Written(cur, To(cur, "APPLIED")) ELSE UNCHANGED journal
               /\ pc' = "recoververify" /\ ctx' = NoDeadline /\ seen' = 0 /\ UNCHANGED <<cur, todo>>
      <4>1. JournalType' BY <2>0, <3>2, <1>1, States, ToType, AppendTypes, Zenon DEF JournalType
      <4>2. OpType' BY <3>2, <1>1, NoDeadlineType, ActuatorConstants DEF OpType, PCs
      <4>. QED BY <4>1, <4>2
    <3>. QED BY Zenon, <1>28, <3>1, <3>2 DEF ReconcileObserved
  <2>3. FlagType' BY <1>28, <1>1, Zenon DEF ReconcileObserved, StartUnchanged, FlagType
  <2>4. TimeType'
    BY <1>28, <1>1, <2>0, ActuatorConstants DEF ReconcileObserved, AuditDelta, TimeType, OpType
  <2>5. HostType' /\ KernelType'
    BY <1>28, <1>1, Zenon DEF ReconcileObserved, StartUnchanged, HostType, KernelType
  <2>. QED BY <2>1, <2>3, <2>4, <2>5 DEF Types
<1>14. CASE RecoverVerify
  <2>0. cur \in Plans BY Zenon, <1>14 DEF RecoverVerify, TodoOK
  <2>1. JournalType' BY <1>14, <2>0, States, ToType, AppendTypes DEF RecoverVerify
  <2>2. OpType' BY <1>14, <1>1 DEF RecoverVerify, OpType, PCs
  <2>3. FlagType' BY <1>14, <1>1 DEF RecoverVerify, StartUnchanged, FlagType
  <2>4. TimeType' /\ HostType' /\ KernelType'
    BY Zenon, <1>14, <1>1 DEF RecoverVerify, StartUnchanged, TimeType, HostType, KernelType
  <2>. QED BY <2>1, <2>2, <2>3, <2>4 DEF Types
<1>15. CASE SweepBegin
  <2>1. OpType' BY Zenon, <1>15, <1>1 DEF SweepBegin, OpType, PCs, Due, In
  <2>2. JournalType' /\ FlagType' BY <1>15, <1>1 DEF SweepBegin, JournalType, FlagType
  <2>3. TimeType' /\ HostType' /\ KernelType'
    BY <1>15, <1>1 DEF SweepBegin, TimeType, HostType, KernelType
  <2>. QED BY <2>1, <2>2, <2>3 DEF Types
<1>16. ASSUME NEW p \in Plans, ExpireApproval(p) \/ AuditOne(p) PROVE Types'
  <2>1. JournalType' /\ OpType' /\ UNCHANGED <<proc, worker, uncertain>>
    BY Zenon, <1>16, States, SweptType DEF ExpireApproval, AuditOne
  <2>2. FlagType' BY <1>16, <2>1, <1>1 DEF ExpireApproval, AuditOne, FlagType
  <2>3. TimeType' /\ HostType' /\ KernelType'
    BY <1>16, <1>1 DEF ExpireApproval, AuditOne, TimeType, HostType, KernelType
  <2>. QED BY <2>1, <2>2, <2>3 DEF Types
<1>17. CASE AuditBegin
  <2>1. OpType' BY <1>17, <1>1 DEF AuditBegin, OpType, PCs
  <2>2. JournalType' /\ FlagType' BY <1>17, <1>1 DEF AuditBegin, JournalType, FlagType
  <2>3. TimeType' /\ HostType' /\ KernelType'
    BY <1>17, <1>1 DEF AuditBegin, TimeType, HostType, KernelType
  <2>. QED BY <2>1, <2>2, <2>3 DEF Types
<1>18. CASE SweepAborts \/ SweepEnd
  <2>1. OpType' BY <1>18, IdleType DEF SweepAborts, SweepEnd
  <2>2. JournalType' BY <1>18, <1>1 DEF SweepAborts, SweepEnd, JournalType
  <2>3. FlagType' BY <1>18, <1>1, Zenon DEF SweepAborts, SweepEnd, FlagType
  <2>4. TimeType' /\ HostType' /\ KernelType'
    BY Zenon, <1>18, <1>1 DEF SweepAborts, SweepEnd, TimeType, HostType, KernelType
  <2>. QED BY <2>1, <2>2, <2>3, <2>4 DEF Types
<1>19. CASE Reboot
  <2>1. HostType' BY <1>19 DEF Reboot, HostType
  <2>2. KernelType' BY <1>19, <1>1, ActuatorConstants DEF Reboot, KernelType
  <2>3. FlagType' /\ TimeType' BY <1>19, <1>1, DownType DEF Reboot, FlagType, TimeType
  <2>. QED BY <1>19, <2>1, <2>2, <2>3, DownType DEF Reboot, Types
<1>20. ASSUME NEW c \in Containers, ContainerRestart(c) PROVE Types'
  <2>1. HostType' BY <1>20, <1>1 DEF ContainerRestart, HostType
  <2>2. KernelType' BY <1>20, <1>1, ActuatorConstants DEF ContainerRestart, KernelType
  <2>3. JournalType' /\ OpType' /\ FlagType' /\ TimeType'
    BY <1>20, <1>1 DEF ContainerRestart, JournalType, OpType, FlagType, TimeType
  <2>. QED BY <2>1, <2>2, <2>3 DEF Types
<1>21. ASSUME BootClockTicks PROVE TimeType'
  BY <1>21, <1>1, ActuatorConstants DEF BootClockTicks, Earlier, Sooner, TimeType
<1>22. CASE Tick
  <2>0. ctx' \in Deadlines
    <3>1. ctx \in Deadlines BY <1>1 DEF OpType
    <3>2. /\ Sooner(ctx.apply) \in 0..ApplyTimeout /\ Sooner(ctx.io) \in 0..IoTimeout
          /\ Sooner(ctx.hold) \in 0..(Stall + 1)
      BY <3>1, DeadlinesFields, ActuatorConstants DEF Sooner
    <3>. QED BY <1>22, <3>2, DeadlinesNew DEF Tick
  <2>1. OpType' BY <1>22, <1>1, <2>0 DEF Tick, OpType
  <2>2. KernelType' BY <1>22, <1>1, ActuatorConstants DEF Tick, Earlier, Sooner, KernelType
  <2>3. JournalType' /\ FlagType' /\ HostType'
    BY <1>22, <1>1 DEF Tick, JournalType, FlagType, HostType
  <2>. QED BY <1>21, <1>22, <2>1, <2>2, <2>3 DEF Tick, Types
<1>23. CASE Suspend
  <2>1. JournalType' /\ OpType' /\ FlagType' /\ HostType' /\ KernelType'
    BY <1>23, <1>1 DEF Suspend, JournalType, OpType, FlagType, HostType, KernelType
  <2>. QED BY <1>21, <1>23, <2>1 DEF Suspend, Types
<1>24. CASE FaultsCease \/ UNCHANGED vars
  <2>1. UNCHANGED <<journal, op, deadlines, host, kernel>> BY <1>24, Zenon DEF FaultsCease, vars
  <2>2. FlagType' BY <1>24, <1>1, ZenonT(40) DEF FaultsCease, vars, FlagType
  <2>3. JournalType' /\ OpType' BY <1>1, <2>1, Zenon DEF JournalType, OpType
  <2>4. TimeType' /\ HostType' /\ KernelType' BY <1>1, <2>1, Zenon DEF TimeType, HostType, KernelType
  <2>. QED BY <2>2, <2>3, <2>4 DEF Types
<1>25. ASSUME NEW p \in Plans, Prepare(p) PROVE Types'
  <2>. DEFINE r == [st |-> "PREPARED", att |-> FALSE]
  <2>0. r \in PlanRecords BY States, RecordNew, ZenonT(40)
  <2>. HIDE DEF r
  <2>1. JournalType' BY Zenon, <1>25, <2>0, AppendTypes DEF Prepare, r
  <2>2. OpType' /\ FlagType' BY <1>25, <1>1, Zenon DEF Prepare, OpType, FlagType
  <2>3. /\ apprLeft' = [apprLeft EXCEPT ![p] = ApprovalTTL] /\ UNCHANGED <<legitLeft, auditLeft>>
        /\ sameBoot' = [sameBoot EXCEPT ![p] = TRUE] /\ sameGen' = [sameGen EXCEPT ![p] = TRUE]
    BY <1>25, Zenon DEF Prepare
  <2>4. TimeType' BY <2>3, <1>1, ActuatorConstants DEF TimeType
  <2>5. HostType' BY <2>3, <1>1 DEF HostType
  <2>6. KernelType' BY <1>25, <1>1, Zenon DEF Prepare, KernelType
  <2>. QED BY <2>1, <2>2, <2>4, <2>5, <2>6 DEF Types
<1>26. ASSUME NEW enabled \in BOOLEAN, SetManualKillSwitch(enabled) PROVE Types'
  <2>1. FlagType' BY <1>26, <1>1, Zenon DEF SetManualKillSwitch, FlagType
  <2>2. JournalType' /\ OpType' BY Zenon, <1>26, <1>1 DEF SetManualKillSwitch, JournalType, OpType
  <2>3. TimeType' /\ HostType' /\ KernelType'
    BY Zenon, <1>26, <1>1 DEF SetManualKillSwitch, TimeType, HostType, KernelType
  <2>. QED BY <2>1, <2>2, <2>3 DEF Types
<1>. QED
  BY Zenon, <1>2, <1>4, <1>5, <1>6, <1>7, <1>8, <1>9, <1>10, <1>11, <1>12, <1>13, <1>14, <1>15, <1>16,
     <1>17, <1>18, <1>19, <1>20, <1>22, <1>23, <1>24, <1>25, <1>26,
     <1>27, <1>28
  DEF Next, ApplyStep, StartStep, SweepStep, OpenFails, RecoverVerifyTooLate, Shutdown, Crash

-----------------------------------------------------------------------------
(* The kill switch.                                                         *)

\* An acknowledged switch stays in force over every step.
LEMMA SwitchStep ==
    ASSUME Types, ControlOK, SwitchOK, [Next]_vars
    PROVE  SwitchOK'
<1>. USE DEF journal, op, switch, deadlines, host, kernel
<1>0. manual \in BOOLEAN /\ file \in BOOLEAN /\ exact \in BOOLEAN /\ acked \in BOOLEAN
  BY DEF Types, FlagType
<1>1. ASSUME NEW enabled \in BOOLEAN, SetManualKillSwitch(enabled) PROVE SwitchOK'
  <2>1. CASE manual = enabled /\ exact /\ acked' = enabled /\ UNCHANGED <<manual, exact, file>>
    BY <2>1, <1>0 DEF SwitchOK, KillSwitchSticks
  <2>2. CASE file' = enabled /\ manual' = enabled /\ exact' = TRUE /\ acked' = enabled
    BY <2>2 DEF SwitchOK, KillSwitchSticks
  <2>3. CASE file' \in {file, enabled} /\ manual' = TRUE /\ exact' = FALSE /\ acked' = (enabled /\ acked)
    BY <2>3, <1>0, Zenon DEF SwitchOK, KillSwitchSticks
  <2>. QED BY <1>1, <2>1, <2>2, <2>3, Zenon DEF SetManualKillSwitch
<1>2. CASE Open BY Zenon, <1>2, <1>0 DEF Open, SwitchOK, KillSwitchSticks
<1>3. CASE SweepEnd BY <1>3 DEF SweepEnd, SwitchOK, KillSwitchSticks, ControlOK
<1>4. CASE UNCHANGED switch /\ (proc' = "down" \/ UNCHANGED proc)
  BY <1>4 DEF SwitchOK, KillSwitchSticks
<1>5. ASSUME NEW p \in Plans, Prepare(p) \/ ApplyBegin(p) \/ ReconcileOne(p) \/ ExpireApproval(p) \/ AuditOne(p)
      PROVE  UNCHANGED <<switch, proc>>
  BY <1>5, ZenonT(40) DEF Prepare, ApplyBegin, ApplyUnchanged, ReconcileOne, StartUnchanged, ExpireApproval, AuditOne, SweptTo
<1>6. ASSUME NEW p \in Plans, NEW s \in DecisionStates, Decide(p, s) PROVE UNCHANGED <<switch, proc>>
  BY <1>6, ZenonT(40) DEF Decide
<1>7. ASSUME ApplyStep PROVE UNCHANGED <<switch, proc>>
  BY <1>7, ZenonT(40) DEF ApplyStep, ApplyAttempt, ApplyPreFlush, ApplyFlush, FlushSend, FlushCommit,
              ApplyReadback, ApplyApplied, ApplyVerify, ApplyUnchanged
<1>8. ASSUME ReconcileObserved \/ RecoverVerify \/ SweepBegin \/ AuditBegin \/ SweepAborts
      PROVE  UNCHANGED <<switch, proc>>
  BY Zenon, <1>8 DEF ReconcileObserved, RecoverVerify, StartUnchanged, SweepBegin, AuditBegin, SweepAborts
<1>9. ASSUME RecoverVerifyTooLate \/ OpenFails \/ Shutdown \/ Crash \/ Reboot
      PROVE  UNCHANGED switch /\ proc' = "down"
  BY Zenon, <1>9 DEF RecoverVerifyTooLate, OpenFails, Shutdown, Crash, Reboot, Down
<1>10. ASSUME NEW c \in Containers, ContainerRestart(c) PROVE UNCHANGED <<switch, proc>>
  BY <1>10, Zenon DEF ContainerRestart
<1>11. ASSUME Tick \/ Suspend \/ FaultsCease \/ UNCHANGED vars PROVE UNCHANGED <<switch, proc>>
  BY Zenon, <1>11 DEF Tick, Suspend, FaultsCease, vars
<1>. QED
  BY Zenon, <1>1, <1>2, <1>3, <1>4, <1>5, <1>6, <1>7, <1>8, <1>9, <1>10, <1>11 DEF Next, StartStep, SweepStep

\* Before the batch, an operation has begun now or goes on beside denies that only end.
LEMMA StillBefore ==
    ASSUME Types, [Next]_vars, pc' \in BeforeFlush
    PROVE  \/ \E p \in Plans : ApplyBegin(p) /\ Begun(p)
           \/ pc \in BeforeFlush /\ cur' = cur /\ \A q \in Plans : elem'[q] <= elem[q]
<1>. USE DEF journal, op, switch, deadlines, host, kernel, BeforeFlush
<1>. DEFINE Goes == pc \in BeforeFlush /\ cur' = cur /\ \A q \in Plans : elem'[q] <= elem[q]
<1>0. \A q \in Plans : elem[q] \in Nat BY ActuatorConstants DEF Types, KernelType
<1>i. pc' # "idle" OBVIOUS
<1>s. ASSUME NEW p, NEW s, Settle(p, s) \/ WorkerFails \/ Idle PROVE FALSE
  BY <1>s, <1>i DEF Settle, WorkerFails, Idle
<1>1. ASSUME NEW p \in Plans, Prepare(p) PROVE FALSE BY <1>1, Zenon DEF Prepare, Serving
<1>2. ASSUME NEW p \in Plans, NEW s \in DecisionStates, Decide(p, s) PROVE FALSE
  BY <1>2, Zenon DEF Decide, Serving
<1>3. ASSUME NEW enabled \in BOOLEAN, SetManualKillSwitch(enabled) PROVE FALSE
  BY <1>3 DEF SetManualKillSwitch, Serving
<1>4. ASSUME NEW p \in Plans, ApplyBegin(p) PROVE Begun(p) BY <1>4, <1>s, BeginCases
<1>5. ASSUME ApplyAttempt PROVE Goes BY <1>0, <1>5, <1>s DEF ApplyAttempt
<1>6. ASSUME ApplyPreFlush PROVE Goes BY <1>0, <1>6, <1>s DEF ApplyPreFlush
<1>7. ASSUME ApplyFlush \/ FlushSend PROVE Goes BY <1>0, <1>7, <1>s DEF ApplyFlush, FlushSend
<1>18. ASSUME FlushCommit PROVE FALSE BY <1>18 DEF FlushCommit
<1>8. ASSUME ApplyReadback PROVE FALSE BY Zenon, <1>8, <1>s DEF ApplyReadback
<1>9. ASSUME ApplyApplied PROVE FALSE BY <1>9, <1>s DEF ApplyApplied
<1>10. ASSUME ApplyVerify PROVE FALSE BY <1>10, <1>s DEF ApplyVerify
<1>11. ASSUME NEW p \in Plans, ReconcileOne(p) PROVE FALSE BY Zenon, <1>11 DEF ReconcileOne, Reconciled
<1>12. ASSUME NEW p \in Plans, ExpireApproval(p) \/ AuditOne(p) PROVE FALSE
  BY <1>12, <1>s, ZenonT(40) DEF ExpireApproval, AuditOne, SweptTo
<1>13. ASSUME Open \/ ReconcileObserved \/ RecoverVerify \/ SweepBegin \/ AuditBegin PROVE FALSE
  BY Zenon, <1>13 DEF Open, ReconcileObserved, Reconciled, RecoverVerify, SweepBegin, AuditBegin
<1>14. ASSUME SweepAborts \/ SweepEnd \/ Down PROVE FALSE BY Zenon, <1>14, <1>s DEF SweepAborts, SweepEnd, Down
<1>15. ASSUME NEW c \in Containers, ContainerRestart(c) PROVE Goes BY <1>0, <1>15 DEF ContainerRestart
<1>16. ASSUME Tick PROVE Goes BY <1>0, <1>16 DEF Tick, Earlier, Sooner
<1>17. ASSUME Suspend \/ FaultsCease \/ UNCHANGED vars PROVE Goes
  BY <1>0, <1>17 DEF Suspend, FaultsCease, vars
<1>. QED
  BY Zenon, <1>1, <1>2, <1>3, <1>4, <1>5, <1>6, <1>7, <1>8, <1>9, <1>10, <1>11, <1>12, <1>13, <1>14,
     <1>15, <1>16, <1>17, <1>18
  DEF Next, ApplyStep, StartStep, SweepStep, OpenFails, RecoverVerifyTooLate, Shutdown, Crash, Reboot

-----------------------------------------------------------------------------
(* What a step may do to the file and the kernel.                           *)

\* State s may be recorded of plan p: the table allows it, and the kernel bears it out.
Lawful(p, s) ==
    \/ disk[p].st = "none" /\ s = "PREPARED"
    \/ disk[p].st = "PREPARED" /\ s \in DecisionStates
    \/ /\ LifecycleTransitionAllowed(disk[p].st, disk[p].att, s)
       /\ s \in {"REJECTED", "STALE_ABORT", "EXPIRED"} => elem[p] = 0
       /\ s \in {"APPLIED", "VERIFIED"} => flushes[p] = 1

KeepsHost(p) == (sameBoot[p] => sameBoot'[p]) /\ (sameGen[p] => sameGen'[p])

Recorded(p, s) ==
    /\ Lawful(p, s)
    /\ disk' = [disk EXCEPT ![p] = [disk[p] EXCEPT !.st = s]]
    /\ UNCHANGED <<elem, flushes>>
    /\ \A q \in Plans : KeepsHost(q)

Attempted ==
    /\ pc = "attempt"
    /\ disk' = [disk EXCEPT ![cur] = [st |-> "APPROVED", att |-> TRUE]]
    /\ UNCHANGED <<elem, flushes, sameBoot, sameGen>>

Flushed ==
    /\ pc = "sending"
    /\ flushes' = [flushes EXCEPT ![cur] = @ + 1]
    /\ elem' = elem \/ (sameGen[cur] /\ elem' = [elem EXCEPT ![cur] = TTL])
    /\ UNCHANGED <<disk, sameBoot, sameGen>>

\* Nothing is recorded or sent; denies may end.
Faded ==
    /\ UNCHANGED <<disk, flushes>>
    /\ \A p \in Plans : elem'[p] <= elem[p] /\ (elem'[p] > 0 => KeepsHost(p))

Effect ==
    \/ Faded \/ Attempted \/ Flushed
    \/ \E p \in Plans, s \in PlanStates : Recorded(p, s)

-----------------------------------------------------------------------------
(* What the saga sees of a step.                                            *)

\* The denies in force and the plans ever sent, as the saga sees them.
Live == {p \in Plans : elem[p] > 0}
Enforced == {p \in Plans : flushes[p] > 0}

\* Every step is a step of the saga, or none that it can see.
LEMMA EffectRefines ==
    ASSUME IInv, Types', Effect
    PROVE  [Saga!Next]_Saga!vars
<1>0. /\ Types /\ ControlOK /\ StageOK /\ RecordsOK /\ KernelOK /\ RoomOK
  BY TypesAre DEF IInv, Core
<1>n. /\ \A p \in Plans : elem[p] \in Nat /\ elem'[p] \in Nat /\ flushes[p] \in Nat
      /\ TTL \in Nat \ {0}
  BY <1>0, ActuatorConstants DEF Types, KernelType
<1>1. CASE Faded
  <2>1. UNCHANGED disk /\ Live' \subseteq Live /\ UNCHANGED Enforced
    BY <1>n, <1>1 DEF Faded, Live, Enforced
  <2>2. Saga!Fade BY Zenon, <2>1 DEF Saga!Fade, Live, Enforced
  <2>. QED BY <2>2 DEF Saga!Next
<1>2. CASE Attempted
  <2>1. /\ cur \in Plans /\ disk[cur] = [st |-> "APPROVED", att |-> FALSE]
        /\ InFlightIn(disk) = {} /\ DirtyIn(disk) = {}
        /\ \A q \in Plans : Target[q] = Target[cur] => elem[q] = 0
    BY Zenon, <1>0, <1>2 DEF Attempted, ControlOK, Applying, StageOK, RoomOK, BeforeFlush
  <2>2. Saga!Free(cur)
    <3>1. \A q \in Plans : ~Saga!InFlight(disk[q].st, disk[q].att) /\ disk[q].st # "FAILED_DIRTY"
      BY Zenon, <2>1 DEF Saga!InFlight, InFlight, InFlightIn, DirtyIn
    <3>2. ASSUME NEW q \in Live PROVE Target[q] # Target[cur]
      <4>1. q \in Plans /\ elem[q] > 0 BY Zenon DEF Live
      <4>2. PICK e : e = elem[q] OBVIOUS
      <4>3. e > 0 BY Zenon, <4>1, <4>2
      <4>4. e # 0 BY <4>3
      <4>. QED BY Zenon, <2>1, <4>1, <4>2, <4>4
    <3>. QED BY Zenon, <3>1, <3>2 DEF Saga!Free, Live
  <2>3. disk' = [disk EXCEPT ![cur].att = TRUE]
    <3>1. [disk[cur] EXCEPT !.att = TRUE] = [st |-> "APPROVED", att |-> TRUE]
      <4>1. disk[cur] \in PlanRecords /\ TRUE \in BOOLEAN BY <1>0, <2>1, Zenon DEF Types, JournalType
      <4>2. [st |-> "APPROVED", att |-> FALSE].st = "APPROVED" OBVIOUS
      <4>3. disk[cur].st = "APPROVED" BY Zenon, <2>1, <4>2
      <4>. QED BY <4>1, <4>3, RecordAttempt, Zenon
    <3>. QED BY <1>2, <3>1, Zenon DEF Attempted
  <2>4. UNCHANGED <<Live, Enforced>> BY Zenon, <1>2 DEF Attempted, Live, Enforced
  <2>5. Saga!Attempt(cur) BY <2>1, <2>2, <2>3, <2>4 DEF Saga!Attempt, Live, Enforced
  <2>. QED BY <2>1, <2>5, ZenonT(40) DEF Saga!Next
<1>3. CASE Flushed
  <2>1. /\ cur \in Plans /\ disk[cur] = [st |-> "APPROVED", att |-> TRUE] /\ flushes[cur] = 0
    BY Zenon, <1>0, <1>3 DEF Flushed, ControlOK, Applying, StageOK
  <2>2. cur \notin Enforced
    <3>1. ~(0 > 0) OBVIOUS
    <3>. QED BY Zenon, <2>1, <3>1 DEF Enforced
  <2>3. Enforced' = Enforced \cup {cur}
    <3>1. flushes' = [flushes EXCEPT ![cur] = flushes[cur] + 1] BY <1>3, Zenon DEF Flushed
    <3>2. flushes \in [Plans -> Nat] BY <1>0, Zenon DEF Types, KernelType
    <3>. QED BY <2>1, <3>1, <3>2 DEF Enforced
  <2>4. Live' \in {Live, Live \cup {cur}}
    <3>1. CASE elem' = elem BY Zenon, <3>1 DEF Live
    <3>2. CASE elem' = [elem EXCEPT ![cur] = TTL]
      <4>1. DOMAIN elem = Plans BY Zenon, <1>0 DEF Types, KernelType
      <4>2. elem'[cur] = TTL BY Zenon, <2>1, <3>2, <4>1
      <4>3. elem'[cur] > 0 BY <1>n, <4>2
      <4>4. \A q \in Plans : q # cur => elem'[q] = elem[q] BY Zenon, <3>2, <4>1
      <4>. QED BY Zenon, <2>1, <4>3, <4>4 DEF Live
    <3>. QED BY Zenon, <1>3, <3>1, <3>2 DEF Flushed
  <2>5. UNCHANGED disk BY <1>3 DEF Flushed
  <2>6. PICK p \in Plans : p = cur BY Zenon, <2>1
  <2>7. Saga!Enforce(p)
    BY Zenon, <2>1, <2>2, <2>3, <2>4, <2>5, <2>6 DEF Saga!Enforce, Live, Enforced
  <2>. QED BY <2>7 DEF Saga!Next
<1>4. ASSUME NEW p \in Plans, NEW s \in PlanStates, Recorded(p, s) PROVE [Saga!Next]_Saga!vars
  <2>1. disk' = [disk EXCEPT ![p].st = s] BY <1>4 DEF Recorded
  <2>2. UNCHANGED <<Live, Enforced>> BY <1>4 DEF Recorded, Live, Enforced
  <2>3. CASE disk[p].st = "none" /\ s = "PREPARED"
    <3>1. Saga!Propose(p) BY <2>1, <2>2, <2>3 DEF Saga!Propose, Live, Enforced
    <3>. QED BY <3>1 DEF Saga!Next
  <2>4. CASE disk[p].st = "PREPARED" /\ s \in DecisionStates
    <3>1. Saga!Decide(p, s) BY <2>1, <2>2, <2>4 DEF Saga!Decide, Live, Enforced
    <3>2. s \in Saga!DecisionStates BY Zenon, <2>4 DEF Saga!DecisionStates, DecisionStates
    <3>. QED BY Zenon, <3>1, <3>2 DEF Saga!Next
  <2>5. CASE /\ LifecycleTransitionAllowed(disk[p].st, disk[p].att, s)
             /\ s \in {"REJECTED", "STALE_ABORT", "EXPIRED"} => elem[p] = 0
             /\ s \in {"APPLIED", "VERIFIED"} => flushes[p] = 1
    <3>1. Saga!LifecycleTransitionAllowed(disk[p].st, disk[p].att, s)
      BY Zenon, <2>5 DEF Saga!LifecycleTransitionAllowed, LifecycleTransitionAllowed
    <3>2. /\ s \in {"REJECTED", "STALE_ABORT", "EXPIRED"} => p \notin Live
          /\ s \in {"APPLIED", "VERIFIED"} => p \in Enforced
      <4>1. ~(0 > 0) /\ 1 > 0 OBVIOUS
      <4>. QED BY Zenon, <1>4, <2>5, <4>1 DEF Live, Enforced
    <3>3. Saga!Pronounce(p, s) BY <2>1, <2>2, <3>1, <3>2 DEF Saga!Pronounce, Live, Enforced
    <3>4. s \in Saga!PlanStates BY DEF Saga!PlanStates, PlanStates
    <3>. QED BY Zenon, <3>3, <3>4 DEF Saga!Next
  <2>. QED BY <1>4, <2>3, <2>4, <2>5 DEF Recorded, Lawful
<1>. QED BY <1>1, <1>2, <1>3, <1>4 DEF Effect
=============================================================================
