----------------------------- MODULE TailRepair -----------------------------
(***************************************************************************)
(* The signed two-phase repair of a torn evidence tail (evidence/repair.py *)
(* and the repair half of ingest/service.py) over the evidence store, the  *)
(* observer's stream and the ACK cursor.                                   *)
(*                                                                         *)
(* The observer signs an authorization for the exact torn bytes; only then *)
(* is the tail cut.  The authorization and everything before it in the     *)
(* stream is drained, each item sealed and acknowledged before the next;   *)
(* then a completion is signed, drained and acknowledged, and the durable  *)
(* gate is cleared.  The phase survives a crash after every step.          *)
(***************************************************************************)
EXTENDS EvidenceStore

CONSTANTS
  MaxEvents,   \* events the observer emits besides the two repair events
  MaxGaps,     \* sequence-gap openings among them
  MaxPath,     \* events a repair preflight or drain may cover
  MaxCrashes,
  MaxFaults    \* I/O errors, conflicts and storage damage, together

VARIABLES
  ack,      \* durable ACK journal: confirmed, pending; and the observer's cursor
  drained,  \* this process has confirmed the evidence it found at resume
  cut,      \* history: sequences of authorizations under which a tail was cut
  crashes, faults

vars == <<disk, mem, spool, accepted, cause, ack, drained, cut, crashes, faults>>

Kinds == {"routine", "critical", "open", "close", "auth", "done"}

Init ==
  /\ disk = EmptyRoot
  /\ mem = Down
  /\ spool = <<>>
  /\ accepted = {}
  /\ cause = {}
  /\ ack = [confirmed |-> 0, pending |-> 0, observer |-> 0]
  /\ drained = FALSE
  /\ cut = {}
  /\ crashes = 0
  /\ faults = 0

Count(k) == Cardinality({n \in DOMAIN spool : spool[n] \in k})

repairVars == <<ack, drained, cut, crashes, faults>>

-----------------------------------------------------------------------------
(* The observer's stream. *)

Emit(k) ==
  /\ Count(Kinds \ {"auth", "done"}) < MaxEvents
  /\ k = "open" => Count({"open"}) < MaxGaps
  /\ k = "close" => Count({"close"}) < Count({"open"})
  /\ spool' = Append(spool, k)
  /\ UNCHANGED <<disk, mem, accepted, cause>>
  /\ UNCHANGED repairVars

Seqs(k) == {n \in DOMAIN spool : spool[n] = k}

(* The sequence gaps the accepted evidence leaves open. *)
OpenGaps == {n \in Seqs("open") : n <= mem.last /\
               ~\E m \in Seqs("close") : n < m /\ m <= mem.last}

(* The ACK ceiling: the accepted head, below the first unclosed gap. *)
BarrierCeiling == IF OpenGaps = {} THEN mem.last ELSE Min(OpenGaps) - 1

Latch == /\ mem' = [mem EXCEPT !.state = "latched"]
         /\ UNCHANGED <<disk, spool, accepted, cause>>

Repairing == RepairGate /\ mem.state = "ready"

-----------------------------------------------------------------------------
(* Normal delivery: accept the stream in order, acknowledge to the ceiling. *)

Accept ==
  /\ ~Repairing
  /\ mem.last < Len(spool)
  /\ BeginAppend(mem.last + 1)
  /\ UNCHANGED repairVars

Flush ==
  /\ BeginFlush
  /\ UNCHANGED repairVars

RecordPending ==
  /\ ~RepairGate
  /\ Writable
  /\ ack.pending = 0
  /\ ack.confirmed < BarrierCeiling
  /\ ack' = [ack EXCEPT !.pending = ack.confirmed + 1]
  /\ UNCHANGED storeVars /\ UNCHANGED <<drained, cut, crashes, faults>>

(* A pending ACK above the ceiling is fatal; otherwise the observer applies *)
(* it, and its answer may be lost.                                          *)
PostPending ==
  /\ Idle
  /\ ~mem.readonly
  /\ ~mem.settle
  /\ ack.pending > ack.observer
  /\ IF ack.pending > BarrierCeiling
     THEN Latch /\ ack' = ack
     ELSE ack' = [ack EXCEPT !.observer = ack.pending] /\ UNCHANGED storeVars
  /\ UNCHANGED <<drained, cut, crashes, faults>>

RecordConfirmed ==
  /\ Writable
  /\ ack.pending # 0
  /\ ack.observer = ack.pending
  /\ ack' = [ack EXCEPT !.confirmed = ack.pending, !.pending = 0]
  /\ UNCHANGED storeVars /\ UNCHANGED <<drained, cut, crashes, faults>>

-----------------------------------------------------------------------------
(* Opening the root for repair.                                             *)

(* What the prefix recorded in the repair state is on disk now. *)
Physical(r) ==
  CASE disk.open = r.prefix /\ disk.torn -> "original_torn"
    [] disk.open = r.prefix /\ ~disk.torn -> "clean_open"
    [] \E i \in DOMAIN disk.sealed : disk.sealed[i] = r.prefix ->
         IF ~disk.promoted /\ disk.sealed[Len(disk.sealed)] = r.prefix
         THEN "clean_open" ELSE "settled_prefix"
    [] OTHER -> "invalid"

PhaseMatchesPhysical(r, physical) ==
  CASE r.phase = "detected" -> physical = "original_torn"
    [] r.phase = "authorized" -> physical \in {"original_torn", "clean_open"}
    [] OTHER -> physical \in {"clean_open", "settled_prefix"}

(* An unmanifested segment after the repaired prefix is the one item of the *)
(* drain that was accepted and not yet sealed.                              *)
PostPrefixActiveOk(r) ==
  disk.open \in {{}, r.prefix} \/
    /\ Cardinality(disk.open) = 1
    /\ Physical(r) = "settled_prefix"
    /\ \A n \in disk.open :
         CASE r.phase = "truncated" -> n <= r.auth
           [] r.phase = "authorization_appended" -> r.auth < n /\ n <= r.done
           [] OTHER -> FALSE

RepairStateCorrupt ==
  RepairGate /\ ( \/ ~PhaseMatchesPhysical(disk.repair, Physical(disk.repair))
                  \/ ~PostPrefixActiveOk(disk.repair) )

OpenTailRepair ==
  /\ mem.state = "down"
  /\ RepairGate \/ disk.torn
  /\ ~ScanCorrupt /\ ~UnsettledOpenCorrupt
  /\ ~LoadedHealth
  /\ mem' = IF RepairStateCorrupt
            THEN [mem EXCEPT !.state = "refused", !.job = "intent", !.readonly = TRUE]
            ELSE [Down EXCEPT !.state = "repair", !.last = LastStored]
  /\ drained' = FALSE
  /\ UNCHANGED <<disk, spool, accepted, cause, ack, cut, crashes, faults>>

InRepair(phase) == mem.state = "repair" /\ mem.job = "idle" /\ disk.repair.phase = phase

SetRepair(r) ==
  /\ disk' = [disk EXCEPT !.repair = r]
  /\ UNCHANGED <<mem, spool, accepted, cause>> /\ UNCHANGED repairVars

(* The exact torn bytes and the prefix before them become durable facts. *)
PublishDetected ==
  /\ InRepair("none")
  /\ SetRepair([NoRepair EXCEPT !.phase = "detected", !.prefix = disk.open])

(* The observer's answer to this repair's request: later than the evidence. *)
Signed(k) == {n \in Seqs(k) : n > mem.last}

(* POST of the authorization request: the observer signs it once. *)
ObserverAuthorizes ==
  /\ InRepair("detected")
  /\ Signed("auth") = {}
  /\ spool' = Append(spool, "auth")
  /\ UNCHANGED <<disk, mem, accepted, cause>> /\ UNCHANGED repairVars

(* The page's ACK cursor must be the confirmed one, or the pending one whose *)
(* result the Core never learned.                                            *)
PreflightConfirmedOnly == ack.observer = ack.confirmed

PreflightAuthorities == ack.observer \in {ack.confirmed, ack.pending}

(* The preflight simulates the bounded path from the evidence head to the   *)
(* signed event.                                                            *)
PreflightPath(target) == target > mem.last /\ target - mem.last <= MaxPath

PreflightOk(target) == PreflightAuthorities /\ PreflightPath(target)

AdvanceAuthorized ==
  /\ InRepair("detected")
  /\ \E n \in Signed("auth") :
       /\ PreflightOk(n)
       /\ SetRepair([disk.repair EXCEPT !.phase = "authorized", !.auth = n])

(* The authorization is registered for the torn bytes it was signed for. *)
RegisterBeforeSigned ==
  /\ mem.state = "repair" /\ disk.repair.phase \in {"detected", "authorized"}
  /\ Physical(disk.repair) = "original_torn"

RegisterAuthorization ==
  /\ InRepair("authorized")
  /\ Physical(disk.repair) = "original_torn"
  /\ PreflightOk(disk.repair.auth)

(* Only a registered authorization cuts the tail. *)
TruncateLastFrame ==
  /\ RegisterAuthorization
  /\ disk' = [disk EXCEPT !.torn = FALSE, !.open = @ \ {Max(disk.open)}]
  /\ cut' = cut \cup {disk.repair.auth}
  /\ UNCHANGED <<mem, spool, accepted, cause, ack, drained, crashes, faults>>

Truncate ==
  /\ RegisterAuthorization
  /\ disk' = [disk EXCEPT !.torn = FALSE]
  /\ cut' = cut \cup {disk.repair.auth}
  /\ UNCHANGED <<mem, spool, accepted, cause, ack, drained, crashes, faults>>

AdvanceTruncated ==
  /\ InRepair("authorized")
  /\ Physical(disk.repair) = "clean_open"
  /\ SetRepair([disk.repair EXCEPT !.phase = "truncated"])

Resumable == mem.state = "repair" /\ mem.job = "idle" /\
  disk.repair.phase \in {"truncated", "authorization_appended", "completion_appended"}

ResumePlan ==
  /\ Resumable
  /\ ApplyRecoveryPlan
  /\ UNCHANGED <<mem, spool, accepted, cause>> /\ UNCHANGED repairVars

(* The held prefix, or the one unsealed item, becomes the active segment *)
(* and must be sealed before anything is appended.                       *)
ActivateHeldOpen ==
  [mem EXCEPT !.active = disk.open # {}, !.fd = disk.open # {}, !.aged = TRUE,
              !.settle = disk.open # {}]

ResumeStore ==
  /\ Resumable
  /\ PlanDone
  /\ mem' = [ActivateHeldOpen EXCEPT !.state = "ready"]
  /\ UNCHANGED <<disk, spool, accepted, cause>> /\ UNCHANGED repairVars

-----------------------------------------------------------------------------
(* The drain to one exact repair event. *)

Target == IF disk.repair.phase = "truncated" THEN disk.repair.auth ELSE disk.repair.done

Draining == Repairing /\ Writable /\ ~mem.active /\
  (disk.repair.phase = "truncated" \/
     (disk.repair.phase = "authorization_appended" /\ disk.repair.done # 0))

Settled == ack.pending = 0 /\ ack.confirmed = mem.last

(* Evidence found at resume is confirmed first, within the ceiling. *)
ConfirmExisting ==
  /\ Draining
  /\ ~drained
  /\ ack.pending = 0
  /\ \/ /\ ack.confirmed < BarrierCeiling
        /\ ack' = [ack EXCEPT !.pending = ack.confirmed + 1]
        /\ UNCHANGED storeVars /\ UNCHANGED drained
     \/ /\ ack.confirmed = mem.last
        /\ drained' = TRUE
        /\ UNCHANGED storeVars /\ UNCHANGED ack
     \/ /\ ack.confirmed < mem.last
        /\ ack.confirmed >= BarrierCeiling
        /\ Latch
        /\ UNCHANGED <<ack, drained>>
  /\ UNCHANGED <<cut, crashes, faults>>

(* flush of the prefix at resume, and of every drained item. *)
SettleRepairBoundary == Repairing /\ Flush

(* One page item is accepted; a page with a foreign ACK cursor is fatal. *)
DrainAccept ==
  /\ Draining
  /\ drained
  /\ Settled
  /\ mem.last < Target
  /\ IF ack.observer = ack.confirmed
     THEN Target - mem.last <= MaxPath /\ BeginAppend(mem.last + 1)
     ELSE Latch
  /\ UNCHANGED repairVars

(* The sealed item's ACK becomes pending before the barrier is consulted. *)
DrainPending ==
  /\ Draining
  /\ drained
  /\ ack.pending = 0
  /\ ack.confirmed < mem.last
  /\ ack' = [ack EXCEPT !.pending = mem.last]
  /\ UNCHANGED storeVars /\ UNCHANGED <<drained, cut, crashes, faults>>

AtTarget(phase, target) ==
  /\ Repairing /\ Writable /\ ~mem.active
  /\ disk.repair.phase = phase
  /\ Settled
  /\ mem.last = target

AdvanceAuthorizationAppended ==
  /\ AtTarget("truncated", disk.repair.auth)
  /\ SetRepair([disk.repair EXCEPT !.phase = "authorization_appended"])

ObserverCompletes ==
  /\ AtTarget("authorization_appended", disk.repair.auth)
  /\ disk.repair.done = 0
  /\ Signed("done") = {}
  /\ spool' = Append(spool, "done")
  /\ UNCHANGED <<disk, mem, accepted, cause>> /\ UNCHANGED repairVars

RecordCompletionTarget ==
  /\ AtTarget("authorization_appended", disk.repair.auth)
  /\ disk.repair.done = 0
  /\ \E n \in Signed("done") :
       /\ PreflightOk(n)
       /\ SetRepair([disk.repair EXCEPT !.done = n])

AdvanceCompletionAppended ==
  /\ disk.repair.done # 0
  /\ AtTarget("authorization_appended", disk.repair.done)
  /\ SetRepair([disk.repair EXCEPT !.phase = "completion_appended"])

(* Both events are replayed from the evidence before the gate is removed. *)
FinalizeRepair ==
  /\ AtTarget("completion_appended", disk.repair.done)
  /\ {disk.repair.auth, disk.repair.done} \subseteq Sealed
  /\ Physical(disk.repair) = "settled_prefix"
  /\ SetRepair(NoRepair)

-----------------------------------------------------------------------------
(* Failures, and the restart of a process that gave up. *)

Fault(A) == faults < MaxFaults /\ faults' = faults + 1 /\ A
            /\ UNCHANGED <<ack, drained, cut, crashes>>

CrashStep ==
  /\ crashes < MaxCrashes
  /\ crashes' = crashes + 1
  /\ Crash
  /\ UNCHANGED <<ack, drained, cut, faults>>

Restart ==
  /\ \/ mem.state = "latched"
     \/ mem.state = "refused" /\ mem.job = "idle" /\ disk.dirs = 2
     \/ Idle /\ mem.uncertain
     \/ Idle /\ mem.active /\ ~mem.fd
  /\ mem' = Down
  /\ UNCHANGED <<disk, spool, accepted, cause>> /\ UNCHANGED repairVars

StoreStep ==
  /\ \/ CreateDirectory \/ RefusePartialRoot \/ OpenStore \/ RecoverStep \/ BindAndRecover
     \/ CreateActive \/ WriteFrame \/ CommitDurable
     \/ SealManifest \/ SealPromote \/ SealHead
     \/ TripIntent \/ TripFence
  /\ UNCHANGED repairVars

RepairStep ==
  \/ OpenTailRepair \/ PublishDetected \/ ObserverAuthorizes \/ AdvanceAuthorized
  \/ Truncate \/ AdvanceTruncated \/ ResumePlan \/ ResumeStore
  \/ ConfirmExisting \/ DrainAccept \/ DrainPending
  \/ AdvanceAuthorizationAppended \/ ObserverCompletes \/ RecordCompletionTarget
  \/ AdvanceCompletionAppended \/ FinalizeRepair

(* What the running Core does by itself; each of its steps is attempted. *)
CoreStep == StoreStep \/ RepairStep \/ PostPending \/ RecordConfirmed \/ Restart
            \/ SettleRepairBoundary

Failure ==
  \/ CrashStep
  \/ Fault(WriteFails) \/ Fault(TemporaryFails) \/ Fault(NamespaceFails)
  \/ Fault(ConflictingEvent) \/ Fault(Damage)

Next ==
  \/ \E k \in Kinds \ {"auth", "done"} : Emit(k)
  \/ CoreStep \/ Accept \/ Flush \/ RecordPending
  \/ Failure

Spec == Init /\ [][Next]_vars /\ WF_vars(CoreStep)
=============================================================================
