------------------------ MODULE CorrelationJournal -------------------------
(***************************************************************************)
(* The durable journal of correlation requests, correlation-requests.agf   *)
(* (ingest/correlation_journal.py and its lifecycle in evidence/           *)
(* segments.py): for each trigger the phases selected, proof_observed,     *)
(* completed, or selected, retired.  It is never compacted.                *)
(*                                                                         *)
(* A trigger is named by its evidence sequence, and so is the snapshot     *)
(* that proves it (0 when there is none).                                  *)
(***************************************************************************)
EXTENDS Integers, Sequences, FiniteSetsExt

CONSTANT MaxRequestRecords   \* _MAX_RECORDS, 12,291 in the code

ASSUME MaxRequestRecordsAssumption == MaxRequestRecords \in Nat

VARIABLES
  corrDisk,  \* log (or NoRequests), torn
  corr       \* the open journal: state, healthy

Record(t, phase, snap) == [trigger |-> t, phase |-> phase, snap |-> snap]

NoRequests == <<Record(0, "absent", 0)>>
EmptyCorrDisk == [log |-> NoRequests, torn |-> FALSE]
CorrDown == [state |-> "unknown", healthy |-> FALSE]

CorrInit == corrDisk = EmptyCorrDisk /\ corr = CorrDown

TerminalPhases == {"completed", "retired"}

-----------------------------------------------------------------------------
(* The state a log replays to. *)

Of(log, t) == {i \in DOMAIN log : log[i].trigger = t}

Latest(log, t) == IF Of(log, t) = {} THEN Record(t, "none", 0) ELSE log[Max(Of(log, t))]

PhaseOf(log, t) == Latest(log, t).phase
SnapshotOf(log, t) == Latest(log, t).snap

Requested(log) == {log[i].trigger : i \in DOMAIN log}

(* Non-terminal requests, and the order they were selected in. *)
PendingRequests(log) == {t \in Requested(log) : PhaseOf(log, t) \notin TerminalPhases}
SelectedBefore(log, t, u) == Min(Of(log, t)) < Min(Of(log, u))
FirstOf(log, T) == CHOOSE t \in T : \A u \in T \ {t} : SelectedBefore(log, t, u)

(* One record may follow the records before it. *)
MayFollow(log, r) ==
  LET now == Latest(log, r.trigger)
  IN CASE r.phase = "selected" -> now.phase = "none"
       [] r.phase = "proof_observed" ->
            /\ now.phase = "selected"
            /\ r.snap > r.trigger
            /\ \A u \in Requested(log) \ {r.trigger} : SnapshotOf(log, u) # r.snap
       [] r.phase = "completed" -> now.phase = "proof_observed" /\ r.snap = now.snap
       [] r.phase = "retired" -> now.phase = "selected" /\ r.snap = 0
       [] OTHER -> FALSE

RequestsReplay(log) == \A i \in DOMAIN log : MayFollow(SubSeq(log, 1, i - 1), log[i])

-----------------------------------------------------------------------------
(* Lifecycle. *)

CorrScanned(d) == [CorrDown EXCEPT !.state = IF d.log = NoRequests THEN "fresh" ELSE "present"]

CreateRequests ==
  /\ corr.state = "fresh"
  /\ corrDisk' = [corrDisk EXCEPT !.log = <<>>]
  /\ corr' = [state |-> "initialized", healthy |-> TRUE]

(* Recovery replays every frame, and unlike the ACK journal accepts no     *)
(* torn tail.                                                              *)
RequestsRecoverable(d) ==
  /\ ~d.torn
  /\ Len(d.log) <= MaxRequestRecords
  /\ RequestsReplay(d.log)

RecoverRequests ==
  /\ corr.state = "present"
  /\ RequestsRecoverable(corrDisk)
  /\ corr' = [state |-> "initialized", healthy |-> TRUE]
  /\ UNCHANGED corrDisk

RefuseRequests ==
  /\ corr.state = "present"
  /\ ~RequestsRecoverable(corrDisk)
  /\ corr' = CorrDown
  /\ UNCHANGED corrDisk

CorrUsable == corr.state = "initialized" /\ corr.healthy

(* The record cap is checked before anything is written; no record is ever *)
(* removed, so a full journal stays full.                                  *)
RequestsFull == Len(corrDisk.log) >= MaxRequestRecords

WithRecord(r) == [corrDisk EXCEPT !.log = Append(@, r)]

AppendRequest(r) ==
  /\ corrDisk' = WithRecord(r)
  /\ UNCHANGED corr

InterruptedRequest(r) == {corrDisk, [corrDisk EXCEPT !.torn = TRUE], WithRecord(r)}

RequestAppendFails(r) ==
  /\ corrDisk' \in InterruptedRequest(r)
  /\ corr' = [state |-> "append_uncertain", healthy |-> FALSE]
=============================================================================
