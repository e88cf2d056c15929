---------------------------- MODULE CoreDelivery ----------------------------
(***************************************************************************)
(* Core's delivery loop (DeliveryCoordinator.poll_once, ingest/service.py) *)
(* over the ACK journal, the correlation-request journal, the accepted     *)
(* evidence and the observer's stream.                                     *)
(*                                                                         *)
(* One poll runs at a time.  A step of this module runs up to one durable  *)
(* write or one message: a step that writes leaves the write in run.write, *)
(* and the next step of Core finishes it, or a crash or an I/O error       *)
(* interrupts it.  Every event of the stream is accepted in order; an      *)
(* event is acknowledged only below the first open sequence gap and below  *)
(* every trigger whose proof is not yet durable.                           *)
(***************************************************************************)
EXTENDS AckJournal, CorrelationJournal

CONSTANTS
  MaxEvents,    \* events the observer emits, snapshots apart
  MaxTriggers,  \* candidate triggers among them
  MaxGaps,      \* sequence-gap openings among them
  Budget,       \* ack_budget: ACKs of one poll, and the discovery window
  PageLimit,    \* events of one page
  PathEvents,   \* _MAX_CORRELATION_PATH_EVENTS, 4,096 in the code
  MaxCrashes, MaxLost, MaxIoErrors, MaxRepairs

ASSUME DeliveryAssumption ==
  /\ {MaxEvents, MaxTriggers, MaxGaps, MaxCrashes, MaxLost, MaxIoErrors, MaxRepairs} \subseteq Nat
  /\ {Budget, PageLimit, PathEvents} \subseteq Nat \ {0}

VARIABLES
  spool,   \* the observer's signed events, by sequence
  acked,   \* the observer's ACK cursor
  head,    \* Core's accepted evidence is the prefix 1..head
  torn,    \* the evidence tail is torn: only a signed repair opens the root
  run,     \* the running poll
  scan,    \* _correlation_scan_cursor: in memory only
  used     \* crashes, lost messages, I/O errors and repairs so far

vars == <<ackDisk, ack, fence, corrDisk, corr, spool, acked, head, torn, run, scan, used>>

Event(kind, of) == [kind |-> kind, of |-> of]
NoWrite == [to |-> "none"]
Stopped == [pc |-> "down", t |-> 0, snap |-> 0, budget |-> 0, left |-> 0, page |-> 0,
            back |-> "none", write |-> NoWrite]
Polling == [Stopped EXCEPT !.pc = "poll"]
Resulting == [Stopped EXCEPT !.pc = "result"]

Init ==
  /\ AckInit
  /\ CorrInit
  /\ spool = <<>>
  /\ acked = 0
  /\ head = 0
  /\ torn = FALSE
  /\ run = Stopped
  /\ scan = <<>>
  /\ used = [crashes |-> 0, lost |-> 0, errors |-> 0, repairs |-> 0]

files == <<ackDisk, corrDisk, fence>>
memory == <<ack, corr>>
observer == <<spool, acked>>

At(label) == run.pc = label /\ run.write.to = "none"

(* Every step of the loop that only moves it. *)
Goto(r) == run' = r /\ UNCHANGED <<files, memory, observer, head, torn, used>>

Latched(why) == [Stopped EXCEPT !.pc = "fatal", !.back = why]
Latch(why) == Goto(Latched(why))

-----------------------------------------------------------------------------
(* The observer. *)

Count(k) == Cardinality({n \in DOMAIN spool : spool[n].kind = k})

Openings(h) == {n \in 1..h : /\ spool[n].kind = "open"
                             /\ ~\E m \in (n + 1)..h : spool[m].kind = "close"}

Emit(k) ==
  /\ Len(spool) - Count("snapshot") < MaxEvents
  /\ k = "trigger" => Count("trigger") < MaxTriggers
  /\ k = "open" => Count("open") < MaxGaps
  /\ k = "close" => Openings(Len(spool)) # {}
  /\ spool' = Append(spool, Event(k, 0))
  /\ UNCHANGED <<files, memory, acked, head, torn, run, scan, used>>

(* The receipt of an earlier request for trigger t, if there is one.  The  *)
(* observer rebinds it to a snapshot that is not acknowledged yet; at a    *)
(* POST it never is, for the barrier keeps every ACK below the trigger.    *)
Receipts(t) == {n \in DOMAIN spool : spool[n] = Event("snapshot", t)}

Published(t) == IF Receipts(t) # {} THEN spool ELSE Append(spool, Event("snapshot", t))

(* A trigger at or below the ACK cursor is gone from the observer. *)
TriggerRetired(t) == Receipts(t) = {} /\ t <= acked

-----------------------------------------------------------------------------
(* Correlation state and the ACK ceiling. *)

Log == corrDisk.log
Phase(t) == PhaseOf(Log, t)
Pending == PendingRequests(Log)
InPhase(p) == {t \in Pending : Phase(t) = p}

Candidates(lo, hi) == {n \in lo..hi : spool[n].kind = "trigger" /\ n \notin Requested(Log)}

(* Only what this poll could acknowledge is looked through. *)
Undiscovered == Candidates(ack.confirmed + 1, Min({head, ack.confirmed + Budget}))

(* _snapshot_ref: each call looks at no more than PathEvents events after  *)
(* the trigger or after where the last call in this process stopped.       *)
Cursor(sc, t) == IF t \in DOMAIN sc THEN Max({t, sc[t]}) ELSE t
Resolved(sc, t) == SnapshotOf(Log, t) \in (Cursor(sc, t) + 1)..(Cursor(sc, t) + PathEvents)

Scanned(sc, t) == IF Resolved(sc, t) THEN SnapshotOf(Log, t) - 1 ELSE Cursor(sc, t) + PathEvents

ScanAll(sc) == [t \in InPhase("proof_observed") |-> Scanned(sc, t)]

(* Mutant: a selected trigger itself may be acknowledged. *)
CeilingAtTrigger(sc, t) ==
  IF Phase(t) = "proof_observed" /\ Resolved(sc, t) THEN SnapshotOf(Log, t) ELSE t

(* _correlation_ack_ceiling *)
CorrelationCeiling(sc, t) ==
  IF Phase(t) = "proof_observed" /\ Resolved(sc, t) THEN SnapshotOf(Log, t) ELSE t - 1

CorrelationCeilings(sc) == {CorrelationCeiling(sc, t) : t \in Pending}

GapCeilings == {n - 1 : n \in Openings(head)}

(* _barrier_ceiling *)
Ceiling(sc) == Min({head} \union GapCeilings \union CorrelationCeilings(sc))

(* _local_state with the barrier: the ceiling never falls below what is    *)
(* already confirmed, nor below the pending ACK.                           *)
BarrierHolds ==
  /\ Ceiling(scan) >= ack.confirmed
  /\ ack.pending <= Ceiling(scan)

(* Resolving the ceiling moves the scan cursors. *)
Checked == BarrierHolds /\ scan' = ScanAll(scan)

CheckPoints == {"drive", "repost", "ackthrough", "ackrefs", "ingest", "result"}

LatchBarrier ==
  /\ run.pc \in CheckPoints /\ run.write.to = "none"
  /\ run.pc = "ingest" => Pending # {} /\ InPhase("selected") = {}
  /\ ~BarrierHolds
  /\ scan' = ScanAll(scan)
  /\ Latch("barrier")

-----------------------------------------------------------------------------
(* Durable writes of the loop. *)

Issue(w, next) == Goto([next EXCEPT !.write = w])

AckWrite(f) == [to |-> "ack", frame |-> f]
RequestWrite(r) == [to |-> "request", record |-> r]
EvidenceWrite == [to |-> "evidence"]

(* Journal one phase of a request, or latch when the journal is full. *)
Journal(r, next) ==
  IF RequestsFull THEN Latch("quota") ELSE Issue(RequestWrite(r), next)

Settle(next) == run' = [run EXCEPT !.write = next]

FinishPending ==
  /\ run.write.to = "ack" /\ run.write.frame.kind = "pending"
  /\ AppendPending(run.write.frame.seq)
  /\ Settle(NoWrite)
  /\ UNCHANGED <<corrDisk, corr, observer, head, torn, scan, used>>

(* A confirmation frame is followed at once by its commitment. *)
FinishConfirmed ==
  /\ run.write.to = "ack" /\ run.write.frame.kind = "confirmed"
  /\ AppendConfirmed
  /\ Settle([to |-> "commit"])
  /\ UNCHANGED <<corrDisk, corr, observer, head, torn, scan, used>>

FinishCommitment ==
  /\ run.write.to = "commit"
  /\ PublishGeneration
  /\ Settle(NoWrite)
  /\ UNCHANGED <<corrDisk, corr, observer, head, torn, scan, used>>

FinishRequest ==
  /\ run.write.to = "request"
  /\ AppendRequest(run.write.record)
  /\ Settle(NoWrite)
  /\ UNCHANGED <<ackDisk, ack, fence, observer, head, torn, scan, used>>

(* An accepted candidate trigger is selected before anything else. *)
FinishEvidence ==
  /\ run.write.to = "evidence"
  /\ head' = head + 1
  /\ run' = IF Candidates(head + 1, head + 1) = {} THEN [run EXCEPT !.write = NoWrite]
            ELSE IF RequestsFull THEN Latched("quota")
            ELSE [run EXCEPT !.write = RequestWrite(Record(head + 1, "selected", 0))]
  /\ UNCHANGED <<files, memory, observer, torn, scan, used>>

-----------------------------------------------------------------------------
(* The start of a poll. *)

DiscoverCandidate ==
  /\ At("poll") \/ At("discover")
  /\ Undiscovered # {}
  /\ Journal(Record(Min(Undiscovered), "selected", 0), run)
  /\ UNCHANGED scan

Discovered ==
  /\ At("discover")
  /\ Undiscovered = {}
  /\ Goto([run EXCEPT !.pc = "ackthrough"])
  /\ UNCHANGED scan

DriveState(t, budget) ==
  [run EXCEPT !.pc = "drive", !.t = t, !.budget = budget, !.left = PathEvents]

(* A selected request goes before one whose proof is already here. *)
NextRequest == FirstOf(Log, IF InPhase("selected") # {} THEN InPhase("selected") ELSE Pending)

PollStart ==
  /\ At("poll")
  /\ Undiscovered = {}
  /\ Goto(IF Pending # {} THEN DriveState(NextRequest, Budget)
          ELSE [run EXCEPT !.budget = Budget,
                           !.pc = IF ack.pending # 0 THEN "repost" ELSE "fetch"])
  /\ UNCHANGED scan

Repost ==
  /\ At("repost")
  /\ Checked
  /\ Goto([run EXCEPT !.pc = "ackpost", !.back = "fetch"])

-----------------------------------------------------------------------------
(* Fetching and accepting. *)

FetchPoints == {"path", "fetch", "reconcile"}

NeedsPage ==
  /\ run.pc \in FetchPoints /\ run.write.to = "none"
  /\ run.pc = "path" => head >= run.page /\ run.left > 0

(* Every page must report the ACK cursor Core has confirmed. *)
LatchCursor ==
  /\ NeedsPage
  /\ acked # ack.confirmed
  /\ Latch("cursor")
  /\ UNCHANGED scan

FetchFails ==
  /\ NeedsPage
  /\ used.lost < MaxLost
  /\ run' = Polling
  /\ used' = [used EXCEPT !.lost = @ + 1]
  /\ UNCHANGED <<files, memory, observer, head, torn, scan>>

Page == Min({Len(spool), head + PageLimit})

Fetch ==
  /\ At("fetch")
  /\ acked = ack.confirmed
  /\ Goto([run EXCEPT !.pc = "accept", !.page = Page])
  /\ UNCHANGED scan

AcceptNext(next) == Issue(EvidenceWrite, next)

Accept ==
  /\ At("accept")
  /\ UNCHANGED scan
  /\ IF head \in InPhase("selected") THEN Goto(DriveState(head, run.budget))
     ELSE IF head < run.page THEN AcceptNext(run)
     ELSE Goto([run EXCEPT !.pc = "ackrefs"])

-----------------------------------------------------------------------------
(* Driving one request: POST, the path to the snapshot, the proof. *)

Ingest == [Stopped EXCEPT !.pc = "ingest"]

PostLost ==
  /\ At("drive") /\ Phase(run.t) = "selected" /\ Checked
  /\ used.lost < MaxLost
  /\ spool' \in {spool} \union (IF TriggerRetired(run.t) THEN {} ELSE {Published(run.t)})
  /\ run' = Ingest
  /\ used' = [used EXCEPT !.lost = @ + 1]
  /\ UNCHANGED <<files, memory, acked, head, torn>>

(* The observer answers with the snapshot, an earlier one for the same     *)
(* trigger included, or says that the trigger is gone: then the request is *)
(* retired for good.                                                       *)
PostSelected ==
  /\ At("drive") /\ Phase(run.t) = "selected" /\ Checked
  /\ IF TriggerRetired(run.t)
     THEN Journal(Record(run.t, "retired", 0), Ingest)
     ELSE /\ spool' = Published(run.t)
          /\ LET target == Min({n \in DOMAIN spool' : spool'[n] = Event("snapshot", run.t)})
             IN run' = [run EXCEPT !.snap = target, !.page = head,
                                   !.pc = IF target <= head THEN "observe" ELSE "path"]
          /\ UNCHANGED <<files, memory, acked, head, torn, used>>

(* A recovered proof skips the POST, once its position is known again. *)
ResumeObserved ==
  /\ At("drive") /\ Phase(run.t) = "proof_observed"
  /\ BarrierHolds
  /\ scan' = ScanAll(ScanAll(scan))
  /\ Goto(IF Resolved(ScanAll(scan), run.t)
          THEN [run EXCEPT !.pc = "ackthrough", !.snap = SnapshotOf(Log, run.t)]
          ELSE Ingest)

(* _accept_path_to_snapshot: pages up to the target, at most PathEvents    *)
(* events in one poll.                                                     *)
PathStep ==
  /\ At("path")
  /\ UNCHANGED scan
  /\ IF head < run.page
     THEN AcceptNext([run EXCEPT !.left = @ - 1,
                                 !.pc = IF head + 1 = run.snap THEN "observe" ELSE "path"])
     ELSE IF run.left = 0 THEN Goto(Ingest)
     ELSE /\ acked = ack.confirmed
          /\ Goto([run EXCEPT !.page = Min({Page, run.snap, head + run.left})])

ObserveProof ==
  /\ At("observe")
  /\ Journal(Record(run.t, "proof_observed", run.snap), [run EXCEPT !.pc = "discover"])
  /\ UNCHANGED scan

-----------------------------------------------------------------------------
(* Acknowledging. *)

(* _ack_correlation_through *)
AckThrough ==
  /\ At("ackthrough")
  /\ Checked
  /\ IF ack.confirmed >= run.snap
     THEN Journal(Record(run.t, "completed", run.snap), Ingest)
     ELSE IF run.budget = 0 THEN Goto(Ingest)
     ELSE IF ack.pending # 0 THEN Goto([run EXCEPT !.pc = "ackpost", !.back = "ackthrough"])
     ELSE IF ack.confirmed + 1 > Min({Ceiling(scan), run.snap}) THEN Goto(Ingest)
     ELSE /\ MayRecordPending(ack.confirmed + 1, head)
          /\ Issue(AckWrite(Frame("pending", ack.confirmed + 1)),
                   [run EXCEPT !.pc = "ackpost", !.back = "ackthrough"])

(* The refs of the generic loop are read once, under one ceiling. *)
AckRefs ==
  /\ At("ackrefs")
  /\ Checked
  /\ Goto([run EXCEPT !.pc = "acks", !.page = Min({Ceiling(scan), ack.confirmed + run.budget})])

AckNext ==
  /\ At("acks")
  /\ UNCHANGED scan
  /\ IF ack.confirmed < run.page
     THEN /\ MayRecordPending(ack.confirmed + 1, head)
          /\ Issue(AckWrite(Frame("pending", ack.confirmed + 1)),
                   [run EXCEPT !.pc = "ackpost", !.back = "acks"])
     ELSE Goto(Resulting)

(* The observer takes the next sequence, or the one it has already taken. *)
AckDelivered ==
  /\ At("ackpost")
  /\ acked' = ack.pending
  /\ run' = [run EXCEPT !.pc = run.back, !.budget = @ - 1,
                        !.write = AckWrite(Frame("confirmed", ack.pending))]
  /\ UNCHANGED <<files, memory, spool, head, torn, scan, used>>

AckAmbiguous ==
  /\ At("ackpost")
  /\ used.lost < MaxLost
  /\ acked' \in {acked, ack.pending}
  /\ run' = IF run.back = "ackthrough" THEN Ingest ELSE Resulting
  /\ used' = [used EXCEPT !.lost = @ + 1]
  /\ UNCHANGED <<files, memory, spool, head, torn, scan>>

-----------------------------------------------------------------------------
(* The end of a poll. *)

(* Mutant: observed proofs always wait for their ACKs. *)
NeverReconcile(sc) == FALSE

(* _ingest_after_coverage_blocked_proof: when a gap holds the ACKs below   *)
(* every observed proof, keep accepting so that the gap can close.         *)
MayReconcile(sc) ==
  /\ ack.pending = 0
  /\ \A t \in Pending : Resolved(sc, t) /\ ack.confirmed < SnapshotOf(Log, t)
  /\ Ceiling(scan) < Min({SnapshotOf(Log, t) : t \in Pending})

IngestOrNot ==
  /\ At("ingest")
  /\ IF Pending = {} \/ InPhase("selected") # {}
     THEN Goto(Resulting) /\ UNCHANGED scan
     ELSE /\ BarrierHolds
          /\ scan' = ScanAll(ScanAll(scan))
          /\ Goto(IF MayReconcile(ScanAll(scan)) THEN [run EXCEPT !.pc = "reconcile"] ELSE Resulting)

Reconcile ==
  /\ At("reconcile")
  /\ acked = ack.confirmed
  /\ Goto([run EXCEPT !.pc = "reconciling", !.page = Page])
  /\ UNCHANGED scan

Reconciling ==
  /\ At("reconciling")
  /\ UNCHANGED scan
  /\ IF head < run.page /\ head \notin InPhase("selected") THEN AcceptNext(run)
     ELSE Goto(Resulting)

PollResult ==
  /\ At("result")
  /\ Checked
  /\ Goto(Polling)

-----------------------------------------------------------------------------
(* Opening and closing. *)

Start ==
  /\ run.pc = "down" /\ fence = "none" /\ ~torn
  /\ IF TemporaryDecodes(ackDisk)
     THEN /\ ack' = AckScanned(ackDisk)
          /\ corr' = CorrScanned(corrDisk)
          /\ run' = [run EXCEPT !.pc = "open"]
          /\ UNCHANGED fence
     ELSE Fence("ack_temporary") /\ UNCHANGED <<ack, corr, run>>
  /\ UNCHANGED <<ackDisk, corrDisk, observer, head, torn, scan, used>>

OpenAck ==
  /\ At("open") /\ ack.state # "initialized"
  /\ IF AckRefused(head) THEN RefuseAck /\ run' = Stopped
     ELSE (PublishInitializing \/ CreateAckLog \/ PublishReady \/ RecoverAck(head)) /\ UNCHANGED run
  /\ UNCHANGED <<corrDisk, corr, observer, head, torn, scan, used>>

OpenRequests ==
  /\ At("open") /\ ack.state = "initialized"
  /\ \/ (CreateRequests \/ RecoverRequests) /\ run' = Polling /\ UNCHANGED fence
     \/ RefuseRequests /\ Fence("request_tail") /\ run' = Stopped
  /\ UNCHANGED <<ackDisk, ack, observer, head, torn, scan, used>>

(* A fatal latch ends the process; it closes its files and is restarted. *)
Exit ==
  /\ run.pc = "fatal"
  /\ CloseAck
  /\ corr' = CorrDown
  /\ run' = Stopped
  /\ scan' = <<>>
  /\ UNCHANGED <<corrDisk, observer, head, torn, used>>

(* The signed repair of a torn tail (TailRepair), as delivery sees it: its *)
(* authorization joins the stream, and everything up to it is accepted and *)
(* acknowledged in order; no request of the correlation journal holds it.  *)
RepairLog(n) == [i \in 1..(2 * n) |-> Frame(IF i % 2 = 1 THEN "pending" ELSE "confirmed", (i + 1) \div 2)]

RepairDrain ==
  /\ run.pc = "down" /\ fence = "none" /\ torn
  /\ TemporaryDecodes(ackDisk) /\ ackDisk.log # NoLog /\ AckRecoverable(ackDisk, head)
  /\ Openings(Len(spool)) = {}
  /\ spool' = Append(spool, Event("plain", 0))
  /\ head' = Len(spool')
  /\ acked' = head'
  /\ ackDisk' = [commit |-> Ready(head'), log |-> RepairLog(head'), torn |-> FALSE, temp |-> "none"]
  /\ torn' = FALSE
  /\ used' = [used EXCEPT !.repairs = @ + 1]
  /\ UNCHANGED <<fence, corrDisk, memory, run, scan>>

-----------------------------------------------------------------------------
(* Crashes and I/O errors. *)

AckAfterCrash ==
  CASE run.write.to = "ack" -> InterruptedAppend(run.write.frame)
    [] run.write.to = "commit" -> InterruptedPublication(NextGeneration)
    [] At("open") /\ ack.state = "fresh" -> InterruptedPublication(InitializingGenesis)
    [] At("open") /\ ack.state \in {"bootstrap", "initialization_uncertain"} /\ ackDisk.log # NoLog ->
         InterruptedPublication(ReadyGenesis)
    [] At("open") /\ ack.state = "present" /\ AckRecoverable(ackDisk, head) ->
         IF Ahead(ackDisk) = 1 THEN InterruptedPublication(RecoveredAck) ELSE {ackDisk, RecoveredAck}
    [] OTHER -> {ackDisk}

CorrAfterCrash ==
  IF run.write.to = "request" THEN InterruptedRequest(run.write.record) ELSE {corrDisk}

(* An interrupted evidence append is there, is not there, or is torn. *)
EvidenceAfterCrash ==
  IF run.write.to # "evidence" THEN {<<head, FALSE>>}
  ELSE {<<head, FALSE>>, <<head + 1, FALSE>>}
         \union (IF used.repairs < MaxRepairs THEN {<<head, TRUE>>} ELSE {})

Crash ==
  /\ run.pc # "down"
  /\ used.crashes < MaxCrashes
  /\ ackDisk' \in AckAfterCrash
  /\ corrDisk' \in CorrAfterCrash
  /\ \E e \in EvidenceAfterCrash : head' = e[1] /\ torn' = e[2]
  /\ ack' = AckDown
  /\ corr' = CorrDown
  /\ run' = Stopped
  /\ scan' = <<>>
  /\ used' = [used EXCEPT !.crashes = @ + 1]
  /\ UNCHANGED <<fence, observer>>

WriteFails ==
  /\ used.errors < MaxIoErrors
  /\ \/ run.write.to = "ack" /\ AckAppendFails(run.write.frame) /\ UNCHANGED <<corrDisk, corr>>
     \/ run.write.to = "commit" /\ PublishGenerationFails /\ UNCHANGED <<corrDisk, corr>>
     \/ run.write.to = "request" /\ RequestAppendFails(run.write.record) /\ UNCHANGED ackVars
  /\ run' = Latched("io")
  /\ used' = [used EXCEPT !.errors = @ + 1]
  /\ UNCHANGED <<observer, head, torn, scan>>

OpenFails ==
  /\ At("open")
  /\ used.errors < MaxIoErrors
  /\ PublishInitializingFails \/ PublishReadyFails \/ RecoverAckFails(head)
  /\ run' = Latched("io")
  /\ used' = [used EXCEPT !.errors = @ + 1]
  /\ UNCHANGED <<corrDisk, corr, observer, head, torn, scan>>

-----------------------------------------------------------------------------
CoreStep ==
  \/ Start \/ OpenAck \/ OpenRequests \/ Exit \/ RepairDrain
  \/ FinishPending \/ FinishConfirmed \/ FinishCommitment \/ FinishRequest \/ FinishEvidence
  \/ DiscoverCandidate \/ Discovered \/ PollStart \/ Repost
  \/ LatchBarrier \/ LatchCursor \/ Fetch \/ Accept
  \/ PostSelected \/ ResumeObserved \/ PathStep \/ ObserveProof
  \/ AckThrough \/ AckRefs \/ AckNext \/ AckDelivered
  \/ IngestOrNot \/ Reconcile \/ Reconciling \/ PollResult

Next ==
  \/ CoreStep
  \/ \E k \in {"plain", "trigger", "open", "close"} : Emit(k)
  \/ FetchFails \/ PostLost \/ AckAmbiguous
  \/ Crash \/ WriteFails \/ OpenFails

(* Core's process is restarted whenever it ends, and its loop keeps        *)
(* running; crashes, losses and new events are never forced.               *)
Spec == Init /\ [][Next]_vars /\ WF_vars(CoreStep)
=============================================================================
