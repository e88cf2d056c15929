----------------------------- MODULE Retention ------------------------------
(***************************************************************************)
(* Evidence retention in Core: the controller's retention transaction, the *)
(* observer's control endpoint it reports to, the segment store it removes *)
(* payloads from, the state file that makes the removal survive a crash,   *)
(* and the recovery that a restart runs before anything else.              *)
(*                                                                         *)
(* spool    the observer's signed event stream                             *)
(* chain    Core's accepted evidence: one manifest per event, never erased *)
(* payload  the positions whose payload file is on disk                    *)
(* ack      the ACK journal: confirmed prefix, and the pending ACK or 0    *)
(* file     retention-state.json                                           *)
(* temp     temporaries an interrupted publication left beside it          *)
(* cache    the retention boundary cache                                   *)
(* run      the process: where its retention transaction stands            *)
(* now      the wall clock                                                 *)
(* used     how much of each bound has been spent                          *)
(***************************************************************************)
EXTENDS RetentionSelection

CONSTANTS
  Kinds,         \* of the ordinary events
  MaxEvents,     \* ordinary events the observer emits
  MaxRequests,   \* retention requests Core makes
  MaxTime,       \* of the wall clock
  MaxFaults,     \* crashes, lost answers, I/O errors and backward clock steps
  MaxBacklog,    \* ordinary events the observer is ahead of Core
  PathEvents     \* events one delivery may accept on the way to its target

ASSUME RetentionAssumption ==
  /\ Kinds \subseteq {"routine", "kept", "protected"}
  /\ {MaxEvents, MaxRequests, MaxTime, MaxFaults, MaxBacklog} \subseteq Nat
  /\ PathEvents \in Nat \ {0}

VARIABLES spool, chain, payload, ack, file, temp, cache, run, now, used

vars == <<spool, chain, payload, ack, file, temp, cache, run, now, used>>

Missing == DOMAIN chain \ payload

At(pc) == run.pc = pc
Goto(pc) == run' = [run EXCEPT !.pc = pc]

(* An exception leaves the retention transaction: nothing catches it in    *)
(* the runtime's loop, and the process ends.                               *)
Exit == run' = [pc |-> "down", target |-> 0]

(* flush_security_boundary: the active segment is sealed.                  *)
Flushed(c) == [i \in DOMAIN c |-> IF c[i].closed = 0 THEN [c[i] EXCEPT !.closed = now] ELSE c[i]]

-----------------------------------------------------------------------------
(* The observer, the clock, and ordinary delivery. *)

Emit(kind) ==
  /\ used.events < MaxEvents /\ Len(spool) < Len(chain) + MaxBacklog
  /\ spool' = Append(spool, [kind |-> kind, req |-> NoRequest])
  /\ used' = [used EXCEPT !.events = @ + 1]
  /\ UNCHANGED <<chain, payload, ack, file, temp, cache, run, now>>

Tick ==
  /\ now < MaxTime
  /\ now' = now + 1
  /\ UNCHANGED <<spool, chain, payload, ack, file, temp, cache, run, used>>

StepBack ==
  /\ used.faults < MaxFaults /\ now > 1
  /\ now' = now - 1
  /\ used' = [used EXCEPT !.faults = @ + 1]
  /\ UNCHANGED <<spool, chain, payload, ack, file, temp, cache, run>>

(* The next event becomes durable evidence; the segment before it is       *)
(* closed by the rotation.                                                 *)
Accepted == Append(Flushed(chain), Fact(spool[Len(chain) + 1]))

(* An ordinary poll does not look at the retention state.                  *)
Poll ==
  /\ At("idle") /\ Len(chain) < Len(spool)
  /\ chain' = Accepted
  /\ payload' = payload \union {Len(chain) + 1}
  /\ UNCHANGED <<spool, ack, file, temp, cache, run, now, used>>

PrepareAck ==
  /\ At("idle") /\ ack.pending = 0 /\ ack.confirmed < Len(chain)
  /\ ack' = [ack EXCEPT !.pending = ack.confirmed + 1]
  /\ UNCHANGED <<spool, chain, payload, file, temp, cache, run, now, used>>

ConfirmAck ==
  /\ At("idle") /\ ack.pending # 0
  /\ ack' = [confirmed |-> ack.pending, pending |-> 0]
  /\ UNCHANGED <<spool, chain, payload, file, temp, cache, run, now, used>>

-----------------------------------------------------------------------------
(* The state file: written whole, by a temporary and a rename. *)

(* publish_initial_retention_state, and the exchange behind a compare and  *)
(* swap; either is over when the directory is synced.                      *)
Publish(state) == file' = state
Replace(phase, target) == Publish(Advance(file, phase, target))

(* The file is renamed aside and unlinked.                                 *)
Clear == Publish(NoFile)

-----------------------------------------------------------------------------
(* _execute_retention_locked: selection. *)

(* _require_retention_payload_namespace: one payload for every manifest.   *)
PayloadNamespace == payload = DOMAIN chain

(* _freeze_retention_snapshot over the settled chain.                      *)
Freezes(facts, clock) == PayloadNamespace /\ SnapshotValid(Snapshot(facts, clock))

(* Mutant: the ACK already has to rest on a record after the run.          *)
SurvivorConfirmed(state) == state.req.op = "tombstone" => ack.confirmed > state.req.hi

(* The selected evidence must have been acknowledged.                      *)
PrefixConfirmed(state) == state.req.op = "tombstone" => ack.confirmed >= state.req.hi

(* With a durable request in hand: deliver it, wait for the ACKs it needs, *)
(* or leave an unlink that has begun to the next start.                    *)
WithState(state) ==
  IF state.phase \notin OpenPhases THEN Exit
  ELSE IF ~PrefixConfirmed(state) THEN Goto("idle")
  ELSE Goto("deliver")

(* A sample of the clock, and its health.                                  *)
Clocks == [at : {now}, healthy : BOOLEAN, uncertainty : 0..MaxUncertainty]

(* No durable state: freeze, choose, and publish the request if there is   *)
(* one to make.                                                            *)
SelectRetention(clock) ==
  /\ At("idle") /\ ack.pending = 0 /\ file = NoFile
  /\ used.requests < MaxRequests
  /\ chain' = Flushed(chain)
  /\ \E req \in {Decision(chain', clock, used.requests + 1)} :
       IF ~Freezes(chain', clock) \/ ~DecisionExact(chain', req)
       THEN Exit /\ UNCHANGED <<file, used>>
       ELSE IF req = NoRequest
       THEN UNCHANGED <<file, run, used>>
       ELSE /\ Publish(SelectedState(Snapshot(chain', clock), req))
            /\ WithState(file')
            /\ used' = [used EXCEPT !.requests = @ + 1]
  /\ UNCHANGED <<spool, payload, ack, temp, cache, now>>

(* A durable state is taken up where it stands.                            *)
ResumeRetention ==
  /\ At("idle") /\ ack.pending = 0 /\ file # NoFile
  /\ WithState(file)
  /\ UNCHANGED <<spool, chain, payload, ack, file, temp, cache, now, used>>

-----------------------------------------------------------------------------
(* _deliver_retention_target_locked *)

Bound == file.phase = "target_bound" /\ file.target <= Len(chain)
Historical == At("deliver") /\ (Bound \/ file.phase = "evidence_appended")
Future == At("deliver") /\ ~Historical

(* The target is already accepted: prove it, and record that unless it is  *)
(* on record.                                                              *)
DeliverHistorical ==
  /\ Historical
  /\ chain' = IF Bound THEN Flushed(chain) ELSE chain
  /\ Replace("evidence_appended", file.target)
  /\ Goto("settle")
  /\ UNCHANGED <<spool, payload, ack, temp, cache, now, used>>

(* The observer appends one control event for a request, and answers a     *)
(* repeated request with the event it already has.                         *)
Issued(req) == {i \in DOMAIN spool : spool[i].req = req}
Published(req) ==
  IF Issued(req) # {} THEN spool ELSE Append(spool, [kind |-> req.op, req |-> req])
Receipt(req) == IF Issued(req) # {} THEN Min(Issued(req)) ELSE Len(spool) + 1

Post ==
  /\ Future
  /\ spool' = Published(file.req)
  /\ run' = [pc |-> "answer", target |-> Receipt(file.req)]
  /\ UNCHANGED <<chain, payload, ack, file, temp, cache, now, used>>

(* The control event exists but its answer does not arrive; the caller     *)
(* sees observer_retryable.                                                *)
PostLost ==
  /\ Future /\ used.faults < MaxFaults
  /\ spool' = Published(file.req)
  /\ used' = [used EXCEPT !.faults = @ + 1]
  /\ Goto("idle")
  /\ UNCHANGED <<chain, payload, ack, file, temp, cache, now>>

(* The observer is not ready, or cannot be reached.                        *)
PostRefused ==
  /\ Future /\ used.faults < MaxFaults
  /\ used' = [used EXCEPT !.faults = @ + 1]
  /\ Goto("idle")
  /\ UNCHANGED <<spool, chain, payload, ack, file, temp, cache, now>>

(* The answer must be ahead of the evidence ...                            *)
AheadOfEvidence == run.target > Len(chain)

(* ... and the pages up to it within the bounds of one preflight ...       *)
PathReaches == run.target - Len(chain) <= PathEvents

(* ... where it is the same event, and the target already bound if any.    *)
PreflightHolds ==
  /\ AheadOfEvidence /\ PathReaches
  /\ spool[run.target].req = file.req
  /\ file.target \in {0, run.target}

Answer ==
  /\ At("answer")
  /\ IF PreflightHolds
     THEN Replace("target_bound", run.target) /\ Goto("accept")
     ELSE Exit /\ UNCHANGED file
  /\ UNCHANGED <<spool, chain, payload, ack, temp, cache, now, used>>

(* Each event of the proved path is accepted in turn ...                   *)
AcceptItem ==
  /\ At("accept") /\ Len(chain) < run.target
  /\ chain' = Accepted
  /\ payload' = payload \union {Len(chain) + 1}
  /\ UNCHANGED <<spool, ack, file, temp, cache, run, now, used>>

(* ... and the settled target advances the state.                          *)
AdvanceAppended ==
  /\ At("accept") /\ Len(chain) = run.target
  /\ chain' = Flushed(chain)
  /\ Replace("evidence_appended", run.target)
  /\ run' = [pc |-> "settle", target |-> 0]
  /\ UNCHANGED <<spool, payload, ack, temp, cache, now, used>>

-----------------------------------------------------------------------------
(* After delivery. *)

(* The report is the evidence at the state's target.                       *)
BlockedProved ==
  /\ file.phase = "evidence_appended"
  /\ file.target \in BlockedReports(chain) /\ chain[file.target].req = file.req

(* A blocked report is complete once it is evidence.                       *)
ClearBlocked ==
  /\ At("settle") /\ file.req.op = "blocked" /\ BlockedProved
  /\ Clear
  /\ Goto("idle")
  /\ UNCHANGED <<spool, chain, payload, ack, temp, cache, now, used>>

(* The ACK journal must rest on a record that survives the removal.        *)
AckSurvives(req) == ack.pending = 0 /\ ack.confirmed >= req.hi + 1

AckLags ==
  /\ At("settle") /\ file.req.op = "tombstone" /\ ~AckSurvives(file.req)
  /\ Goto("idle")
  /\ UNCHANGED <<spool, chain, payload, ack, file, temp, cache, now, used>>

(* _authenticate_store_retention_tombstone: the durable request is the     *)
(* tombstone the evidence holds at its target ...                          *)
TargetProved(facts) ==
  /\ file.phase = "evidence_appended"
  /\ file.target \in Tombstones(facts) /\ facts[file.target].req = file.req
  /\ file.req.h0 < file.target /\ file.witness.through < file.target

(* ... no other tombstone meets its run or comes out of order ...          *)
OthersApart(facts) ==
  /\ \A i \in Tombstones(facts) \ {file.target} :
       /\ facts[i].req.id # file.req.id
       /\ i < file.target => facts[i].req.hi < file.req.lo
       /\ i > file.target => facts[i].req.lo > file.req.hi
       /\ RunExact(facts, i)
  /\ PriorIndex(facts, file.witness.through) = file.witness.prior

(* ... and the selector, run again over the prefix and the clock of the    *)
(* choice, decides on the same tombstone; the clock is not behind it.      *)
Reproduced(facts) ==
  /\ now >= file.witness.clock.at
  /\ \E prefix \in {SubSeq(facts, 1, file.req.h0)} :
       \E selected \in {Selected(prefix, file.witness.clock)} :
         /\ selected # {}
         /\ \E removed \in {FirstRun(selected)} :
              TombstoneOf(prefix, file.witness.clock, file.req.id, removed) = file.req

Authentic(facts) == TargetProved(facts) /\ OthersApart(facts) /\ Reproduced(facts)

Authenticate ==
  /\ At("settle") /\ file.req.op = "tombstone" /\ AckSurvives(file.req)
  /\ chain' = Flushed(chain)
  /\ IF Freezes(chain', NoClock) /\ Authentic(chain') THEN Goto("unlink") ELSE Exit
  /\ UNCHANGED <<spool, payload, ack, file, temp, cache, now, used>>

-----------------------------------------------------------------------------
(* _execute_authenticated_retention_unlink *)

Present == RunOf(file.req) \intersect payload

(* Mutant: payloads go before the state file says so.                      *)
UnlinkUnannounced ==
  /\ At("unlink") /\ AckSurvives(file.req)
  /\ Goto("unlinking")
  /\ UNCHANGED <<spool, chain, payload, ack, file, temp, cache, now, used>>

(* The lease holds every payload of the run open, and everything else is   *)
(* where its manifest says.                                                *)
LeaseHolds == PayloadNamespace /\ RunOf(file.req) \subseteq payload

(* The durable announcement comes before the first payload is touched.     *)
BeginUnlink ==
  /\ At("unlink")
  /\ IF LeaseHolds /\ AckSurvives(file.req)
     THEN Replace("unlink_in_progress", file.target) /\ Goto("unlinking")
     ELSE Exit /\ UNCHANGED file
  /\ UNCHANGED <<spool, chain, payload, ack, temp, cache, now, used>>

(* Mutant: the run is taken one position too far.                          *)
UnlinkOneMore ==
  LET present == (file.req.lo..file.req.hi + 1) \intersect payload IN
  /\ At("unlinking") /\ present # {}
  /\ payload' = payload \ {Min(present)}
  /\ UNCHANGED <<spool, chain, ack, file, temp, cache, run, now, used>>

(* One held payload after the other, in chain order.                       *)
UnlinkPayload ==
  /\ At("unlinking") /\ Present # {}
  /\ payload' = payload \ {Min(Present)}
  /\ UNCHANGED <<spool, chain, ack, file, temp, cache, run, now, used>>

(* An error after the first attempt: the uncertainty is recorded when it   *)
(* still can be, and the store is no longer used.                          *)
UnlinkFails ==
  /\ At("unlinking") /\ used.faults < MaxFaults
  /\ used' = [used EXCEPT !.faults = @ + 1]
  /\ file' \in {file, Advance(file, "commit_uncertain", file.target)}
  /\ Exit
  /\ UNCHANGED <<spool, chain, payload, ack, temp, cache, now>>

(* The run is missing and nothing else is.                                 *)
NamespaceAfterUnlink == Missing = RunOf(file.req)

(* Every payload is gone and the directories are synced: the records leave *)
(* the verifier and the index, and the state says so.                      *)
CompleteUnlink ==
  /\ At("unlinking") /\ Present = {}
  /\ IF NamespaceAfterUnlink
     THEN Replace("completed", file.target) /\ Goto("rebuild")
     ELSE Replace("commit_uncertain", file.target) /\ Exit
  /\ UNCHANGED <<spool, chain, payload, ack, temp, cache, now, used>>

(* The projection is rebuilt over what is left, or refuses to be and the   *)
(* process ends: which of the two is the subject of Projection.            *)
Rebuild ==
  /\ At("rebuild")
  /\ Goto("boundary") \/ Exit
  /\ UNCHANGED <<spool, chain, payload, ack, file, temp, cache, now, used>>

(* The completion is still what the unlink left.                           *)
CompletionHolds == file.phase = "completed" /\ NamespaceAfterUnlink

(* The boundary cache names every tombstone of the evidence ...            *)
PublishBoundary ==
  /\ At("boundary")
  /\ IF CompletionHolds THEN cache' = Boundary(chain) /\ Goto("clear") ELSE Exit /\ UNCHANGED cache
  /\ UNCHANGED <<spool, chain, payload, ack, file, temp, now, used>>

(* ... and then the state file goes.                                       *)
ClearCompleted ==
  /\ At("clear")
  /\ Clear
  /\ Goto("idle")
  /\ UNCHANGED <<spool, chain, payload, ack, temp, cache, now, used>>

-----------------------------------------------------------------------------
(* Crashes, and the recovery of the next start. *)

(* What a process that stops inside a publication leaves beside the file.  *)
Litter ==
  IF run.pc \in {"boundary", "recache"} THEN {{}, {"boundary"}}
  ELSE IF run.pc \in {"deliver", "rebuild"} THEN {{}}
  ELSE {{}, {"state"}}

Crash ==
  /\ run.pc \notin {"down", "fenced", "failed"} /\ used.faults < MaxFaults
  /\ used' = [used EXCEPT !.faults = @ + 1]
  /\ temp' \in {temp \union left : left \in Litter}
  /\ Exit
  /\ UNCHANGED <<spool, chain, payload, ack, file, cache, now>>

(* Each tombstone of the replayed evidence still fits the chain.           *)
TombstonesRecover == PriorCoverage(chain)

(* The state's target is in the evidence, and is its request.              *)
CurrentTarget ==
  /\ file.req.op = "tombstone" /\ file.target # 0
  /\ file.target \in Tombstones(chain) /\ chain[file.target].req = file.req

PhaseNeedsTarget ==
  \/ file.phase \in {"evidence_appended", "completed"} \union UnlinkPhases
  \/ file.phase = "target_bound" /\ file.target <= Len(chain)

(* What must be missing, and what must not, for the phase on disk.         *)
PayloadsMatchPhase ==
  LET own == IF CurrentTarget THEN RunOf(file.req) ELSE {} IN
  /\ Missing \subseteq Covered(chain)
  /\ Covered(chain) \ own \subseteq Missing
  /\ file.phase \in OpenPhases => RunOf(file.req) \intersect Missing = {}
  /\ file.phase = "completed" => RunOf(file.req) \subseteq Missing

(* The ACK journal is opened before anything is resumed: it must reach     *)
(* past whatever is retired or about to be.                                *)
AckRecoversPast ==
  /\ \A i \in Missing : ack.confirmed >= i + 1
  /\ file.phase \in UnlinkPhases => AckSurvives(file.req)

(* _authenticate_retention_recovery *)
RecoveryAuthentic ==
  /\ TombstonesRecover
  /\ file.req.op = "tombstone" /\ PhaseNeedsTarget => CurrentTarget
  /\ PayloadsMatchPhase
  /\ AckRecoversPast

(* What recovery has left to do.                                           *)
AfterRecovery(phase) == IF phase \in UnlinkPhases THEN "resume" ELSE "recache"

(* _bind_and_recover: what cannot be authenticated fences the root for     *)
(* good ("segment_corrupt"); a bound target found in the evidence is       *)
(* recorded as appended.                                                   *)
Recover ==
  /\ At("down")
  /\ IF RecoveryAuthentic
     THEN /\ temp' = temp \ {"state"}
          /\ IF file.phase = "target_bound" /\ CurrentTarget
             THEN Replace("evidence_appended", file.target) ELSE UNCHANGED file
          /\ Goto(AfterRecovery(file.phase))
     ELSE Goto("fenced") /\ UNCHANGED <<file, temp>>
  /\ UNCHANGED <<spool, chain, payload, ack, cache, now, used>>

ResumeUnlink ==
  /\ At("resume") /\ Present # {}
  /\ payload' = payload \ {Min(Present)}
  /\ UNCHANGED <<spool, chain, ack, file, temp, cache, run, now, used>>

ResumeCompleted ==
  /\ At("resume") /\ Present = {}
  /\ Replace("completed", file.target)
  /\ Goto("recache")
  /\ UNCHANGED <<spool, chain, payload, ack, temp, cache, now, used>>

(* An I/O error in recovery is not told from corruption: it also fences.   *)
RecoveryFails ==
  /\ run.pc \in {"resume", "recache"} /\ used.faults < MaxFaults
  /\ used' = [used EXCEPT !.faults = @ + 1]
  /\ file' \in {file, Advance(file, "commit_uncertain", file.target)}
  /\ Goto("failed")
  /\ UNCHANGED <<spool, chain, payload, ack, temp, cache, now>>

(* The boundary cache is brought up to date, and a completed state goes.   *)
ReconcileBoundary ==
  /\ At("recache")
  /\ cache' = Boundary(chain)
  /\ temp' = {}
  /\ IF file.phase = "completed" THEN Goto("clear") ELSE Goto("idle")
  /\ UNCHANGED <<spool, chain, payload, ack, file, now, used>>

-----------------------------------------------------------------------------
Init ==
  /\ spool = <<>> /\ chain = <<>> /\ payload = {}
  /\ ack = [confirmed |-> 0, pending |-> 0]
  /\ file = NoFile /\ temp = {} /\ cache = {}
  /\ run = [pc |-> "idle", target |-> 0]
  /\ now = 1
  /\ used = [events |-> 0, requests |-> 0, faults |-> 0]

Selecting == \E clock \in Clocks : SelectRetention(clock)

CarryOut ==
  \/ ResumeRetention \/ DeliverHistorical \/ Post \/ Answer \/ AcceptItem \/ AdvanceAppended
  \/ ClearBlocked \/ AckLags \/ Authenticate
  \/ BeginUnlink \/ UnlinkPayload \/ CompleteUnlink \/ Rebuild \/ PublishBoundary \/ ClearCompleted

Recovery == Recover \/ ResumeUnlink \/ ResumeCompleted \/ ReconcileBoundary

Ordinary == Poll \/ PrepareAck \/ ConfirmAck

Faults == Crash \/ PostLost \/ PostRefused \/ UnlinkFails \/ RecoveryFails \/ StepBack

Next ==
  \/ \E kind \in Kinds : Emit(kind)
  \/ Tick \/ Ordinary \/ Selecting \/ CarryOut \/ Faults \/ Recovery

Spec == Init /\ [][Next]_vars

-----------------------------------------------------------------------------
(* No payload leaves the disk, through any crash or error, unless it is    *)
(* dense routine evidence that a tombstone in Core's own evidence names:   *)
(* the unlink, its recovery, and the proof before both.                    *)
RemovedIsTombstoned ==
  \A i \in Missing : /\ chain[i].kind = "routine"
                     /\ \E t \in Tombstones(chain) : i \in RunOf(chain[t].req) /\ t > i

(* Evidence is removed only behind the ACK journal: the observer has been  *)
(* told of the removed event and of one that survives it.                  *)
RemovedIsConfirmed == \A i \in Missing : ack.confirmed > i

(* When the state file is gone, no removal is half done: exactly what the  *)
(* tombstones cover is missing.                                            *)
NoHalfRemoval == file = NoFile => Missing = Covered(chain)

(* The control event of the durable request was accepted by an ordinary    *)
(* poll before the request was bound to it.                                *)
Stranded ==
  /\ file.phase = "selected"
  /\ \E i \in DOMAIN chain : chain[i].req = file.req

(* A restart fences the evidence root only in that one case; whatever else *)
(* a crash or an error interrupts, recovery authenticates.                 *)
FencedIsStranded == At("fenced") => Stranded

(* A request is never dropped: its state file goes only when its control   *)
(* event is evidence and, for a tombstone, its whole run is gone.          *)
RequestCarriedOut ==
  [][file # NoFile /\ file' = NoFile =>
       /\ file.target \in DOMAIN chain /\ chain[file.target].req = file.req
       /\ RunOf(file.req) \intersect payload = {}]_vars
=============================================================================
