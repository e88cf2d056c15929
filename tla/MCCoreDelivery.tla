--------------------------- MODULE MCCoreDelivery ---------------------------
(***************************************************************************)
(* Properties of Core's delivery loop, checked on small streams.           *)
(***************************************************************************)
EXTENDS CoreDelivery

Triggers == {n \in DOMAIN spool : spool[n].kind = "trigger"}

DurablePhase(t) == IF Log = NoRequests THEN "none" ELSE Phase(t)

TypeOK ==
  /\ acked \in 0..Len(spool)
  /\ head \in 0..Len(spool)
  /\ torn \in BOOLEAN
  /\ run.write.to \in {"none", "ack", "commit", "request", "evidence"}

(* No trigger leaves the observer before its proof is durable here: once   *)
(* the observer's ACK cursor reaches a candidate trigger, the request      *)
(* journal on disk holds its proof and the snapshot is accepted evidence.  *)
(* Only a tail repair, which drains regardless of requests, is exempt.     *)
ProofBeforeAck ==
  used.repairs = 0 =>
    \A t \in Triggers : acked >= t =>
      /\ DurablePhase(t) \in {"proof_observed", "completed"}
      /\ SnapshotOf(Log, t) <= head
      /\ spool[SnapshotOf(Log, t)] = Event("snapshot", t)

(* The observer's cursor is always one Core can account for from disk      *)
(* alone: the last confirmed ACK or the pending one, and never past the    *)
(* accepted evidence, whatever crashed, failed or was lost.                *)
CursorAccounted ==
  IF ackDisk.log = NoLog THEN acked = 0
  ELSE acked \in {ConfirmedOf(ackDisk.log), PendingOf(ackDisk.log)} /\ acked <= head

(* No ACK passes an open sequence gap.                                     *)
GapNotAcked == \A n \in Openings(head) : acked < n

(* Whatever a crash or an I/O error leaves of the ACK journal and its      *)
(* commitment, recovery never takes it for a contradiction.                *)
AckAlwaysRecovers == fence # "ack_journal"

(* A fatal latch has a known cause: the barrier falls below a confirmed    *)
(* ACK only after a repair drained past a request, or when a snapshot lies *)
(* farther from its trigger than one scan reaches; a page contradicts the  *)
(* confirmed ACK only while another ACK is unsettled.                      *)
FarProof == \E t \in InPhase("proof_observed") : SnapshotOf(Log, t) > t + PathEvents

LatchesExplained ==
  run.pc = "fatal" =>
    /\ run.back = "barrier" => used.repairs > 0 \/ FarProof
    /\ run.back = "cursor" => ack.pending # 0

(* Across crashes, what is durable never goes back: confirmations and the  *)
(* observer's cursor only grow, a commitment never falls behind an earlier *)
(* one, and no request returns to an earlier phase or changes its proof.   *)
PhaseRank(p) == CASE p = "none" -> 0 [] p = "selected" -> 1
                  [] p = "proof_observed" -> 2 [] OTHER -> 3

DurableForward ==
  [][/\ acked' >= acked
     /\ head' >= head
     /\ ackDisk.log # NoLog => /\ ConfirmedOf(ackDisk'.log) >= ConfirmedOf(ackDisk.log)
                               /\ ackDisk'.commit.generation >= ackDisk.commit.generation
     /\ Log # NoRequests => \A t \in Requested(Log) :
          /\ PhaseRank(PhaseOf(Log', t)) >= PhaseRank(Phase(t))
          /\ Phase(t) \in {"proof_observed", "completed"} => SnapshotOf(Log', t) = SnapshotOf(Log, t)
     /\ fence # "none" => fence' = fence]_vars

(* Everything emitted is accepted, acknowledged, and every request ended;  *)
(* a repair acknowledges triggers without a request.                       *)
Settled ==
  /\ head = Len(spool)
  /\ acked = head
  /\ ackDisk.log # NoLog => ConfirmedOf(ackDisk.log) = head
  /\ \A t \in Triggers : DurablePhase(t) \in TerminalPhases \union (IF used.repairs > 0 THEN {"none"} ELSE {})

(* The stream lets delivery finish: no gap stays open, the root is not     *)
(* fenced and the request journal not full.                                *)
Deliverable ==
  /\ Openings(Len(spool)) = {}
  /\ fence = "none"
  /\ run.back # "quota"

(* Delivery converges: after any crashes, lost messages and I/O errors the *)
(* stream is drained, if every gap closes and the root is not fenced.      *)
DeliveryConverges == <>[]Deliverable => <>[]Settled

(* The same, when no ACK is unsettled while a path is fetched, no snapshot *)
(* lies beyond one scan and no repair drained past a request.              *)
Undisturbed ==
  /\ Deliverable
  /\ run.pc = "fatal" => run.back \notin {"cursor", "barrier"}

ConvergesUndisturbed == <>[]Undisturbed => <>[]Settled
=============================================================================
