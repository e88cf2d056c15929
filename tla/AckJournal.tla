----------------------------- MODULE AckJournal -----------------------------
(***************************************************************************)
(* Core's durable ACK authority: the frame log ack-journal.agf             *)
(* (ingest/ack_journal.py) and the commitment file ack-commitment.json     *)
(* beside it (evidence/segments.py), which says how many confirmations the *)
(* log must at least hold.                                                 *)
(*                                                                         *)
(* A confirmation is a frame first and a commitment second, so a restart   *)
(* may find the log one confirmation ahead, and never behind.  A commit-   *)
(* ment is replaced through a temporary file that a crash can leave behind *)
(* empty or cut short ("partial") or complete ("whole").                   *)
(*                                                                         *)
(* Evidence sequences are dense here: the next evidence after n is n + 1.  *)
(***************************************************************************)
EXTENDS Integers, Sequences, FiniteSetsExt

VARIABLES
  ackDisk,  \* commit, log (or NoLog), torn, temp
  ack,      \* the open journal and the store's memory of its files
  fence     \* "none", or why the evidence root was made read-only for good

ackVars == <<ackDisk, ack, fence>>

Frame(kind, n) == [kind |-> kind, seq |-> n]
NoLog == <<Frame("absent", 0)>>

NoCommitment == [phase |-> "none", generation |-> 0]
Initializing == [phase |-> "initializing", generation |-> 0]
Ready(g) == [phase |-> "ready", generation |-> g]

EmptyAckDisk == [commit |-> NoCommitment, log |-> NoLog, torn |-> FALSE, temp |-> "none"]

AckDown == [state |-> "unknown", healthy |-> FALSE, confirmed |-> 0, pending |-> 0,
            seen |-> <<NoLog, FALSE>>, bound |-> NoCommitment]

AckInit == ackDisk = EmptyAckDisk /\ ack = AckDown /\ fence = "none"

-----------------------------------------------------------------------------
(* What a log says. *)

Frames(log, kind) == {i \in DOMAIN log : log[i].kind = kind}

ConfirmedOf(log) == LET C == Frames(log, "confirmed")
                    IN IF C = {} THEN 0 ELSE log[Max(C)].seq

PendingOf(log) == IF log # <<>> /\ log[Len(log)].kind = "pending" THEN log[Len(log)].seq ELSE 0

GenerationOf(log) == Cardinality(Frames(log, "confirmed"))

(* Each frame continues what the frames before it left: a pending ACK is   *)
(* the next accepted evidence when nothing is pending, a confirmation is   *)
(* of the pending ACK.                                                     *)
FrameFollows(log, i, head) ==
  LET before == SubSeq(log, 1, i - 1)
  IN IF log[i].kind = "pending"
     THEN /\ PendingOf(before) = 0
          /\ log[i].seq = ConfirmedOf(before) + 1
          /\ log[i].seq <= head
     ELSE log[i].seq = PendingOf(before) /\ log[i].seq # 0

Replays(log, head) == \A i \in DOMAIN log : FrameFollows(log, i, head)

Ahead(d) == GenerationOf(d.log) - d.commit.generation

(* Mutant: the commitment must be exactly the log's. *)
CommitmentBindsExactly(d) ==
  IF d.commit.phase = "initializing" THEN d.log = <<>> /\ ~d.torn
  ELSE d.commit.phase = "ready" /\ Ahead(d) = 0

(* The commitment against the log: an initializing one binds an empty log; *)
(* a ready one some prefix, at most one confirmation behind and then with  *)
(* nothing after that confirmation.                                        *)
CommitmentBinds(d) ==
  IF d.commit.phase = "initializing"
  THEN d.log = <<>> /\ ~d.torn
  ELSE /\ d.commit.phase = "ready"
       /\ Ahead(d) \in {0, 1}
       /\ Ahead(d) = 1 => PendingOf(d.log) = 0 /\ ~d.torn

-----------------------------------------------------------------------------
(* Startup. *)

(* The root scan decodes a commitment temporary strictly: one that does    *)
(* not decode is corruption of the root.                                   *)
TemporaryDecodes(d) == d.temp # "partial"

AckPresence(d) ==
  IF d.commit.phase = "initializing" THEN "bootstrap"
  ELSE IF d.commit.phase = "none" /\ d.log = NoLog THEN "fresh"
  ELSE "present"

AckScanned(d) == [AckDown EXCEPT !.state = AckPresence(d),
                                 !.seen = <<d.log, d.torn>>, !.bound = d.commit]

Fence(why) == fence' = (IF fence = "none" THEN why ELSE fence)

(* The open is complete: the state the log replays to is in memory. *)
AckOpened(d) == [state |-> "initialized", healthy |-> TRUE,
                 confirmed |-> ConfirmedOf(d.log), pending |-> PendingOf(d.log),
                 seen |-> <<d.log, d.torn>>, bound |-> d.commit]

(* A fresh root: the initializing commitment is published before there is  *)
(* any log.                                                                *)
InitializingGenesis == [ackDisk EXCEPT !.commit = Initializing, !.temp = "none"]

PublishInitializing ==
  /\ ack.state = "fresh"
  /\ ackDisk' = InitializingGenesis
  /\ ack' = [ack EXCEPT !.state = "initialization_uncertain", !.bound = Initializing]
  /\ UNCHANGED fence

CreatedLog == [ackDisk EXCEPT !.log = <<>>]

CreateAckLog ==
  /\ ack.state \in {"bootstrap", "initialization_uncertain"}
  /\ ackDisk.log = NoLog
  /\ ackDisk' = CreatedLog
  /\ ack' = [ack EXCEPT !.state = "initialization_uncertain"]
  /\ UNCHANGED fence

ReadyGenesis == [ackDisk EXCEPT !.commit = Ready(0), !.temp = "none"]

PublishReady ==
  /\ ack.state \in {"bootstrap", "initialization_uncertain"}
  /\ ackDisk.log # NoLog
  /\ CommitmentBinds(ackDisk)
  /\ ackDisk' = ReadyGenesis
  /\ ack' = AckOpened(ackDisk')
  /\ UNCHANGED fence

(* Recovery of an existing journal.  A log one confirmation ahead has its  *)
(* commitment published again; otherwise the temporary goes and a torn     *)
(* tail is cut.                                                            *)
AckRecoverable(d, head) ==
  /\ d.commit.phase = "ready"
  /\ d.log # NoLog
  /\ Replays(d.log, head)
  /\ CommitmentBinds(d)

RecoveredAck == [ackDisk EXCEPT !.commit = Ready(GenerationOf(ackDisk.log)),
                                !.temp = "none", !.torn = FALSE]

RecoverAck(head) ==
  /\ ack.state = "present"
  /\ AckRecoverable(ackDisk, head)
  /\ ackDisk' = RecoveredAck
  /\ ack' = AckOpened(ackDisk')
  /\ UNCHANGED fence

AckRefused(head) ==
  \/ ack.state = "present" /\ ~AckRecoverable(ackDisk, head)
  \/ ack.state = "bootstrap" /\ ackDisk.log # NoLog /\ ~CommitmentBinds(ackDisk)

RefuseAck ==
  /\ Fence("ack_journal")
  /\ ack' = AckDown
  /\ UNCHANGED ackDisk

-----------------------------------------------------------------------------
(* The durable steps of one acknowledgement. *)

AckUsable == ack.state = "initialized" /\ ack.healthy

(* record_pending accepts only the next accepted evidence. *)
MayRecordPending(n, head) ==
  /\ AckUsable
  /\ ack.pending = 0
  /\ n = ack.confirmed + 1
  /\ n <= head

WithFrame(f) == [ackDisk EXCEPT !.log = Append(@, f)]

AppendPending(n) ==
  /\ ackDisk' = WithFrame(Frame("pending", n))
  /\ ack' = [ack EXCEPT !.pending = n]
  /\ UNCHANGED fence

(* record_confirmed, first half: memory waits for the commitment. *)
AppendConfirmed ==
  /\ ackDisk' = WithFrame(Frame("confirmed", ack.pending))
  /\ UNCHANGED <<ack, fence>>

NextGeneration == [ackDisk EXCEPT !.commit = Ready(ack.bound.generation + 1), !.temp = "none"]

PublishGeneration ==
  /\ ackDisk' = NextGeneration
  /\ ack' = [ack EXCEPT !.confirmed = ack.pending, !.pending = 0, !.bound = NextGeneration.commit]
  /\ UNCHANGED fence

-----------------------------------------------------------------------------
(* Interruptions. *)

(* What a crash in the middle of an append or of a publication leaves. *)
InterruptedAppend(f) == {ackDisk, [ackDisk EXCEPT !.torn = TRUE], WithFrame(f)}

InterruptedPublication(done) ==
  {ackDisk, [ackDisk EXCEPT !.temp = "none"], done}
    \union {[ackDisk EXCEPT !.temp = t] : t \in {"partial", "whole"}}

(* An I/O error during an append leaves the journal unusable until a       *)
(* restart: the frame may be there, in part or whole.                      *)
AckAppendFails(f) ==
  /\ ackDisk' \in InterruptedAppend(f)
  /\ ack' = [ack EXCEPT !.healthy = FALSE, !.state = "append_uncertain",
                        !.seen = <<ackDisk.log, ackDisk.torn>>]
  /\ UNCHANGED fence

(* An I/O error during a publication: the temporary is cleaned up, the new *)
(* commitment may or may not be in place.                                  *)
PublishGenerationFails ==
  /\ ackDisk' \in {[ackDisk EXCEPT !.temp = "none"], NextGeneration}
  /\ ack' = [ack EXCEPT !.healthy = FALSE, !.state = "commitment_uncertain"]
  /\ UNCHANGED fence

(* The same during recovery, or when the torn tail is cut: releasing the   *)
(* journal puts the store back in state "present", with what it remembered *)
(* of the files at startup.                                                *)
RecoverAckFails(head) ==
  /\ ack.state = "present"
  /\ AckRecoverable(ackDisk, head)
  /\ ackDisk' \in {ackDisk, RecoveredAck}
  /\ UNCHANGED <<ack, fence>>

(* Publishing the initializing commitment wraps every I/O error as         *)
(* corruption.                                                             *)
PublishInitializingFails ==
  /\ ack.state = "fresh"
  /\ ackDisk' \in {[ackDisk EXCEPT !.temp = "none"], InitializingGenesis}
  /\ ack' = AckDown
  /\ Fence("ack_initializing_io")

(* A failed log creation or ready publication of a create is "uncertain",  *)
(* of a bootstrap recovery it is "present".                                *)
FailedOpenState == IF ack.state = "bootstrap" THEN "present" ELSE ack.state

PublishReadyFails ==
  /\ ack.state \in {"bootstrap", "initialization_uncertain"}
  /\ ackDisk' \in {ackDisk, [ackDisk EXCEPT !.temp = "none"],
                   IF ackDisk.log = NoLog THEN CreatedLog ELSE ReadyGenesis}
  /\ ack' = [ack EXCEPT !.state = IF ackDisk.log = NoLog /\ ackDisk' = CreatedLog
                                  THEN "initialization_uncertain" ELSE FailedOpenState]
  /\ UNCHANGED fence

(* What the store compares when it closes: a journal or a commitment that  *)
(* is not what it remembers is taken for corruption.                       *)
AckChanged(d) ==
  CASE ack.state = "present" -> \/ d.log = NoLog
                                \/ ack.seen # <<d.log, d.torn>>
                                \/ ack.bound # d.commit
    [] ack.state = "append_uncertain" -> \/ Len(d.log) < Len(ack.seen[1])
                                         \/ ack.bound # d.commit
    [] ack.state = "commitment_uncertain" ->
         d.commit \notin {Ready(ack.bound.generation), Ready(ack.bound.generation + 1)}
    [] OTHER -> FALSE

CloseAck ==
  /\ ack' = AckDown
  /\ IF AckChanged(ackDisk) THEN Fence("ack_changed") ELSE UNCHANGED fence
  /\ UNCHANGED ackDisk
=============================================================================
