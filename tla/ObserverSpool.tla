--------------------------- MODULE ObserverSpool ---------------------------
(***************************************************************************)
(* The observer's durable spool at the grain of its files: publication of  *)
(* a signed event, acknowledgement by Core, the boot boundary, and the     *)
(* recovery that runs over whatever a crash has left on disk.  Every       *)
(* create, rename, state write and unlink is a step of its own, so a crash *)
(* may fall between any two of them.                                       *)
(*                                                                         *)
(* A publication is named by its sequence: the previous hash of a node and *)
(* the hashes of the state are sequences, and the hash of a record of the  *)
(* ack journal is the list of the records up to it.  A frame, a node and   *)
(* an ack record weigh one unit each.  Control and PCC receipts, and key   *)
(* rotation, are left out: no event here needs them.                       *)
(***************************************************************************)
EXTENDS Integers, Sequences, FiniteSets, SequencesExt

CONSTANTS MaxBoots,         \* kernel boots, the first one included
          MaxSequence,      \* sequences the host may reserve
          MaxBytes,         \* SpoolConfig.MaxBytes, in units
          PriorityReserve,  \* SpoolConfig.PriorityReserveBytes, in units
          MaxMishaps,       \* crashes and storage failures together
          MaxFaults         \* storage failures

ASSUME ConfigAccepted ==
    /\ {MaxBoots, MaxSequence, MaxMishaps, MaxFaults} \subseteq Nat
    /\ MaxBytes \in Nat /\ PriorityReserve \in 1 .. MaxBytes - 1 /\ MaxBytes > 2

VARIABLES
    disk, mem,       \* observer-state.json, and the live copy of it
    frames, nodes,   \* N.agf; N.prepared and N.published
    temps,           \* create-only temporaries
    acks, torn,      \* acked.agf: sequences, and a torn tail
    ackTemp,         \* the checkpoint temporary
    archive,         \* pcc-boundaries.agf: sequences of boundaries
    items,           \* the index of the live process
    pc, job, opening,
    kernel,          \* the boot ID of the kernel
    taken,           \* the events Core has stored
    done,            \* the events whose publication has returned
    signed,          \* every event signed, in order
    cut,             \* what a crash has interrupted: "boundary", "ack"
    budget

state == <<disk, mem>>
files == <<frames, nodes, temps>>
ackFiles == <<acks, torn, ackTemp>>
control == <<pc, job, opening>>
ghosts == <<taken, done, signed, cut>>
vars == <<state, files, ackFiles, archive, items, control, kernel, ghosts, budget>>

AckJournalMaxFrame == 2
NoJob == [seq |-> 0, boot |-> 0, kind |-> "none", hi |-> 0]
Tier(kind) == IF kind = "routine" THEN "routine" ELSE "priority"
MaxOf(S) == CHOOSE m \in S \cup {0} : \A n \in S : n <= m

\* OpenStateStore without a file, and Bootstrap's first run.
Init ==
    /\ disk = [last |-> 0, head |-> 0, base |-> 0, ack |-> 0, anchor |-> <<>>,
               covered |-> 0, readOnly |-> "no", boundary |-> "pending", archived |-> 0,
               history |-> <<[boot |-> 1, first |-> 1]>>]
    /\ mem = disk
    /\ frames = {} /\ nodes = {} /\ temps = {}
    /\ acks = <<>> /\ torn = FALSE /\ ackTemp = FALSE /\ archive = <<>>
    /\ items = <<>> /\ pc = "down" /\ job = NoJob /\ opening = "no" /\ kernel = 1
    /\ taken = {} /\ done = {} /\ signed = <<>> /\ cut = {}
    /\ budget = [mishaps |-> MaxMishaps, faults |-> MaxFaults]

-----------------------------------------------------------------------------
(* The state file.                                                         *)
Boot(s) == Last(s.history).boot
First(s) == Last(s.history).first
Writable == mem.readOnly = "no"

\* replaceLocked: the file, then the live copy.
Replace(next) == mem' = next /\ disk' = next

\* PersistReadOnly: the live copy first, whatever becomes of the file.
\* The model keeps the first reason.
Fence(reason) ==
    /\ mem' = [mem EXCEPT !.readOnly = IF Writable THEN reason ELSE @] /\ disk' = mem'
FenceFaulty(from) ==
    /\ mem' = [from EXCEPT !.readOnly = IF Writable THEN "io" ELSE @]
    /\ disk' \in {disk, from, mem'}

\* persistLocked fails; when the rename may have happened the live copy moves
\* on and is fenced.
ReplaceFails(next) ==
    UNCHANGED state \/ FenceFaulty(next)

Fault ==
    /\ budget.faults > 0 /\ budget.mishaps > 0
    /\ budget' = [mishaps |-> budget.mishaps - 1, faults |-> budget.faults - 1]
Goto(label) == pc' = label /\ UNCHANGED <<job, opening>>
Gone == items' = <<>> /\ pc' = "down" /\ job' = NoJob /\ opening' = "no"
\* Bootstrap returns the error and the process exits; the serving one goes on.
GiveUp ==
    IF opening # "no" THEN Gone
    ELSE pc' = "idle" /\ job' = NoJob /\ UNCHANGED <<opening, items>>

-----------------------------------------------------------------------------
(* Bootstrap opens the state for the boot ID of the kernel.  A boundary the *)
(* previous boot has published but not committed is recovered first, under  *)
(* the identity of that boot.                                               *)

\* Mutants: a restart lifts the fence; a new boot needs no boundary.
OpenStateAs(found, boundary) ==
    /\ pc = "down" /\ pc' = "scan" /\ job' = NoJob /\ opening' = "new"
    /\ Replace(IF Boot(disk) = kernel THEN found
               ELSE [found EXCEPT !.history = Append(@, [boot |-> kernel, first |-> found.last + 1]),
                                  !.boundary = boundary])
    /\ UNCHANGED <<files, ackFiles, archive, items, kernel, ghosts, budget>>
OpenStateUnbounded == OpenStateAs(disk, disk.boundary)

OpenState ==
    LET stale == Boot(disk) # kernel
        pending == disk.boundary = "pending"
        renamed == [disk EXCEPT !.history[Len(disk.history)].boot = kernel]
        extended == [disk EXCEPT
            !.history = Append(@, [boot |-> kernel, first |-> disk.last + 1]),
            !.boundary = "pending"]
    IN  /\ pc = "down" /\ pc' = "scan" /\ job' = NoJob
        /\ \/ ~stale /\ opening' = "new" /\ mem' = disk /\ UNCHANGED disk
           \/ /\ stale /\ pending /\ disk.head >= First(disk)
              /\ opening' = "old" /\ mem' = disk /\ UNCHANGED disk
           \/ /\ stale /\ pending /\ disk.head < First(disk)
              /\ opening' = "new" /\ Replace(renamed)
           \/ stale /\ ~pending /\ opening' = "new" /\ Replace(extended)
        /\ UNCHANGED <<files, ackFiles, archive, items, kernel, ghosts, budget>>

-----------------------------------------------------------------------------
(* NewSpool: the directories are read and checked against the state.       *)
BootAllowed(f) ==
    \E i \in DOMAIN mem.history :
        /\ mem.history[i].boot = f.boot /\ f.seq >= mem.history[i].first
        /\ i = Len(mem.history) \/ f.seq < mem.history[i + 1].first

FrameOf(n) == {f \in frames : f.seq = n.seq}
\* prepared_without_frame
Abandoned(n) ==
    /\ n.name = "prepared" /\ FrameOf(n) = {}
    /\ n.seq = mem.last /\ n.seq > mem.head /\ n.prev = mem.head
\* ackedLeftover.  Mutant: a node always has its frame.
LeftoverNever(n) == FALSE
Leftover(n) == n.name = "published" /\ FrameOf(n) = {} /\ n.seq <= mem.base
Cleanup == {n \in nodes : Abandoned(n)}
Ledger == nodes \ Cleanup
Unanchored == {n \in Ledger : n.seq > mem.head}

NodeAccepted(n) ==
    /\ n.seq <= mem.last
    /\ Abandoned(n) \/ Leftover(n) \/ \E f \in FrameOf(n) : f.boot = n.boot /\ f.kind = n.kind
    /\ n.name = "prepared" => n.seq > mem.head

TempAccepted(t) ==
    /\ t.seq = mem.last /\ t.seq > mem.head
    /\ IF t.kind = "node" THEN nodes \cap {n \in nodes : n.seq = t.seq} = {}
       ELSE \E n \in Cleanup : n.seq = t.seq

Chained(n) == n.prev = MaxOf({mem.base} \cup {m.seq : m \in {k \in Ledger : k.seq < n.seq}})

\* scanTier and scanPublications.
LedgerAccepted ==
    /\ \A f \in frames : f.seq <= mem.last /\ \E n \in nodes : n.seq = f.seq
    /\ \A n, m \in nodes : n.seq = m.seq => n = m
    /\ \A n \in nodes : NodeAccepted(n)
    /\ Cardinality(temps) <= 1 /\ \A t \in temps : TempAccepted(t)
    /\ \A n \in Ledger : n.seq > mem.base => Chained(n)
    /\ mem.head = mem.base \/ \E n \in Ledger : n.seq = mem.head
    /\ \A n \in Unanchored : n.seq = mem.last

Unresolved == temps # {} \/ Cleanup # {} \/ Unanchored # {}

Foreign == \E f \in frames \cup nodes : ~BootAllowed(f)
ScanAccepted ==
    /\ LedgerAccepted
    /\ Unresolved => ~ackTemp /\ ~torn
    /\ ackTemp => ~torn

Scan ==
    /\ pc = "scan"
    /\ \/ /\ Foreign \/ ~ScanAccepted
          /\ Fence(IF Foreign THEN "boundary" ELSE "corrupt") /\ Gone /\ UNCHANGED torn
       \/ /\ ~Foreign /\ ScanAccepted /\ torn' = FALSE
          /\ items' = [s \in {n.seq : n \in Ledger} |->
                LET n == CHOOSE n \in Ledger : n.seq = s
                IN  [framed |-> FrameOf(n) # {}, kind |-> n.kind]]
          /\ Goto("reconcile") /\ UNCHANGED state
    /\ UNCHANGED <<files, acks, ackTemp, archive, kernel, ghosts, budget>>

-----------------------------------------------------------------------------
(* reconcileAckAnchor: the journal may be ahead of the state by records     *)
(* that each acknowledge the next outstanding item.                         *)
AckCrossesUncoveredGap(after, seq) == seq - after > 1 /\ mem.covered < seq - 1
Outstanding(after) == {s \in DOMAIN items : s > after}
FirstOf(S) == CHOOSE s \in S : \A t \in S : s <= t

AnchorIndex == {i \in DOMAIN acks : SubSeq(acks, 1, i) = mem.anchor}
Checkpointed == mem.ack # 0 /\ AnchorIndex = {} /\ acks = <<mem.ack>>
Later == SubSeq(acks, 1 + MaxOf(AnchorIndex), Len(acks))

JournalAccepted ==
    /\ \A i \in DOMAIN acks : acks[i] <= mem.last
    /\ acks = <<>> => mem.ack = 0
    /\ mem.ack # 0 => AnchorIndex # {} \/ Checkpointed
    /\ Checkpointed \/ \A i \in DOMAIN Later :
           LET after == IF i = 1 THEN mem.ack ELSE Later[i - 1]
           IN  /\ Outstanding(after) # {} /\ Later[i] = FirstOf(Outstanding(after))
               /\ ~AckCrossesUncoveredGap(after, Later[i])

\* applyAck: the acknowledgement and the base move together.
Acked(seq) == [mem EXCEPT !.ack = seq, !.base = seq, !.anchor = acks]

Reconcile ==
    /\ pc = "reconcile"
    /\ \/ ~JournalAccepted /\ Fence("corrupt") /\ Gone
       \/ /\ JournalAccepted
          /\ IF acks = <<>> \/ mem.anchor = acks THEN UNCHANGED state
             ELSE Replace(Acked(Last(acks)))
          /\ Goto("quota") /\ UNCHANGED items
    /\ UNCHANGED <<files, ackFiles, archive, kernel, ghosts, budget>>

-----------------------------------------------------------------------------
(* The rest of NewSpool: quotas, the publication a crash has cut short, the *)
(* boundary it belongs to, and the removal of what is left over.            *)
Units(S, tier) == Cardinality({x \in S : Tier(x.kind) = tier})
Routine(S) == Units(S, "routine")
Physical == Cardinality(frames) + Cardinality(nodes) + Cardinality(temps)
PhysicalRoutine ==
    Routine(frames) + Routine(nodes) + Cardinality({t \in temps : t.kind = "frame" /\ t.tier = "routine"})
AckUnits == Len(acks) + IF ackTemp THEN 1 ELSE 0

ItemUnits(S) == Cardinality(S) + Cardinality({s \in S : items[s].framed})
Used == ItemUnits(DOMAIN items) + Len(acks)
RoutineUsed == ItemUnits({s \in DOMAIN items : items[s].kind = "routine"})

CheckQuota ==
    /\ pc = "quota"
    /\ IF Physical + AckUnits > MaxBytes \/ PhysicalRoutine > MaxBytes - PriorityReserve
       THEN Fence("quota") /\ Gone
       ELSE Goto("tail") /\ UNCHANGED <<state, items>>
    /\ UNCHANGED <<files, ackFiles, archive, kernel, ghosts, budget>>

\* finalizePublicationRecovery.
FinishTail ==
    /\ pc = "tail"
    /\ \/ Unanchored = {} /\ Goto("openArchive") /\ UNCHANGED <<state, nodes>>
       \/ \E n \in Unanchored :
            IF n.name = "prepared"
            THEN /\ nodes' = (nodes \ {n}) \cup {[n EXCEPT !.name = "published"]}
                 /\ Goto("tail") /\ UNCHANGED state
            ELSE /\ Replace([mem EXCEPT !.head = n.seq])
                 /\ Goto("openArchive") /\ UNCHANGED nodes
    /\ UNCHANGED <<frames, temps, ackFiles, archive, items, kernel, ghosts, budget>>

\* OpenPCCBoundaryArchive and recoverPendingDedicatedBootBoundary.
RecoverBoundary ==
    LET candidates == {f \in frames : f.seq >= First(mem)}
        first == CHOOSE f \in candidates : \A g \in candidates : f.seq <= g.seq
        unproven ==
            \/ ~Writable
            \/ candidates = {} /\ mem.head >= First(mem)
            \/ candidates # {} /\ (first.kind # "boundary" \/ first.boot # Boot(mem))
    IN  /\ pc = "openArchive"
        /\ \/ Len(archive) # mem.archived /\ Fence("boundary") /\ Gone
           \/ /\ Len(archive) = mem.archived /\ mem.boundary = "pending" /\ unproven
              /\ Fence("corrupt") /\ Gone
           \/ /\ Len(archive) = mem.archived /\ UNCHANGED <<state, items, opening>>
              /\ IF mem.boundary = "pending" /\ candidates # {}
                 THEN ~unproven /\ job' = first /\ pc' = "archive"
                 ELSE /\ mem.boundary = "pending" => ~unproven
                      /\ pc' = "sweep" /\ UNCHANGED job
        /\ UNCHANGED <<files, ackFiles, archive, kernel, ghosts, budget>>

\* The temporaries, the abandoned node and the checkpoint temporary go in that
\* order; what remains must leave room for an ack record.
Sweep ==
    /\ pc = "sweep"
    /\ \/ temps # {} /\ temps' = {} /\ Goto("sweep") /\ UNCHANGED <<state, nodes, ackTemp, items>>
       \/ /\ temps = {} /\ Cleanup # {} /\ nodes' = Ledger
          /\ Goto("sweep") /\ UNCHANGED <<state, temps, ackTemp, items>>
       \/ /\ temps = {} /\ Cleanup = {} /\ ackTemp /\ ackTemp' = FALSE
          /\ Goto("sweep") /\ UNCHANGED <<state, temps, nodes, items>>
       \/ /\ temps = {} /\ Cleanup = {} /\ ~ackTemp
          /\ IF Used > MaxBytes - AckJournalMaxFrame
             THEN Fence("quota") /\ Gone
             ELSE Goto("cleanup") /\ UNCHANGED <<state, items>>
          /\ UNCHANGED <<temps, nodes, ackTemp>>
    /\ UNCHANGED <<frames, acks, torn, archive, kernel, ghosts, budget>>

\* cleanupAckedLocked: the frame, then the node, then the index.
\* Mutant: whatever is published is removed.
AcknowledgedByHead == {s \in DOMAIN items : s <= mem.head}
Acknowledged == {s \in DOMAIN items : s <= mem.ack}
Opened ==
    IF opening = "old" THEN Gone
    ELSE /\ UNCHANGED items /\ job' = NoJob
         /\ IF opening = "new" /\ Writable
            THEN pc' = "bootstrap" /\ opening' = "boot"
            ELSE pc' = "idle" /\ opening' = "no"

CleanupAcked ==
    LET s == FirstOf(Acknowledged)
        framed == {f \in frames : f.seq = s}
    IN  /\ pc = "cleanup"
        /\ \/ Acknowledged = {} /\ Opened /\ UNCHANGED <<frames, nodes>>
           \/ /\ Acknowledged # {} /\ framed # {} /\ frames' = frames \ framed
              /\ Goto("cleanup") /\ UNCHANGED <<nodes, items>>
           \/ /\ Acknowledged # {} /\ framed = {}
              /\ nodes' = {n \in nodes : n.seq # s}
              /\ items' = [t \in DOMAIN items \ {s} |-> items[t]]
              /\ Goto("cleanup") /\ UNCHANGED frames
        /\ UNCHANGED <<state, temps, ackFiles, archive, kernel, ghosts, budget>>

-----------------------------------------------------------------------------
(* Wrap and appendLocked: a sequence is reserved, then node, frame and head *)
(* are made durable in that order.                                          *)
Holes == {s \in 1 .. mem.last : s > mem.covered /\ s > mem.ack /\ s \notin DOMAIN items}
GapEnd == CHOOSE h \in Holes : /\ h + 1 \notin Holes
                               /\ \A s \in Holes : s >= FirstOf(Holes) /\ s < h => s + 1 \in Holes
\* The retained gap records beyond the marker.
Unmarked == {f \in frames : f.kind = "gap" /\ f.hi > mem.covered}

\* What Bootstrap signs next; a serving process signs what it observes.
Wanted ==
    IF opening = "no" THEN {"routine", "priority"}
    ELSE IF mem.boundary = "pending" THEN {"boundary"}
    ELSE IF Unmarked # {} THEN {} ELSE IF Holes # {} THEN {"gap"} ELSE {"start"}

EventFor(kind) ==
    [seq |-> mem.last + 1, boot |-> Boot(mem), kind |-> kind,
     hi |-> IF kind = "gap" THEN GapEnd ELSE 0]
Reserved == [mem EXCEPT !.last = @ + 1]

RoutineFull(kind) == kind = "routine" /\ RoutineUsed + 2 > MaxBytes - PriorityReserve
TotalFull == Used + 2 > MaxBytes - AckJournalMaxFrame

Publish ==
    /\ pc = IF opening = "no" THEN "idle" ELSE "bootstrap"
    /\ Writable /\ mem.last < MaxSequence
    /\ \E kind \in Wanted :
        /\ signed' = Append(signed, EventFor(kind))
        /\ \/ /\ ~RoutineFull(kind) /\ ~TotalFull
              /\ Replace(Reserved)
              /\ job' = EventFor(kind) /\ pc' = "nodeTemp" /\ UNCHANGED <<opening, items>>
           \/ /\ RoutineFull(kind) /\ Replace(Reserved)
              /\ UNCHANGED <<control, items>>
           \/ /\ ~RoutineFull(kind) /\ TotalFull
              /\ mem' = [Reserved EXCEPT !.readOnly = "exhausted"] /\ disk' = mem'
              /\ GiveUp
    /\ UNCHANGED <<files, ackFiles, archive, kernel, taken, done, cut, budget>>

ReserveFails ==
    /\ pc = IF opening = "no" THEN "idle" ELSE "bootstrap"
    /\ Writable /\ mem.last < MaxSequence /\ Wanted # {}
    /\ Fault /\ ReplaceFails(Reserved) /\ GiveUp
    /\ UNCHANGED <<files, ackFiles, archive, kernel, ghosts>>

Node(name) ==
    [seq |-> job.seq, boot |-> job.boot, kind |-> job.kind, prev |-> mem.head, name |-> name]
NodeTemp == [kind |-> "node", seq |-> job.seq, tier |-> Tier(job.kind)]
FrameTemp == [kind |-> "frame", seq |-> job.seq, tier |-> Tier(job.kind)]

\* The files after the step at each label, and the next label.
StepTo(label) ==
    CASE label = "nodeTemp" -> <<frames, nodes, temps \cup {NodeTemp}, "nodeName">>
      [] label = "nodeName" -> <<frames, nodes \cup {Node("prepared")}, {}, "frameTemp">>
      [] label = "frameTemp" -> <<frames, nodes, temps \cup {FrameTemp}, "frameName">>
      [] label = "frameName" -> <<frames \cup {job}, nodes, {}, "promote">>
      [] label = "promote" ->
            <<frames, (nodes \ {Node("prepared")}) \cup {Node("published")}, {}, "anchor">>
Storing == pc \in {"nodeTemp", "nodeName", "frameTemp", "frameName", "promote"}

Store ==
    /\ Storing
    /\ LET next == StepTo(pc)
       IN  frames' = next[1] /\ nodes' = next[2] /\ temps' = next[3] /\ Goto(next[4])
    /\ UNCHANGED <<state, ackFiles, archive, items, kernel, ghosts, budget>>

\* Any of these failing fences; its effect may be on disk all the same.
StoreFails ==
    /\ Storing /\ Fault
    /\ temps' = {}
    /\ \/ UNCHANGED <<frames, nodes>>
       \/ frames' = StepTo(pc)[1] /\ nodes' = StepTo(pc)[2]
    /\ FenceFaulty(mem) /\ GiveUp
    /\ UNCHANGED <<ackFiles, archive, kernel, ghosts>>

\* anchorPublication; then the caller's part.  observer_start ends Bootstrap.
AfterAnchor == CASE job.kind = "boundary" -> "archive" [] job.kind = "gap" -> "cover" [] OTHER -> "idle"
Indexed ==
    [s \in DOMAIN items \cup {job.seq} |->
        IF s = job.seq THEN [framed |-> TRUE, kind |-> job.kind] ELSE items[s]]
Anchored == [mem EXCEPT !.head = job.seq]

Anchor ==
    /\ pc = "anchor" /\ Replace(Anchored) /\ items' = Indexed
    /\ done' = done \cup {job}
    /\ pc' = AfterAnchor /\ job' = IF AfterAnchor = "idle" THEN NoJob ELSE job
    /\ opening' = IF job.kind = "start" THEN "no" ELSE opening
    /\ UNCHANGED <<files, ackFiles, archive, kernel, taken, signed, cut, budget>>

AnchorFails ==
    /\ pc = "anchor" /\ Fault
    /\ FenceFaulty(mem) \/ FenceFaulty(Anchored)
    /\ GiveUp
    /\ UNCHANGED <<files, ackFiles, archive, kernel, ghosts>>

-----------------------------------------------------------------------------
(* RecordCommittedBoundary and the commit of the boundary; the marker of a  *)
(* covered gap.                                                             *)
Genesis == Len(mem.history) = 1
Archivable == job.seq = IF Genesis THEN 1 ELSE First(mem)
Recorded == Genesis \/ (archive # <<>> /\ Last(archive) = job.seq)

RecordBoundary ==
    /\ pc = "archive"
    /\ \/ ~Archivable /\ Fence("boundary") /\ Gone /\ UNCHANGED archive
       \/ Archivable /\ Recorded /\ Goto("commit") /\ UNCHANGED <<state, archive, items>>
       \/ /\ Archivable /\ ~Recorded /\ archive' = Append(archive, job.seq)
          /\ Goto("archiveAnchor") /\ UNCHANGED <<state, items>>
    /\ UNCHANGED <<files, ackFiles, kernel, ghosts, budget>>

AnchorBoundary ==
    /\ pc = "archiveAnchor" /\ Replace([mem EXCEPT !.archived = Len(archive)])
    /\ Goto("commit")
    /\ UNCHANGED <<files, ackFiles, archive, items, kernel, ghosts, budget>>

CommitBoundary ==
    /\ pc = "commit" /\ Replace([mem EXCEPT !.boundary = "committed"])
    /\ pc' = IF opening = "boot" THEN "bootstrap" ELSE "sweep"
    /\ job' = NoJob /\ UNCHANGED opening
    /\ UNCHANGED <<files, ackFiles, archive, items, kernel, ghosts, budget>>

\* markGapCovered, after the publication or by recoverSequenceGapMarkers.
CoverGap ==
    /\ \/ pc = "cover" /\ Replace([mem EXCEPT !.covered = job.hi])
       \/ /\ pc = "bootstrap" /\ mem.boundary = "committed"
          /\ \E f \in Unmarked : /\ \A g \in Unmarked : f.hi <= g.hi
                                 /\ Replace([mem EXCEPT !.covered = f.hi])
    /\ pc' = "bootstrap" /\ job' = NoJob
    /\ UNCHANGED <<files, ackFiles, archive, items, opening, kernel, ghosts, budget>>

\* A failure here ends Bootstrap; only the archive's own failures fence.
BootstrapFails ==
    /\ pc \in {"archive", "archiveAnchor", "commit", "cover"} /\ Fault
    /\ IF pc \in {"archive", "archiveAnchor"} THEN FenceFaulty(mem) ELSE ReplaceFails(mem)
    /\ Gone
    /\ UNCHANGED <<files, ackFiles, archive, kernel, ghosts>>

-----------------------------------------------------------------------------
(* Core stores what it fetches and acknowledges it; an acknowledgement may  *)
(* be late, or sent again.                                                  *)
Fetch ==
    LET new == {f \in frames : f.seq \in DOMAIN items /\ f.seq > mem.ack} \ taken
    IN  /\ pc = "idle" /\ new # {}
        /\ taken' = taken \cup {CHOOSE f \in new : \A g \in new : f.seq <= g.seq}
        /\ UNCHANGED <<state, files, ackFiles, archive, items, control, kernel, done, signed, cut, budget>>

\* RetainsCommittedEvent: a boundary leaves the spool once it is archived.
Retained(e) == e.kind = "boundary" /\ e.seq # 1 => \E i \in DOMAIN archive : archive[i] = e.seq

AckAdmitted(e) ==
    /\ Outstanding(mem.ack) # {} /\ e.seq = FirstOf(Outstanding(mem.ack))
    /\ ~AckCrossesUncoveredGap(mem.ack, e.seq)

Ack ==
    /\ pc = "idle" /\ Writable
    /\ \E e \in taken :
        \/ e.seq = mem.ack /\ pc' = "reapply" /\ job' = e /\ UNCHANGED state
        \/ /\ AckAdmitted(e) /\ Retained(e) /\ Used + 2 <= MaxBytes
           /\ pc' = "append" /\ job' = e /\ UNCHANGED state
        \/ /\ AckAdmitted(e) /\ ~(Retained(e) /\ Used + 2 <= MaxBytes)
           /\ Fence(IF Retained(e) THEN "quota" ELSE "corrupt") /\ UNCHANGED <<pc, job>>
    /\ UNCHANGED <<files, ackFiles, archive, items, opening, kernel, ghosts, budget>>

AppendAck ==
    /\ pc = "append" /\ acks' = Append(acks, job.seq) /\ Goto("ackAnchor")
    /\ UNCHANGED <<state, files, torn, ackTemp, archive, items, kernel, ghosts, budget>>

\* applyAck after the append, after the checkpoint, and for a repeated call.
AckAnchored == IF pc = "reapply" THEN mem ELSE Acked(job.seq)
AnchorAck ==
    /\ pc \in {"ackAnchor", "reanchor", "reapply"} /\ Replace(AckAnchored)
    /\ Goto(IF pc = "ackAnchor" THEN "checkpointTemp" ELSE "cleanup")
    /\ UNCHANGED <<files, ackFiles, archive, items, kernel, ghosts, budget>>

Checkpoint ==
    /\ \/ /\ pc = "checkpointTemp" /\ ackTemp' = TRUE /\ UNCHANGED acks /\ Goto("checkpoint")
       \/ pc = "checkpoint" /\ ackTemp' = FALSE /\ acks' = <<job.seq>> /\ Goto("reanchor")
    /\ UNCHANGED <<state, files, torn, archive, items, kernel, ghosts, budget>>

\* The journal's failures fence; the state's leave the live copy ahead.
AckFails ==
    /\ Fault
    /\ \/ /\ pc = "append" /\ acks' \in {acks, Append(acks, job.seq)}
          /\ FenceFaulty(mem) /\ UNCHANGED ackTemp
       \/ /\ pc \in {"checkpointTemp", "checkpoint"} /\ ackTemp' = FALSE
          /\ acks' \in {acks, <<job.seq>>} /\ FenceFaulty(mem)
       \/ /\ pc \in {"ackAnchor", "reanchor", "reapply"}
          /\ mem' = AckAnchored /\ disk' \in {disk, mem'} /\ UNCHANGED <<acks, ackTemp>>
    /\ GiveUp
    /\ UNCHANGED <<files, torn, archive, kernel, ghosts>>

\* cleanupAckedLocked fails: the items stay indexed for the next call.
CleanupFails ==
    /\ pc = "cleanup" /\ Acknowledged # {} /\ Fault
    /\ IF opening = "no" THEN UNCHANGED state ELSE FenceFaulty(mem)
    /\ GiveUp
    /\ UNCHANGED <<files, ackFiles, archive, kernel, ghosts>>

OpenFails ==
    /\ pc \in {"scan", "reconcile", "tail", "sweep"} /\ Fault
    /\ FenceFaulty(mem) /\ Gone
    /\ UNCHANGED <<files, ackFiles, archive, kernel, ghosts>>

-----------------------------------------------------------------------------
\* The process dies, alone or with the host; a record being appended may be
\* torn.
Acking == pc \in {"append", "ackAnchor", "checkpointTemp", "checkpoint", "reanchor", "reapply", "cleanup"}
Interrupted ==
    (IF job.kind = "boundary" /\ ~Acking THEN {"boundary"} ELSE {})
    \cup (IF Acking \/ Acknowledged # {} THEN {"ack"} ELSE {})

Crash ==
    /\ pc # "down" /\ budget.mishaps > 0
    /\ budget' = [budget EXCEPT !.mishaps = @ - 1]
    /\ Gone /\ mem' = disk /\ UNCHANGED disk
    /\ torn' \in IF pc = "append" THEN BOOLEAN ELSE {torn}
    /\ kernel' \in kernel .. IF kernel < MaxBoots THEN kernel + 1 ELSE kernel
    /\ cut' = cut \cup Interrupted
    /\ UNCHANGED <<files, acks, ackTemp, archive, taken, done, signed>>

Program ==
    \/ OpenState \/ Scan \/ Reconcile \/ CheckQuota \/ FinishTail \/ RecoverBoundary \/ Sweep
    \/ CleanupAcked \/ Store \/ Anchor \/ RecordBoundary \/ AnchorBoundary
    \/ CommitBoundary \/ CoverGap \/ AppendAck \/ AnchorAck \/ Checkpoint

Next ==
    \/ Program \/ Publish \/ Fetch \/ Ack \/ Crash
    \/ ReserveFails \/ StoreFails \/ AnchorFails \/ BootstrapFails \/ AckFails
    \/ CleanupFails \/ OpenFails

Spec == Init /\ [][Next]_vars

-----------------------------------------------------------------------------
State ==
    [last : 0 .. MaxSequence, head : 0 .. MaxSequence, base : 0 .. MaxSequence,
     ack : 0 .. MaxSequence, covered : 0 .. MaxSequence, anchor : Seq(1 .. MaxSequence),
     readOnly : {"no", "io", "exhausted", "quota", "boundary", "corrupt"},
     boundary : {"pending", "committed"}, archived : 0 .. MaxBoots,
     history : Seq([boot : 1 .. MaxBoots, first : 1 .. MaxSequence + 1])]

\* The state file, its live copy and the files keep their types; at most one
\* create-only temporary exists at a time, as scanPublications requires.
TypeOK ==
    /\ {disk, mem} \subseteq State
    /\ \A f \in frames \cup nodes \cup taken : f.seq \in 1 .. MaxSequence
    /\ opening \in {"no", "old", "new", "boot"}
    /\ Cardinality(temps) <= 1 /\ torn \in BOOLEAN /\ ackTemp \in BOOLEAN

\* Evidence is not lost: what an append has returned is on disk, complete and
\* anchored, until Core has stored it (cleanupAckedLocked removes it only
\* after the acknowledgement, whatever a crash has interrupted).
NoEvidenceLost ==
    \A e \in done \ taken :
        /\ e \in frames /\ \E n \in nodes : n.seq = e.seq
        /\ disk.ack < e.seq

\* The state never acknowledges past what Core has stored, and everything it
\* has acknowledged is either stored by Core or a hole Core was told of.
AckIsCores ==
    \A s \in 1 .. disk.ack :
        \/ \E e \in taken : e.seq = s
        \/ s <= disk.covered /\ \E i \in DOMAIN signed : signed[i].kind = "gap" /\ signed[i].hi >= s

\* A crash, however often and wherever it falls, does not make the spool
\* unreadable: without a storage failure the observer is fenced only because
\* its quota is exhausted, or because a boundary or an acknowledgement was
\* under way when it died.
CrashNeverFences ==
    budget.faults = MaxFaults =>
        \/ mem.readOnly \in {"no", "exhausted"}
        \/ mem.readOnly = "boundary" /\ "boundary" \in cut
        \/ mem.readOnly = "quota" /\ "ack" \in cut

\* No two events are ever signed with one sequence, over all boots, crashes
\* and failed writes, and they are signed in the order of their sequences:
\* reserve has the counter on disk before the signature is made.
SequenceUsedOnce ==
    \A i, j \in DOMAIN signed : i < j => signed[i].seq < signed[j].seq

\* The first event of a boot that is published is its boundary, and there is
\* one boundary per boot.
Known == taken \cup {f \in frames : f.seq <= disk.head}
BoundaryFirst ==
    \A e \in Known :
        /\ \E b \in Known \cup done : b.kind = "boundary" /\ b.boot = e.boot /\ b.seq <= e.seq
        /\ \A b \in Known : b.kind = "boundary" /\ e.kind = "boundary" /\ b.boot = e.boot => b = e

\* The files never outgrow the quota, temporaries and journal included, and
\* routine events never use the priority reserve.
WithinQuota ==
    /\ Physical + AckUnits <= MaxBytes
    /\ PhysicalRoutine <= MaxBytes - PriorityReserve

\* Counters of the state never move back, crashes and failures included.
Forward ==
    [][/\ disk'.last >= disk.last /\ disk'.head >= disk.head
       /\ disk'.ack >= disk.ack /\ disk'.covered >= disk.covered
       /\ disk.readOnly # "no" => disk'.readOnly # "no"]_vars

\* A crash between the reservation of a sequence and the durable append
\* creates a gap and nothing worse (docs/adr/0001, "never counter reuse").
CrashCreatesGap ==
    budget.faults = MaxFaults => mem.readOnly # "boundary"
=============================================================================
