-------------------------- MODULE ObserverCoverage --------------------------
(***************************************************************************)
(* The observer's account of what it may have missed: Docker reconciles     *)
(* with their signed windows, the fences around the inventory, the event    *)
(* session, and the sequence gaps a crash leaves, with the Core reducer     *)
(* that reads the signed records.  The process may end at any step; its     *)
(* state file, its inventory file and its spool survive.                    *)
(*                                                                         *)
(* The spool is taken as what ObserverSpool shows of it: a record is        *)
(* published entirely or not at all, under a sequence reserved before.      *)
(* Container contents are a version number of the Docker world.             *)
(***************************************************************************)
EXTENDS HistoricalCoverage, Sequences, SequencesExt

CONSTANTS
    MaxChanges,    \* bound on the changes of the Docker world
    MaxCrashes,    \* bound on the ends of the process
    MaxFaults,     \* bound on failed writes and failed Docker calls
    MaxBreaks,     \* bound on broken event streams
    MaxDrops,      \* bound on routine events refused for quota
    MaxMishaps,    \* bound on all of these together
    Unlogged       \* contents with a container whose logs Docker does not keep

ASSUME CoverageBounds ==
    {MaxChanges, MaxCrashes, MaxFaults, MaxBreaks, MaxDrops, MaxMishaps} \cup Unlogged \subseteq Nat

VARIABLES
    phase,         \* where Bootstrap and Run are
    step, job,     \* step of the reconcile that runs, and what asked for it
    disk, mem,     \* ObserverState: the state file, the StateStore
    inv, minv,     \* Inventory: its file, the live one
    target, snap,  \* its window, and the containers it listed
    session,       \* dockerEventSession
    events, dirty, \* an event in the stream, the dirty channel
    retry,         \* reconcilePending of the monitor
    receipt,       \* dockerReconcileReceipt of the last reconcile
    emitting,      \* a first routine drop is counted and not yet signed
    spool,         \* published records Core has not acknowledged
    core,          \* Core's coverage snapshot
    past,          \* what Core's historical reducer makes of the same records
    world,         \* version of the running containers
    budget,        \* crashes, faults, breaks and drops so far
    calm,          \* no more of them
    published      \* history: sequences that carry a record

stream == <<session, events, dirty>>
control == <<phase, step, job, target, snap, retry, receipt>>
evidence == <<spool, core, past, published>>
environment == <<world, budget, calm>>
vars == <<control, stream, emitting, mem, disk, inv, minv, evidence, environment>>

NoWindow == [openedAt |-> 0, gen |-> 0]
NoReceipt == [seq |-> 0, closedAt |-> 0, gen |-> 0]

Init ==
    /\ phase = "down" /\ step = "idle" /\ job = "none"
    /\ disk = [last |-> 0, ack |-> 0, covered |-> 0, required |-> TRUE, readOnly |-> FALSE,
               window |-> NoWindow, drop |-> FALSE]
    /\ mem = disk
    /\ inv = [gen |-> 0, gap |-> TRUE, content |-> 0] /\ minv = inv
    /\ target = NoWindow /\ snap = 0
    /\ session = "none" /\ events = FALSE /\ dirty = FALSE /\ retry = FALSE
    /\ receipt = NoReceipt /\ emitting = FALSE
    /\ spool = <<>> /\ core = EmptySnapshot /\ past = EmptyPath /\ published = {}
    /\ world = 0 /\ budget = [changes |-> 0, crashes |-> 0, faults |-> 0, breaks |-> 0, drops |-> 0]
    /\ calm = FALSE

Spend(what, bound) ==
    /\ ~calm /\ budget[what] < bound
    /\ budget.changes + budget.crashes + budget.faults + budget.breaks + budget.drops < MaxMishaps
    /\ budget' = [budget EXCEPT ![what] = @ + 1]
    /\ UNCHANGED calm

Fault == Spend("faults", MaxFaults) /\ UNCHANGED world

-----------------------------------------------------------------------------
(* The state store, and the publication of one record.                      *)

Fenced(state) == [state EXCEPT !.readOnly = TRUE, !.required = TRUE]

\* replaceLocked.
Replace(next) == mem' = next /\ disk' = next /\ UNCHANGED environment

\* Its write failed: before the rename nothing happened, after it the live
\* state adopts what may be on disk and is fenced.
ReplaceFails(next) ==
    /\ Fault
    /\ \/ UNCHANGED <<mem, disk>>
       \/ mem' = Fenced(next) /\ disk' \in {disk, next, Fenced(next)}

Publish(record) ==
    /\ spool' = Append(spool, record)
    /\ core' = Transition(core, record)
    /\ past' = PathStep(past, record)
    /\ published' = published \cup {record.seq}

Next1 == mem.last + 1
Reserved == [mem EXCEPT !.last = @ + 1]

\* Wrap: reserve the sequence durably, sign, publish.
Sign(record) ==
    /\ ~mem.readOnly
    /\ Replace(Reserved)
    /\ Publish(record)

\* A Wrap that returns an error: the state is read-only, or the reservation
\* failed, or the append failed and fenced the state, with the record left
\* for the next NewSpool to publish or to forget.
SignFails(record) ==
    \/ mem.readOnly /\ UNCHANGED <<mem, disk, evidence, environment>>
    \/ ~mem.readOnly /\ ReplaceFails(Reserved) /\ UNCHANGED evidence
    \/ /\ ~mem.readOnly /\ Fault
       /\ mem' = Fenced(Reserved) /\ disk' \in {Reserved, Fenced(Reserved)}
       /\ Publish(record) \/ UNCHANGED evidence

-----------------------------------------------------------------------------
(* The fences, opened in memory first.                                      *)

\* openDockerReconcileFences; neither fence is written again once it is open
\* in memory.
OpenFences ==
    /\ mem' = [mem EXCEPT !.required = TRUE]
    /\ minv' = [minv EXCEPT !.gap = TRUE]
    /\ disk' = IF mem.required THEN disk ELSE mem'
    /\ inv' = IF minv.gap THEN inv ELSE minv'

\* One of its writes failed.
OpenFencesFails ==
    /\ ~(mem.required /\ minv.gap)
    /\ mem' = [mem EXCEPT !.required = TRUE]
    /\ minv' = [minv EXCEPT !.gap = TRUE]
    /\ disk' \in {disk, IF mem.required THEN disk ELSE mem'}
    /\ inv' \in {inv, IF minv.gap THEN inv ELSE minv'}

\* An inventory that may be consulted: LookupCoreInventory, IngestFalco,
\* LookupPrivateContainer and CheckPrivateNetNS read both fences.
Authoritative == phase = "serving" /\ ~mem.required /\ ~minv.gap

-----------------------------------------------------------------------------
(* The end of the process, and what an error of the running step leads to.  *)

Stopped ==
    /\ phase' = "down" /\ step' = "idle" /\ job' = "none"
    /\ target' = NoWindow /\ snap' = 0 /\ retry' = FALSE /\ receipt' = NoReceipt
    /\ session' = "none" /\ events' = FALSE /\ dirty' = FALSE /\ emitting' = FALSE

\* Startup returns the error and the process ends; the monitor replaces a
\* dead session at once after a failed event reconcile, and retries otherwise.
GiveUp ==
    IF phase # "serving"
    THEN Stopped
    ELSE /\ step' = "idle" /\ job' = "none" /\ target' = NoWindow /\ snap' = 0
         /\ retry' = ~(job = "event" /\ session = "dead")
         /\ UNCHANGED <<phase, receipt, stream, emitting>>

GoTo(next) ==
    /\ step' = next
    /\ UNCHANGED <<phase, job, target, snap, retry, receipt, stream, emitting>>

\* A listener accepts events to sign at any time once the daemon serves.
Publishing ==
    /\ ~mem.readOnly
    /\ phase = "serving" \/ step \in {"cover", "retireSign", "open", "logging", "sign", "close"}

\* The process is killed, between a reservation and its append if it was
\* publishing: the sequence then carries no record.
Crash ==
    /\ phase \notin {"down", "degraded"}
    /\ Spend("crashes", MaxCrashes) /\ UNCHANGED world
    /\ Stopped
    /\ disk' \in {disk} \cup (IF Publishing THEN {Reserved} ELSE {})
    /\ UNCHANGED <<mem, inv, minv, evidence>>

-----------------------------------------------------------------------------
(* Bootstrap: the gaps that reservations without a record have left.        *)

\* LoadConfig to NewSpool: a read-only state makes a degraded daemon.
Restart ==
    /\ phase = "down"
    /\ mem' = disk /\ minv' = inv
    /\ phase' = IF disk.readOnly THEN "degraded" ELSE "bootstrap"
    /\ step' = IF disk.readOnly THEN "idle" ELSE "markers"
    /\ UNCHANGED <<disk, inv, job, target, snap, retry, receipt, stream, emitting, evidence,
                   environment>>

Held == {spool[i] : i \in 1..Len(spool)}
Kind(kind) == {r \in Held : r.kind = kind}

\* UncoveredGaps: the longest runs of sequences above the marker and the ACK
\* that carry no record.
UncoveredGaps ==
    LET start == (IF mem.covered > mem.ack THEN mem.covered ELSE mem.ack) + 1
        missing == (start..mem.last) \ {r.seq : r \in Held}
    IN  {g \in [lo : missing, hi : missing] :
            /\ g.lo..g.hi \subseteq missing
            /\ g.lo - 1 \notin missing /\ g.hi + 1 \notin missing}

FirstGap == CHOOSE g \in UncoveredGaps : \A h \in UncoveredGaps : g.lo <= h.lo

\* scanSequenceGapProofs: the retained gap records do not prove each other.
SameGap(a, b) == a.lo = b.lo /\ a.hi = b.hi /\ a.openedAt = b.openedAt
ProofConflict ==
    LET opens == Kind("sequence_gap_open")
        closes == Kind("sequence_gap_close")
        Proves(open, close, recovery) ==
            /\ open.seq < recovery.seq /\ recovery.seq < close.seq
            /\ recovery.gen = close.gen /\ recovery.closedAt = close.closedAt
            /\ \E d \in Kind("docker_reconcile_gap") :
                  /\ open.seq < d.seq /\ d.seq < recovery.seq
                  /\ d.gen = recovery.gen /\ d.openedAt = recovery.openedAt
    IN  \/ \E a, b \in opens : a # b /\ Overlaps(a, b)
        \/ \E a, b \in closes : a # b /\ SameGap(a, b)
        \/ \E close \in closes, open \in opens :
              IF SameGap(close, open)
              THEN ~\E recovery \in Kind("docker_reconcile_recovered") :
                       Proves(open, close, recovery)
              ELSE /\ Overlaps(close, open)
                   /\ ~\E other \in opens : SameGap(close, other)
Unpaired ==
    {open \in Kind("sequence_gap_open") :
        ~\E close \in Kind("sequence_gap_close") : SameGap(open, close)}

\* failSequenceGapProofs.
FenceProofs ==
    /\ mem' = Fenced(mem)
    /\ \/ disk' = mem' /\ UNCHANGED environment
       \/ Fault /\ UNCHANGED disk
    /\ Stopped
    /\ UNCHANGED <<inv, minv, evidence>>

\* recoverSequenceGapMarkers: a retained open beyond the marker must be for
\* the first physical gaps, and moves the marker past them one by one.
RecoverSequenceGapMarkers ==
    LET beyond == {r \in Kind("sequence_gap_open") : r.hi > mem.covered}
        Matches(g) == {r \in beyond : r.lo = g.lo /\ r.hi = g.hi}
    IN  /\ step = "markers"
        /\ IF \/ ProofConflict
              \/ \E r \in beyond : ~\E g \in UncoveredGaps : r \in Matches(g)
              \/ \E g \in UncoveredGaps : Cardinality(Matches(g)) > 1
              \/ beyond # {} /\ Matches(FirstGap) = {}
           THEN FenceProofs
           ELSE \/ /\ beyond # {}
                   /\ \/ /\ Replace([mem EXCEPT !.covered = FirstGap.hi])
                         /\ GoTo("markers")
                      \/ ReplaceFails([mem EXCEPT !.covered = FirstGap.hi]) /\ Stopped
                   /\ UNCHANGED <<inv, minv, evidence>>
                \/ /\ beyond = {}
                   /\ GoTo("cover")
                   /\ UNCHANGED <<mem, disk, inv, minv, evidence, environment>>

\* Mutation: the range ends after the last missing sequence.
GapOpenPastEnd(g) ==
    [CoverageRecord("sequence_gap_open", Next1) EXCEPT
        !.openedAt = Next1, !.lo = g.lo, !.hi = g.hi + 1]

GapOpen(g) ==
    [CoverageRecord("sequence_gap_open", Next1) EXCEPT
        !.openedAt = Next1, !.lo = g.lo, !.hi = g.hi]

\* Bootstrap signs one open per uncovered gap and then marks it covered.
CoverGap ==
    /\ step = "cover" /\ UncoveredGaps # {}
    /\ \/ Sign(GapOpen(FirstGap)) /\ GoTo("mark")
       \/ SignFails(GapOpen(FirstGap)) /\ Stopped
    /\ UNCHANGED <<inv, minv>>

MarkGapCovered ==
    /\ step = "mark"
    /\ LET next == [mem EXCEPT !.covered = FirstGap.hi]
       IN  \/ Replace(next) /\ GoTo("cover")
           \/ ReplaceFails(next) /\ Stopped
    /\ UNCHANGED <<inv, minv, evidence>>

\* The last record of Bootstrap.
ObserverStart ==
    LET record == CoverageRecord("observer_start", Next1)
    IN  /\ step = "cover" /\ UncoveredGaps = {}
        /\ \/ /\ Sign(record)
              /\ phase' = "startup" /\ step' = "subscribe" /\ job' = "startup"
              /\ UNCHANGED <<target, snap, retry, receipt, stream, emitting>>
           \/ SignFails(record) /\ Stopped
        /\ UNCHANGED <<inv, minv>>

-----------------------------------------------------------------------------
(* One reconcile, by Run at startup and by the monitor afterwards.          *)

\* prepareDockerEventSessionLocked: a session is subscribed before anything
\* is listed, and one already there is kept.
Subscribe ==
    /\ step = "subscribe"
    /\ \/ /\ session' = IF session \in {"none", "dead"} THEN "live" ELSE session
          /\ IF session \in {"none", "dead"} THEN events' = FALSE /\ dirty' = FALSE
                                             ELSE UNCHANGED <<events, dirty>>
          /\ step' = "fence"
          /\ UNCHANGED <<phase, job, target, snap, retry, receipt, emitting, mem, disk, inv, minv,
                         environment>>
       \/ /\ session \in {"none", "dead"} /\ Fault
          /\ OpenFences \/ OpenFencesFails
          /\ IF phase = "startup" THEN Stopped
             ELSE /\ session' = "none" /\ step' = "idle" /\ job' = "none" /\ retry' = TRUE
                  /\ UNCHANGED <<phase, target, snap, receipt, events, dirty, emitting>>
    /\ UNCHANGED <<evidence>>

Fence ==
    /\ step = "fence"
    /\ \/ OpenFences /\ GoTo("decide") /\ UNCHANGED environment
       \/ OpenFencesFails /\ Fault /\ GiveUp
    /\ UNCHANGED <<evidence>>

\* finishDockerReconcileLockedReceipt: a window whose generation the
\* inventory has reached is retired, one it has not is resumed.
Decide ==
    /\ step = "decide"
    /\ target' = mem.window
    /\ step' = IF mem.window = NoWindow THEN "open"
               ELSE IF minv.gen >= mem.window.gen THEN "retire" ELSE "list"
    /\ UNCHANGED <<phase, job, snap, retry, receipt, stream, emitting, mem, disk, inv, minv,
                   evidence, environment>>

\* Mutation: the window is not released before its close is signed.
ReleasedNot == mem

Released == [mem EXCEPT !.window = NoWindow]
Recovered(window) ==
    [CoverageRecord("docker_reconcile_recovered", Next1) EXCEPT
        !.openedAt = window.openedAt, !.closedAt = Next1, !.gen = window.gen]

\* retireDockerReconcileWindow: release the window, then sign its close.
Retire ==
    /\ step = "retire"
    /\ \/ Replace(Released) /\ GoTo("retireSign")
       \/ ReplaceFails(Released) /\ GiveUp
    /\ UNCHANGED <<inv, minv, evidence>>

RetireSign ==
    /\ step = "retireSign"
    /\ \/ Sign(Recovered(target)) /\ GoTo("open")
       \/ SignFails(Recovered(target)) /\ GiveUp
    /\ UNCHANGED <<inv, minv>>

\* A new window: its open is signed for the generation to come.
Open ==
    LET window == [openedAt |-> Next1, gen |-> minv.gen + 1]
        record == [CoverageRecord("docker_reconcile_gap", Next1) EXCEPT
                      !.openedAt = window.openedAt, !.gen = window.gen]
    IN  /\ step = "open"
        /\ \/ /\ Sign(record)
              /\ target' = window /\ step' = "begin"
              /\ UNCHANGED <<phase, job, snap, retry, receipt, stream, emitting>>
           \/ SignFails(record) /\ GiveUp
        /\ UNCHANGED <<inv, minv>>

\* beginDockerReconcile.
Begin ==
    LET next == [mem EXCEPT !.window = target]
    IN  /\ step = "begin"
        /\ \/ Replace(next) /\ GoTo("list")
           \/ ReplaceFails(next) /\ GiveUp
        /\ UNCHANGED <<inv, minv, evidence>>

\* Inventory.Reconcile: list and inspect, then adopt under the next
\* generation, which also closes the inventory's own fence.
List ==
    /\ step = "list"
    /\ \/ /\ snap' = world /\ step' = "persist"
          /\ UNCHANGED <<phase, job, target, retry, receipt, stream, emitting, environment>>
       \/ Fault /\ GiveUp
    /\ UNCHANGED <<mem, disk, inv, minv, evidence>>

Persist ==
    LET next == [gen |-> minv.gen + 1, gap |-> FALSE, content |-> snap]
    IN  /\ step = "persist"
        /\ \/ minv' = next /\ inv' = next /\ GoTo("logging") /\ UNCHANGED environment
           \/ Fault /\ inv' \in {inv, next} /\ UNCHANGED minv /\ GiveUp
        /\ UNCHANGED <<mem, disk, evidence>>

Logging ==
    LET record == [CoverageRecord("docker_logging_visibility_degraded", Next1) EXCEPT
                      !.openedAt = Next1, !.gen = target.gen]
    IN  /\ step = "logging"
        /\ \/ /\ minv.content \notin Unlogged
              /\ GoTo("commit") /\ UNCHANGED <<mem, disk, evidence, environment>>
           \/ minv.content \in Unlogged /\ Sign(record) /\ GoTo("commit")
           \/ minv.content \in Unlogged /\ SignFails(record) /\ GiveUp
        /\ UNCHANGED <<inv, minv>>

\* The fence of the state is still open: only the inventory's is opened again.
ReopenInventory ==
    /\ minv' = [minv EXCEPT !.gap = TRUE]
    /\ inv' = IF minv.gap THEN inv ELSE minv'

\* CommitIfLive: a session that ended refuses; a live one cannot be marked
\* ended until the close is signed and the fence lifted.  A clock behind the
\* open refuses as well.
Commit ==
    /\ step = "commit"
    /\ \/ session = "dead" /\ ReopenInventory /\ GiveUp /\ UNCHANGED <<mem, disk, environment>>
       \/ Fault /\ ReopenInventory /\ GiveUp /\ UNCHANGED <<mem, disk>>
       \/ session # "dead" /\ Replace(Released) /\ GoTo("sign") /\ UNCHANGED <<inv, minv>>
       \/ session # "dead" /\ ReplaceFails(Released) /\ ReopenInventory /\ GiveUp
    /\ UNCHANGED <<evidence>>

SignRecovered ==
    /\ step = "sign"
    /\ \/ /\ Sign(Recovered(target))
          /\ receipt' = [seq |-> Next1, closedAt |-> Next1, gen |-> target.gen]
          /\ step' = "complete"
          /\ UNCHANGED <<phase, job, target, snap, retry, stream, emitting, inv, minv>>
       \/ SignFails(Recovered(target)) /\ ReopenInventory /\ GiveUp

\* completeDockerReconcile lifts the fence unless something else holds it.
Complete ==
    LET next == [mem EXCEPT !.required = mem.readOnly \/ mem.drop]
    IN  /\ step = "complete"
        /\ \/ /\ Replace(next)
              /\ phase' = IF phase = "startup" THEN "closing" ELSE phase
              /\ step' = IF phase = "startup" THEN "closeScan" ELSE "idle"
              /\ job' = "none" /\ target' = NoWindow /\ snap' = 0 /\ retry' = FALSE
              /\ UNCHANGED <<receipt, stream, emitting, inv, minv>>
           \/ ReplaceFails(next) /\ ReopenInventory /\ GiveUp
        /\ UNCHANGED evidence

-----------------------------------------------------------------------------
(* closeOutstandingSequenceGaps, between the startup reconcile and the       *)
(* listeners: the gaps a reconcile has covered are closed under its receipt. *)

CloseScan ==
    /\ step = "closeScan"
    /\ IF ProofConflict THEN FenceProofs
       ELSE \/ /\ GoTo("close")
               /\ UNCHANGED <<mem, disk, inv, minv, evidence, environment>>
            \/ Fault /\ OpenFences /\ Stopped /\ UNCHANGED <<evidence>>

CloseGap ==
    LET open == CHOOSE r \in Unpaired : \A q \in Unpaired : r.seq <= q.seq
        record == [CoverageRecord("sequence_gap_close", Next1) EXCEPT
                      !.openedAt = open.openedAt, !.closedAt = receipt.closedAt,
                      !.gen = receipt.gen, !.lo = open.lo, !.hi = open.hi]
    IN  /\ step = "close" /\ Unpaired # {}
        /\ \/ Sign(record) /\ GoTo("close")
           \/ SignFails(record) /\ Stopped
        /\ UNCHANGED <<inv, minv>>

\* The final scan; the listeners and the monitor start.
Serve ==
    /\ step = "close" /\ Unpaired = {}
    /\ IF ProofConflict THEN FenceProofs
       ELSE /\ phase' = "serving" /\ step' = "idle"
            /\ UNCHANGED <<job, target, snap, retry, receipt, stream, emitting, mem, disk, inv, minv,
                           evidence, environment>>

-----------------------------------------------------------------------------
(* monitorDockerContinuously, the event session and its pump.               *)

Idle == phase = "serving" /\ step = "idle"

Start(what, first) ==
    /\ job' = what /\ step' = first
    /\ UNCHANGED <<phase, target, snap, retry, receipt, emitting, evidence>>

\* monitorDockerOnce, with an event.
HandleEvent ==
    /\ Idle /\ ~retry /\ dirty /\ session # "dead"
    /\ dirty' = FALSE
    /\ Start("event", "fence")
    /\ UNCHANGED <<session, events, mem, disk, inv, minv, environment>>

\* recoverDockerWithSubscribedSession, a second after a failure.
Retry ==
    /\ Idle /\ retry
    /\ Start("retry", "subscribe")
    /\ UNCHANGED <<stream, mem, disk, inv, minv, environment>>

\* replaceDockerEventSessionLocked: fences, then the old session is closed
\* and a new one subscribed, then the reconcile.
ReplaceSession ==
    /\ Idle /\ ~retry /\ session = "dead"
    /\ events' = FALSE /\ dirty' = FALSE
    /\ \/ OpenFences /\ session' = "live" /\ Start("replace", "decide") /\ UNCHANGED environment
       \/ /\ Fault /\ retry' = TRUE
          /\ \/ OpenFencesFails /\ session' \in {"live", "none"}
             \/ OpenFences /\ session' = "none"
          /\ UNCHANGED <<phase, step, job, target, snap, receipt, emitting, evidence>>

\* The pump turns any number of events into one dirty signal.
PumpEvent ==
    /\ session = "live" /\ events
    /\ events' = FALSE /\ dirty' = TRUE
    /\ UNCHANGED <<control, session, emitting, mem, disk, inv, minv, evidence, environment>>

\* Mutation: the end of the stream opens no fence.
MarkTerminalUnfenced ==
    /\ session = "broken" /\ session' = "dead"
    /\ UNCHANGED <<control, events, dirty, emitting, mem, disk, inv, minv, evidence, environment>>

\* markTerminal waits for a commit that runs, then opens the fences.
MarkTerminal ==
    /\ session = "broken" /\ step \notin {"sign", "complete"}
    /\ session' = "dead"
    /\ \/ OpenFences /\ UNCHANGED environment
       \/ OpenFencesFails /\ Fault
    /\ UNCHANGED <<control, events, dirty, emitting, evidence>>

-----------------------------------------------------------------------------
(* Docker, Core, and events refused for quota.                              *)

\* A container starts or stops; only a live stream carries the event.
Change ==
    /\ Spend("changes", MaxChanges)
    /\ world' = world + 1
    /\ events' = (events \/ session = "live")
    /\ UNCHANGED <<control, session, dirty, emitting, mem, disk, inv, minv, evidence>>

\* The stream ends; pump prefers its error to the events still in it.
StreamBreaks ==
    /\ session = "live"
    /\ Spend("breaks", MaxBreaks) /\ UNCHANGED world
    /\ session' = "broken" /\ events' = FALSE
    /\ UNCHANGED <<control, dirty, emitting, mem, disk, inv, minv, evidence>>

AckCrossesUncoveredGap(seq) == seq - mem.ack > 1 /\ mem.covered < seq - 1

\* Core acknowledges the next record, unless that would skip a gap no signed
\* record covers.
CoreAck ==
    /\ phase = "serving" /\ spool # <<>> /\ ~mem.readOnly /\ core.healthy
    /\ ~AckCrossesUncoveredGap(Head(spool).seq)
    /\ Replace([mem EXCEPT !.ack = Head(spool).seq])
    /\ spool' = Tail(spool)
    /\ UNCHANGED <<control, stream, emitting, inv, minv, core, past, published>>

\* A routine event is refused: its sequence is consumed, the drop is counted
\* unless that write fails, and only the first one counted is to be signed.
DropRoutine ==
    LET counted == [Reserved EXCEPT !.drop = TRUE]
    IN  /\ phase = "serving" /\ ~mem.readOnly
        /\ Spend("drops", MaxDrops) /\ UNCHANGED world
        /\ mem' \in {counted, Reserved, Fenced(counted)} /\ disk' = mem'
        /\ emitting' = (emitting \/ (mem' = counted /\ ~mem.drop))
        /\ UNCHANGED <<control, stream, inv, minv, evidence>>

EmitRoutineDrop ==
    LET record == [CoverageRecord("observer_spool_drop", Next1) EXCEPT !.openedAt = Next1]
    IN  /\ emitting /\ emitting' = FALSE
        /\ Sign(record) \/ SignFails(record)
        /\ UNCHANGED <<control, stream, inv, minv>>

CalmDown ==
    /\ ~calm /\ calm' = TRUE
    /\ UNCHANGED <<control, stream, emitting, mem, disk, inv, minv, evidence, world, budget>>

-----------------------------------------------------------------------------
Program ==
    \/ Restart
    \/ RecoverSequenceGapMarkers \/ CoverGap \/ MarkGapCovered \/ ObserverStart
    \/ Subscribe \/ Fence \/ Decide \/ Retire \/ RetireSign \/ Open \/ Begin
    \/ List \/ Persist \/ Logging \/ Commit \/ SignRecovered \/ Complete
    \/ CloseScan \/ CloseGap \/ Serve
    \/ HandleEvent \/ Retry \/ ReplaceSession

Next ==
    \/ Program
    \/ PumpEvent \/ MarkTerminal \/ EmitRoutineDrop
    \/ Change \/ StreamBreaks \/ CoreAck \/ DropRoutine \/ Crash

Spec == Init /\ [][Next]_vars

\* systemd restarts the process, the goroutine of the monitor and the pump of
\* the session are scheduled, and faults cease at some time.
LiveSpec ==
    /\ Init /\ [][Next \/ CalmDown]_vars
    /\ WF_vars(Program) /\ WF_vars(PumpEvent) /\ WF_vars(MarkTerminal)
    /\ WF_vars(CalmDown)

-----------------------------------------------------------------------------
State ==
    [last : Nat, ack : Nat, covered : Nat, required : BOOLEAN, readOnly : BOOLEAN,
     window : [openedAt : Nat, gen : Nat], drop : BOOLEAN]

TypeOK ==
    /\ phase \in {"down", "degraded", "bootstrap", "startup", "closing", "serving"}
    /\ step \in {"idle", "markers", "cover", "mark", "subscribe", "fence", "decide", "retire",
                 "retireSign", "open", "begin", "list", "persist", "logging", "commit", "sign",
                 "complete", "closeScan", "close"}
    /\ job \in {"none", "startup", "event", "retry", "replace"}
    /\ {disk, mem} \subseteq State
    /\ {inv, minv} \subseteq [gen : Nat, gap : BOOLEAN, content : Nat]
    /\ target \in [openedAt : Nat, gen : Nat] /\ snap \in Nat
    /\ session \in {"none", "live", "broken", "dead"}
    /\ {events, dirty, retry, emitting, calm} \subseteq BOOLEAN
    /\ receipt \in [seq : Nat, closedAt : Nat, gen : Nat]
    /\ Held \subseteq [kind : STRING, seq : Nat, openedAt : Nat, closedAt : Nat, gen : Nat,
                       lo : Nat, hi : Nat]
    /\ published \subseteq Nat /\ world \in Nat

(* Whatever fails or crashes, the observer never signs a Docker close or a  *)
(* gap close that one of Core's reducers cannot pair: CoverageConflict      *)
(* would stop Core's reading of the stream for good, and                    *)
(* HistoricalCoverageConflict its judgement of every later snapshot.        *)
NoCoverageConflict == core.healthy /\ past.healthy

(* The two reducers of Core, written apart and with different rules of      *)
(* pairing, are left with the same Docker windows, sequence gaps and        *)
(* critical intervals open.                                                 *)
ReducersAgree ==
    /\ past.opens = core.opens
    /\ {[lo |-> g.lo, hi |-> g.hi, openedAt |-> g.openedAt] : g \in past.gaps}
         = {[lo |-> g.lo, hi |-> g.hi, openedAt |-> g.openedAt] : g \in {h \in core.gaps : ~h.closed}}
    /\ past.active = core.critical

(* An inventory that is consulted and out of date is about to be noticed:   *)
(* the event is in the stream or the dirty channel, or the monitor is on    *)
(* its way to the fence, or the stream has broken and its end is about to   *)
(* be marked (dockerEventSession: subscribe before list, commit if live).   *)
StaleIsSignalled ==
    Authoritative /\ minv.content # world =>
        events \/ dirty \/ session = "broken" \/ step = "fence"

(* A generation that lookups answer with is the last one that a signed      *)
(* docker_reconcile_recovered announced to Core.                            *)
ServedIsAnnounced == Authoritative => HighestRecovery(core) = minv.gen

(* Core never acknowledges past a sequence that carries no record unless a  *)
(* signed gap open explains it (ackCrossesUncoveredGap).                    *)
AckedGapsAreExplained ==
    \A n \in 1..disk.ack :
        n \in published \/ ~core.healthy \/ \E g \in core.gaps : g.lo <= n /\ n <= g.hi

(* A signed gap covers exactly missing reservations: no record was or will  *)
(* be published under a sequence that a gap has declared lost.              *)
GapsAreExact == \A g \in core.gaps : g.lo..g.hi \cap published = {}

(* Once the listeners run, every gap of earlier processes has been closed   *)
(* under a Docker reconcile that came after it.                             *)
ServingClosedGaps == phase = "serving" => \A g \in core.gaps : g.closed

(* Once faults cease the daemon comes to answer from the current containers *)
(* and stays there, unless it has fenced itself.                            *)
Settled ==
    \/ Authoritative /\ minv.content = world
    \/ mem.readOnly \/ mem.drop
ReconcileSettles == <>[]Settled

(* The inventory is consulted only while Core has no open Docker window: an *)
(* open whose close was lost is superseded by the next reconcile.           *)
AbandonedOpenIsSuperseded == Authoritative => core.opens = {}

(* The observer's own gap records always prove each other to its own scan.  *)
OwnProofsHold == ~ProofConflict

=============================================================================
