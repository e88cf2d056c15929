# Verification of AGmind SAIS

TLA+ models of the containment system in this repository, TLC runs over small
instances of them, and TLAPS proofs of what must hold for every instance. Paths
below are relative to the root of the repository.

## The system

Evidence is signed on the host by `agmind-observerd`, pulled and archived by the
Core (`core/agmind_immune`), correlated, judged by an OPA policy and turned into
a containment intent. `agmind-actuatord` prepares a plan for the intent, waits
for a local operator, and adds one element with a timeout to an nftables set in
the network namespace of a container. Every step of a plan is a signed record of
the action journal, which the Core mirrors and checks.

| Part | Durable state | What makes it hard |
|---|---|---|
| Action journal (`host/actuatord/journal.go`, `apply_journal.go`, `approval.go`) | one chained file of signed records; maps rebuilt from it | fixed size, failed fsync, crash in mid-append, replay must accept all that was ever written |
| Actuator daemon (`service.go`, `apply.go`, `recovery.go`, `expiry.go`, `kill_switch.go`, `daemon.go`) | the journal, the kill switch file; the kernel's set | kernel and file change at different moments; containers restart; clocks run during downtime; worker, sweeper and operator interleave |
| Durable journal (`internal/durablefile/journal.go`, `frame.go`) | a file and the directory entry that names it | two processes; rename under a lock; power loss keeps an arbitrary part of what was not synced |
| Observer coverage (`host/observerd/service.go`, `inventory.go`, `docker.go`, `coverage.go`, `sequence_gap.go`) | state file, inventory file, spool | an event stream that breaks, a close signed after its window is released, a restart in any window |
| Observer spool (`spool.go`, `envelope.go`, `pcc_boundary_archive.go`) | state file, frames, publication nodes, ACK journal, boundary archive | six files that must agree after a crash between any two writes; quotas; reboots |
| Core coverage reducers (`coverage/state.py`, `coverage/historical.py`) | none of their own: folds over signed events | two implementations of one account; one record that cannot be paired stops the first |
| Core delivery (`ingest/service.py`, `ingest/ack_journal.py`, `ingest/correlation_journal.py`) | ACK journal with its commitment, correlation requests | an ACK only behind proof and below every open gap; lost answers; two journals and a cursor on another machine |
| Core evidence store (`evidence/segments.py`, `evidence/repair.py`) | segments, manifests, chain head, health marker, repair state | torn tails; a repair signed by the observer while evidence keeps coming |
| Core retention (`evidence/retention.py`, `evidence/segments.py`, `controller.py`) | retention state file, payloads, boundary cache | removal announced, carried out and recovered over crashes; a control event on the other side of the wire |
| Core projection (`evidence/projection.py`, `projection_v2.py`, `projection_publication.py`) | an SQLite image and its sidecars | three ways to compute one image; publication by rename under power loss |
| Core decision and delivery of intents (`controller.py`, `runtime.py`, `policy/`, `actions/`) | decision-intent journal, delivery database, mirror of the action journal | freshness checked before awaits and used after; answers of the actuator lost |

The parts meet in these places. The observer publishes to its spool and the Core
pulls from it, stores and acknowledges: `ObserverSpool` has the observer's end of
that exchange, `CoreDelivery` the Core's. What the observer signs about Docker and
sequence gaps is paired by the Core's reducers: `ObserverCoverage` composes the
observer with `CoreCoverage` and `HistoricalCoverage`. Tail repair and retention
both ask the observer to sign a control event and wait for it in the stream:
`TailRepair` and `Retention` hold both ends. Retention removes records under the
projection: `Projection` has the order of its steps. The actuator writes its
journal through the durable journal (an append is atomic, or fails and poisons
the journal), and the Core reads the same records back through
`ActuatorRecords`, which the run `journal` compares with the actuator's own
replay and `Decision` uses in its mirror.

`PROJECT.json` lists every part under `components`, every definition with the
lines it models under `map`, and the hazards, at their lines, under `hazards`.

## Modules

**`ActionLifecycle`**: the transition table of a plan, as the journal and the
Core's mirror apply it.

**`ActionJournal`**: the action journal. `log` is the file, `mem` the maps of the
process, `pos` the position of a running replay, `after` a history variable with
the maps after each frame. The actions are `reserveIntent`, the four append
functions, the failing forms of them, `Open`, one step of replay per frame, and
`Stop` (a crash or a close). Record sizes range over `1..MaxFrame`, so the
capacity checks of `ensureTransitionCapacity` and `validateRecoveredCapacity` are
those of the code. Signatures and field formats are left out: a record the
process wrote verifies.

**`ActuatorRecords`**: the Core's reading of the same records
(`actions/actuator_records.py`), written against the same frames and sharing
nothing with the Go replay: what every record must satisfy, the four dictionaries,
and the transaction that undoes a partly verified extension.

**`Containment`**: what the actuator promises, with no daemon in it: each plan has
a verdict and the kernel holds denies; a deny begins once, after approval and a
durable attempt, and a verdict never contradicts what is in force.

**`Actuator`**: the daemon between its file and the kernel. `disk` and `mem` are
the journal and the maps, `elem` the remaining timeout of an nftables element,
`pc`, `cur`, `todo` the operation that holds the mutex, `apprLeft`, `legitLeft`,
`auditLeft` what is left of the deadlines. `ApplyNext` is split where a crash or a
delay can be seen: begin, attempt record, the checks before the batch
(`nft_linux.go:1012-1026`), the start of `conn.Flush` under the deadline that the
netlink socket got when it was opened (`nft_linux.go:81-87`), the commit in the
kernel, readback, `APPLIED`, `VERIFIED`. `ctx` holds what is left of the apply
context, of the socket's deadline, and of `Stall`. Nothing checks a deadline between
the start of the flush and the commit, nor between `InspectApplied` and the sample of
the boot clock in `ReconcileIncomplete` (`recovery.go:198`, `217`): the process may be
held there for any time. A process held for no more than `Stall` is called prompt, and
`late` records the plans whose batch was sent by one that was not.
`ReconcileIncomplete`, the expiry sweep, `Prepare`, the decisions and the kill
switch are actions of their own. The environment crashes or reboots the host,
restarts containers, suspends the host, fails a write, or lets time pass. `calm`
becomes true once and for all: it is the moment after which faults cease.

**`DurableJournal`**: inodes, the directory entry, advisory locks, the durable
prefix of each inode, and processes that open, recover, append, checkpoint and
page. A power loss keeps any prefix of the frames that were not synced, possibly
with a torn one, and either side of a rename that was not synced.

**`CoreCoverage`**, **`HistoricalCoverage`**: the two reducers as operators on a
state: which opens are outstanding, which gaps are open or closed, whether a
record could not be paired; and, for the second, whether the window between a
trigger and its decision was observed.

**`ObserverCoverage`**: bootstrap, startup, serving and shutdown of the observer
around the Docker reconcile, with both reducers applied to what it publishes.
`phase` and `step` are the position in the code, `disk`/`mem` the state file and
its live copy, `inv`/`minv` the inventory file and its live copy, `session` the
event stream, `world` the containers of the host as a version number. A
publication is one step here; its inside is `ObserverSpool`.

**`ObserverSpool`**: the files of the spool, one step per create, rename, state
write and unlink, and the whole of `NewSpool` and `Bootstrap` that runs over
whatever a crash has left. Events are named by their sequence, a hash in a
publication node or in the state is the sequence it stands for, and the hash of an
ACK record is the list of records up to it. A frame, a node and an ACK record
weigh one unit, so that quotas can be reached. `taken`, `done`, `signed` and
`cut` record history for the properties only.

**`AckJournal`**, **`CorrelationJournal`**, **`CoreDelivery`**: the two journals of
delivery with their recovery, and `poll_once` over them. A step runs up to one
durable write or one message, so a crash, a lost message or an I/O error falls
between any two. A tail repair appears as the drain that ignores requests.

**`EvidenceStore`**, **`TailRepair`**: the segment store (append, rotation, seal,
fence, the recovery plan of a start), and over it the signed two-phase repair of a
torn tail with the observer's stream and the ACK cursor. A publication by
temporary and rename is one step that a crash leaves on either side, perhaps with
the temporary; a frame write is interrupted into nothing, a torn frame or a whole
one.

**`RetentionSelection`**, **`Retention`**: the selector over a frozen snapshot, as
pure operators, and the retention transaction around it: freeze, publish the
request, deliver it to the observer, accept its control event, authenticate,
announce and carry out the unlinks, rebuild, publish the boundary cache, clear the
state file, and the recovery that a start runs over whatever is left.

**`ProjectionRows`**, **`ProjectionPublication`**, **`Projection`**: the tables as the
incremental reducers, the replay and the closure check compute them; the directory
with the database, its temporary and its sidecars; and the life of the database:
open, classify, apply, rebuild, publish, retire, with everything a power loss can
leave since the last fsync.

**`Decision`**: the tick of `CoreRuntime`: pages of candidates, the single-use
admission, the policy call, the decision-intent journal, delivery to the actuator
with its SQLite receipts, and the mirror. The lease of coverage belongs to one
process. `drift` is how far the wall clock went from the monotonic one since the
last healthy sample of the process (`decision_sample` in `main.py`): while it is not
zero there is no readiness and no evaluation, and since an unhealthy sample moves no
reference, only an opposite step or a restart ends that. A delivery that finds no
answer is queued again, or ends the process (`IntentDeliveryFatal`). Between two steps of the tick only the
clock, the actuator and a crash act, as in the one asyncio task it is.

The `MC` modules instantiate these for TLC and hold some of the properties; the
`*Invariant`, `*Steps` and `*Proofs` modules hold the proofs.

## Runs

| Run | Question | Result |
|---|---|---|
| `journal` | can any order of appends, failures, crashes and replays write a file that replay refuses, starve an admitted plan of room, or write what the Core's mirror cannot verify | no |
| `actuator` | can the kernel hold a deny the file does not account for; can a plan be applied twice, a deny sent by a prompt process outlast its window, or the limits be exceeded in the kernel; does the daemon implement `Containment` | it cannot; it does |
| `actuator_live` | once faults cease, does an attempt whose outcome is open get its verdict | yes |
| `durable_journal` | two processes on one journal with checkpoints and power losses: one writer, nothing acknowledged lost, pages that fit together | yes |
| `observer_coverage` | can the Core pair everything the observer signs, with the same account in both reducers; is a stale inventory ever consulted unnoticed; are gaps exact | yes; no; yes |
| `spool` | do two crashes, or a crash and a storage failure, lose evidence, publish before the boundary, or make the spool refuse to open | no |
| `evidence` | does a crash or a repair lose accepted evidence or leave a cut unexplained; does a repair finish in a stream without sequence gaps | no; yes |
| `delivery` | is an ACK ever sent without proof or made unrecoverable; does delivery converge when nothing is lost | no; yes |
| `retention` | does evidence leave the disk without a tombstone; what can make recovery fence the root; is every request carried out | no; only a request whose event an ordinary poll took; yes, that case apart |
| `projection` | is every image that a power loss can leave exact; do decisions survive the retirement of their evidence | yes |
| `decision` | does the decision journal always reopen; does the actuator get only what was decided, once; is the mirror history; is every standing candidate decided and every manual decision settled | yes, if the two coverage hashes agree |
| `decision_admission` | the same with the hashes as the code computes them | `StandingIsDecided` is violated |

Every property of a passing run has a mutant in `PROJECT.json`: a changed form of
one definition, kept in the module next to the original, under which TLC finds
that property violated.

### Disagreements

`decision_admission` is the disagreement between code and documents that
`findings` records: admission compares two hashes of different domains, so it
never succeeds, while ADR 0005 says that the two are never substituted for each
other. The test of admission replaces the readiness that would show it. The run
`decision` takes the hashes to agree (`HashesAgree`), to check what lies behind
admission: its `StandingIsDecided` and `ManualIsSettled` are about the code as it
would be with that comparison repaired. With the code's own comparison nothing is
ever decided, which is what `decision_admission` shows; the safety properties then
hold because nothing happens, and the theorems cover both values.

The same models show further places where the code does not do what a document,
a comment or a test says. They are not among the runs of `PROJECT.json`. Most
have a configuration of their own here; the others are obtained by changing one.

| Configuration | Property | What TLC finds |
|---|---|---|
| `MCActuatorRejected.cfg` | `RejectedWasNeverApplied` | a daemon that returns after the deny it applied has timed out records `REJECTED` (`recovery.go:259`), which ADR 0001:195-196 reserves for plans that were not applied |
| `MCObserverCoverageProofs.cfg` | `OwnProofsHold` | a restart that resumes a Docker window opened before a sequence gap closes the gap under it; the proof scan (`sequence_gap.go:441`) rejects that close and fences the observer |
| `MCObserverSpoolBoundary.cfg` | `CrashCreatesGap` | a crash between the reservation of a boot boundary and its commit makes the next attempt one sequence later, and the archive (`pcc_boundary_archive.go:419`) refuses it for good; ADR 0001:297-299 says such a crash creates a gap |
| `MCTailRepairGap.cfg` | `RepairCompletes` | the repair drain makes an ACK pending above an open sequence gap (`ingest/service.py:3004`) and never gets past it |
| `MCCoreDeliveryAmbiguous.cfg` | `DeliveryConverges` | after a lost ACK reply, a trigger selected at that moment is driven first (`ingest/service.py:3533`), the page it fetches is refused, and delivery latches at every restart |
| `MCRetentionAgain.cfg` | `RetentionKeepsUp` | once one tombstone is complete every later freeze finds its payloads missing (`evidence/segments.py:3702`) and ends the process |
| `MCProjectionRetired.cfg` | `RetiredIsRebuilt` | the rebuild after a removal requires the cursor of the old image inside the range just retired (`projection_v2.py:3554`), where it never is |
| `MCObserverCoverage.cfg` with `MaxChanges`, `MaxCrashes`, `MaxBreaks`, `MaxDrops` 0, `MaxMishaps` 4, `Unlogged` empty | `AbandonedOpenIsSuperseded` | a Docker close that could not be signed (`service.go:647`) leaves an open that no later reconcile supersedes |
| `MCCoreDelivery.cfg` with `MaxTriggers` 1, `PageLimit` 3, `MaxRequestRecords` 9, `MaxGaps`, `MaxLost`, `MaxIoErrors`, `MaxRepairs` 0 | `DeliveryConverges` | a snapshot farther from its trigger than one scan latches delivery after a restart (`ingest/service.py:3316`) |
| `MCRetention.cfg` with `Target` 1, `Kinds` `{"routine"}`, `MaxEvents` 2, `MaxRequests` 1 | `RetryConverges` | a lost answer, and an ordinary poll that takes the control event before the retry, fence the evidence root (`ingest/service.py:1968`) |
| `MCProjection.cfg` with `MaxSeq` 2, `MaxOrders` 0, `Legacy` `FALSE` | `CrashReopens` | a process that dies with the database open leaves sidecars that the next open refuses (`projection.py:633`) |

Two properties of passing runs exempt such a case by name. `FencedIsStranded`
says that the stranded request is the *only* reason for a fence. `AckAlwaysRecovers`
exempts a partial temporary of the ACK commitment, which `segments.py` takes for a
foreign file.

### Bounds

The bounds are the smallest at which the cases of interest meet.

* `journal`: two intents with two digests, so that plans compete for room and an
  intent can return with another digest. 11 records of size up to 2 in 18 units
  let two plans reach the capacity check at every stage of their lives.
* `actuator`: two plans for two containers on a host that allows one deny. The
  apply context is one tick for the socket and one for each of the two gaps in
  which the process may be held (`Stall`), the least that `WindowFits`; a process
  may be held longer, and then its plan is `late`. Crashes are not bounded. With
  one deny allowed, the limit per container is checked by TLC only through the one
  per host; `WithinLimits` proves both for any bound. `FaultsGoOn` leaves out the states after faults have ceased, which
  have fewer steps than those before and matter to liveness only.
* `actuator_live` starts from a daemon with one plan left to come, and from one
  whose last fault was an audit without an answer while another plan was
  approved: the only situation in which one plan's audit holds up another.
* `durable_journal`: two processes, three inodes (the journal, a checkpoint and
  the one after it), two frames, payloads of two weights. Crashes and power
  losses are not bounded.
* `observer_coverage`: one crash, one failed write or call, one broken stream, one
  dropped routine event and one change of the containers, each at any step, and
  any three of them in one behaviour (`MaxMishaps`). A second crash repeats the
  recovery of the first from states already reached by one.
* `spool`: five sequences (boundary, start, an event lost to a crash or to quota,
  its gap, the start after it), two boots, two mishaps of which at most one is a
  storage failure. The routine tier holds one event, the spool four, so both
  quotas are reached.
* `evidence`: segments of two records and three events, so that a rotation falls
  between two of them; a sequence gap; two crashes, the second one during the
  recovery or the repair of the first.
* `delivery`: three events, two of which are triggers, so that one waits while
  another is resolved; pages and scans of two, so that both are exhausted; one
  each of crash, lost message, I/O error and repair.
* `retention`: three events of which some are routine, two requests, the second
  one after the first is settled, one fault. A run of two payloads is interrupted
  between them.
* `projection`: logs of five records, the shortest that hold a trigger, its
  duplicate, a snapshot, a gap and a record after it, with one fault, at most two
  disturbances (`MaxDisturbed`) and an image of the legacy format.
* `decision`: two candidates with pages and batches of one, so that a page and a
  batch are exhausted, and one each of crash, failure and approval.

`CHECK_DEADLOCK FALSE` is set where the system may really stop: an observer that
has fenced itself, with nothing left to fetch; a Core whose store, delivery or
database has latched, or whose stream has come to its end with all bounds used.

### Fairness

Only liveness depends on fairness, and it is assumed of the program's own steps,
never of a fault, an operator, or new evidence.

* `Actuator`: weak fairness of the steps of an operation that holds the mutex, of
  start and shutdown, of the restart (`Restart=on-failure` in
  `deploy/systemd/agmind-actuatord.service`) and of time; strong fairness of the
  worker and the sweeper taking the mutex, since Go's mutex hands over to a
  waiter after 1 ms of starvation. Liveness is claimed from the moment faults
  cease.
* `CoreDelivery`, `TailRepair`, `Decision`: weak fairness of the Core's own steps as
  one action, the loop of one asyncio task that a supervisor restarts.
* `MCRetention`: weak fairness of a transaction under way and of recovery, and of
  the clock; strong fairness of polls and ACKs, which run between two retention
  checks and which a retry does not starve. Nothing is assumed of a new selection.
* `Projection`: weak fairness of the one step that brings the image on: open,
  publish, apply, rebuild, or the operator's removal of what is refused.
* `ObserverCoverage` (`LiveSpec`): the monitor loop with its retry timer, the start
  of the daemon, the delivery of events and the report of a broken stream are
  weakly fair, and faults cease at some time.

## Proofs

The proofs hold for every value of the constants that the named assumption of the
module allows: any set of intents, plans, processes, files or candidates, and any
bound, the bounds on faults included. The assumptions ask no more than that
numbers are numbers, that timeouts and page sizes are not zero, and that the
names for "none" are not among the values. Where a theorem states a property of
a run, `PROJECT.json` says which.

All invariants have the same form. `IInv` holds at first, every step keeps it, and
the properties follow from it. TLC checked each `IInv` on the instance of the run
before it was proved.

**`ActionJournalProofs`** (`JournalConstants`). `JournalReopens`: no appends, failed
appends, crashes and interrupted recoveries leave a file that replay or the
capacity check refuses. `ProcessMatchesFile`: while appends are accepted, the maps
are the replay of the file. `NeverStarved`: an admitted plan has room for its next
record, of whatever size. `FileMovesForward`: terminal states, attempts and digests
are not taken back. `MirrorReads`: the Core's mirror verifies every such file and
reads the same states from it.
What a file means is a fold over it, so the model carries the history variable
`after`, the maps after each frame. `IInv` says that each entry of `after` follows
from the one before it and accepts the frame between (`HistoryOK`), that a replay
under way is at one of these entries (`RecoveryOK`), that the room for all owed
frames is there in the *file* (`CapacityOK`), and that what the maps say of a plan
is coherent (`PlansOK`). `CapacityOK` is the heart: the owed frames are a set whose
cardinality is the budget, `BudgetSplit` and `BudgetChange` say how it changes
with one plan, `TransitionCapacity` and `ReservationCapacity` that each append pays
for itself. For `MirrorReads`, `Mirrors` relates the Core's dictionaries to the
maps of Go, and `RecordVerifies` and `RecordMirrored` show that a record Go accepts
is verified and keeps the relation.

**`ActuatorInvariant`**, **`ActuatorSteps`**, **`ActuatorProofs`**
(`ActuatorConstants`). `DenyAccounted`: no deny is in force that the file does not
account for. `AtMostOnce`: the batch of a plan is sent once at most, over any number
of restarts. `Guarded`: the kernel is changed only with the attempt durable and no
reason for the kill switch. `WithinLimits`: the limits per container and host hold
in the kernel. `WithinWindow`, where the host is not suspended and the constants leave
room (`WindowFits`: the socket's 10 s and twice `Stall` within the 15 s of an apply, so
`Stall` up to 2.5 s): no element of a plan outside `late` outlives the window that
recovery grants its attempt, and a recovery that is itself prompt finds it within the
bound it checks. Without promptness neither holds, since no check of the code covers
the two gaps. `GoneAtAudit`, where the host is not suspended: an element is gone when
its audit is due, prompt or not. `OneInFlight`,
`SwitchSticks`: one plan at a time between attempt and verdict; an acknowledged
kill switch stays. `Refinement`: the daemon implements `Containment`; each step is
a step of it or changes nothing of it. `SingleInFlight`, `KillSwitchSticks` and
`AuditAfterExpiry` are not in a run of their own, since the theorem says more.
`IInv` ties each position of the daemon to what file, maps and kernel may then hold:
`ControlOK`, `TodoOK`, `StageOK` for the operation under way, `RecordsOK`, `FlightOK`
for the file, `KernelOK` for the elements. The limits are checked against the file
when an operation begins and matter when its batch reaches the kernel: `RoomOK`
says that until then there is room among the elements themselves. `SeenOK` says that a
readback bounds what is left of the element it found. The window needs `WindowOK`: at
each position of an apply, what is left of the window covers what is left of the
socket's deadline, of `Stall` and of the timeout, with one `Stall` in reserve for the
recovery. `AuditOK` relates an element to the audit deadline from the moment it is
computed.

**`DurableJournalProofs`** (`JournalConstants` of `DurableJournal`). `OneWriter`: one
process works on the journal, on the file that the path names. `AckedKept`: what was
reported durable is found again. `PagesExact`: pages against one pinned head fit
together. `NoCorruption`: no file left behind is one that recovery calls corrupt.
`IndexExact`: the index of a journal that can be written is its file.
A file alone does not say which of its frames are chained, so `IInv` has `Sound`:
every frame commits to all before it, only the last may be torn. `LockOK` says who
holds the lock on what, `Knows` what a process knows of its file at each position,
`ReaderOK` that the pages so far are a prefix of what the head commits to.
`AckedSurvives` quantifies over every file the path may name after a power loss, so
that it carries over a rename that was not synced.

**`DecisionProofs`** (`DecisionConstants`), whether or not the coverage hashes agree.
`Reopens`: the decision journal is accepted at every start. `OnlyDecided`: the
actuator holds only what is a durable manual decision, under its digest. `Receipts`:
a receipt stands for a plan that exists. `Current`: a candidate is decided only
while it stands and its evidence is fresh at the commit. The checks lie before
awaits and the commit after them; `CandidateOK` and `DeliveryOK` carry what was
checked to where it is used, and `KnowsAll` says that the process has seen every
record of its file.

**`RetentionInvariant`**, **`RetentionProofs`** (`RetentionAssumption`,
`SelectionAssumption`). `Tombstoned`: what is removed is routine evidence that a
tombstone in the evidence names. `Confirmed`: nothing is removed ahead of the ACK
journal. `NothingHalfDone`: without a state file no removal is half done.
`FencedOnlyStranded`: a start fences the root only over a request whose control
event an ordinary poll took. `CarriedOut`: a state file is cleared only once the
event of its request is in the evidence and its run is off the disk. `IInv` says how far the request on disk, its event in the
evidence, the payloads and the ACK journal may be apart: `FileOK` by the phase of
the state file, whichever of the old and the new file a crash left, `PlaceOK` by
the position of the process. Three facts about the selector (`LeastExists`,
`SizeIsLocal`, `DecisionsFit`) are stated apart and proved in `OperatorsHold`.

Some lemmas need an induction over numbers or over the frames of a file. The
induction theorems of the library take an operator as a parameter, which the
provers cannot instantiate. These modules use a set in its place: `Least` takes
the least number of a non-empty set from the well-foundedness of `<`, and
`Induction` says that a set with 0 that is closed under successor has every
number. The existence of a recursive function is proved the same way.

### Only model-checked

* All liveness, which this proof system does not reach: `AttemptIsSettled`,
  `RepairCompletesWithoutGaps`, `ConvergesUndisturbed`, `RetentionSettles`,
  `ManualIsSettled`, `StandingIsDecided`.
* `FeedbackIsHistory`: that a rolled-back extension leaves the mirror as it was is
  an induction over the undo list, not attempted here.
* Safety of the observer (`NoCoverageConflict`, `ReducersAgree`, `StaleIsSignalled`,
  `GapsAreExact`, `NoEvidenceLost`, `CrashNeverFences`, `BoundaryFirst`), of evidence
  and delivery (`AcceptedSurvives`, `CutIsExplained`, `ProofBeforeAck`,
  `AckAlwaysRecovers`) and of the projection (`ImageExact`,
  `RetirementKeepsDecisions`): no inductive invariant has been worked out. Their
  states hold folds over whole logs, so each would need a lemma by induction for
  every fold besides.

## What is abstracted

* Signatures, hashes and encodings: a record verifies if the program wrote it.
  Files changed by anyone else are outside all models.
* A sync that succeeds makes the whole file durable; a sync that fails may or may
  not have.
* Time is ticks. The wall clock may be set in `Decision` and step back in
  `Retention`; `StandingIsDecided` claims nothing while `Decision`'s is unhealthy. The
  actuator's rate window, which depends on it, is not modelled. The boot clock does
  not run backwards.
* Docker's containers are one version number in `ObserverCoverage`; the identity
  checks of a lookup and of `Prepare` are single decisions.
* In `ObserverSpool`, a storage failure in the middle of an acknowledgement that
  the Core then passes over, followed by a crash, can leave a journal that
  `reconcileAckAnchor` refuses. A nearly full spool may likewise be refused after a
  crash in an acknowledgement; `CrashNeverFences` exempts that case by name.
* The observer's end of retention, repair and correlation is one step:
  `PublishCoreControl` and `PublishPCCCorrelationSnapshot` answer from the receipt of an
  earlier request, and append one event otherwise. A correlation receipt is rebound
  only to a snapshot that is not acknowledged; in `CoreDelivery` the barrier in front
  of a POST keeps every ACK below the trigger, so that refusal is not reached.
* The policy, and the matching of flows with DNS answers, are inputs: any answer.

## Not modelled

`PROJECT.json` lists these under `components`, with the parts that are modelled only
in part.

* Pure checks and encodings without state: envelope verification, contracts and
  canonical JSON, `proof` and `replay` over archives.
* Operating system interfaces and request handling: the Unix socket server, the
  sockets of both daemons, `/proc` reads, the nftables encoding of a plan.
* Side paths that containment does not read: the hunter, incident reports, the
  administration tools, the earlier application under `app/`.
* Of parts that are modelled: key rotation and migration of older state files, the
  receipt files of the observer, boot transitions and Falco leases in the coverage
  reducers, the single checks of `Prepare`, the on-disk duplicate index.
* The Falco adapter's bounded queue.

## Running

In this directory, for each entry of `runs` in `PROJECT.json`:

    tlc -workers 2 -config <cfg> <module>

and for the proofs:

    for m in ActionJournalProofs ActuatorInvariant ActuatorSteps ActuatorProofs \
             DurableJournalProofs DecisionProofs RetentionInvariant RetentionProofs
    do tlapm $m.tla; done

A run takes up to five minutes, a proof module up to ten. Steps that are purely
logical name `Zenon`, which is faster on them than the default.
