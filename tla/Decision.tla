------------------------------ MODULE Decision ------------------------------
(***************************************************************************)
(* From a projected candidate to a prepared plan: the tick of CoreRuntime   *)
(* (core/agmind_immune/runtime.py), the single-use admission of             *)
(* CoreController, the policy call, the decision-intent journal, the        *)
(* delivery of an intent to the actuator with its SQLite receipts, and the  *)
(* mirror of the actuator's journal.                                        *)
(*                                                                          *)
(* The tick is one asyncio task: its steps follow each other in the order   *)
(* of the code, and between two of them only the clock, the actuator and a  *)
(* crash act.  A candidate is a number, in the order of the pages.  The     *)
(* digest of an intent is the time of its commit, the only part of it that  *)
(* a second commit for the candidate could change.                          *)
(***************************************************************************)
EXTENDS Integers, Sequences

CONSTANTS
    NumCandidates,    \* candidates of the projection
    Page,             \* _CANDIDATE_PAGE
    Batch,            \* deliveries retried in one tick
    FreshFor,         \* age at which evidence no longer supports an intent
    LeaseFor,         \* how long the coverage of one poll stays ready
    MaxClock,         \* bound on the wall clock
    MaxCrashes, MaxFaults, \* bounds on crashes, and on failed calls and clock steps
    MaxApprovals,     \* bound on the plans the actuator decides
    HashesAgree       \* whether the readiness hash may equal the candidate's

\* The bounds are numbers, and a page and a batch hold something.
ASSUME DecisionConstants ==
    /\ {Page, Batch} \subseteq Nat \ {0}
    /\ {NumCandidates, FreshFor, LeaseFor, MaxClock, MaxCrashes, MaxFaults, MaxApprovals} \subseteq Nat
    /\ HashesAgree \in BOOLEAN

Candidates == 1..NumCandidates

Journal == INSTANCE ActuatorRecords WITH Intents <- Candidates, Digests <- 0..MaxClock

VARIABLES
    now, lease,       \* the wall clock, and the last time at which coverage is ready
    projected,        \* the candidates of the projection: status and creation time
    alog,             \* the actuator's journal
    decided,          \* decision-intents.agf: the records and whether the last is torn
    db,               \* the delivery database: phase, read_only and the outcomes
    file,             \* the mirror of the actuator's journal, and whether it is torn
    pc,               \* the step of the tick
    mem,              \* what CoreRuntime remembers between ticks
    work,             \* the locals of the tick
    feedback,         \* the mirror's flags and projection
    budget            \* crashes and faults left

core == <<pc, mem, work, feedback>>
world == <<now, lease, projected>>
vars == <<world, alog, decided, db, file, core, budget>>

BlankMem == [commits |-> {}, prepared |-> {}, quarantined |-> {}, queue |-> <<>>,
             after |-> 0, known |-> 0, healthy |-> TRUE, readOnly |-> FALSE, drift |-> 0]
BlankWork == [page |-> <<>>, cur |-> 0, back |-> "none", left |-> 0,
              effect |-> "none", at |-> 0, answer |-> "none"]
BlankFeedback == [ready |-> FALSE, latched |-> FALSE, projection |-> Journal!EmptyProjection]

Init ==
    /\ now = 0 /\ lease = -1
    /\ projected = [c \in Candidates |-> [status |-> "absent", created |-> 0]]
    /\ alog = <<>>
    /\ decided = [records |-> <<>>, torn |-> FALSE]
    /\ db = [phase |-> "absent", readOnly |-> FALSE, outcome |-> [c \in Candidates |-> "none"]]
    /\ file = [records |-> <<>>, torn |-> FALSE]
    /\ pc = "down" /\ mem = BlankMem /\ work = BlankWork /\ feedback = BlankFeedback
    /\ budget = [crashes |-> MaxCrashes, faults |-> MaxFaults]

At(label) == pc = label
Goto(label) == pc' = label
Fault == budget.faults > 0 /\ budget' = [budget EXCEPT !.faults = @ - 1]

\* The process ends, by a crash or by an exception that leaves the tick.
Exit ==
    /\ pc' = "down" /\ mem' = BlankMem /\ work' = BlankWork /\ feedback' = BlankFeedback

\* decision_sample: since the last healthy sample of this process, the wall clock went
\* as far as the monotonic one.  A sample that is not healthy moves no reference, so
\* only a step that undoes the first, or a restart, makes the clock healthy again.
ClockHealthy == mem.drift = 0

\* The lease of mutation_readiness, by the wall clock and by the monotonic one.
LeaseUsable == now <= lease

Ready == ClockHealthy /\ LeaseUsable
RecordOf(c) == decided.records[CHOOSE k \in DOMAIN decided.records : decided.records[k].cand = c]
DecidedSet == {decided.records[k].cand : k \in DOMAIN decided.records}
IsManual(c) == c \in DecidedSet /\ RecordOf(c).effect = "manual"
\* What the open journal holds in memory: the records it read and those it appended.
Known == SubSeq(decided.records, 1, mem.known)
KnownSet == {Known[k].cand : k \in DOMAIN Known}
LastCommitted == IF Known = <<>> THEN 0 ELSE Known[Len(Known)].at

-----------------------------------------------------------------------------
(* The actuator, as Core sees it.                                           *)

Reserve(c, sha) == [type |-> "reserve", intent |-> c, sha |-> sha, state |-> "none"]
Action(c, sha, state) == [type |-> "action", intent |-> c, sha |-> sha, state |-> state]
Has(c, state) == \E k \in DOMAIN alog : alog[k].intent = c /\ alog[k].state = state

\* An administrator or the deadline decides a plan, and the daemon goes on with it.  Only
\* a sync can tell when: the step is taken just before one.
ActuatorDecides ==
    /\ At("sync")
    /\ \E c \in Candidates :
          /\ Has(c, "PREPARED")
          /\ ~Has(c, "APPROVED") /\ Len(SelectSeq(alog, LAMBDA r : r.state = "APPROVED")) < MaxApprovals
          /\ alog' = Append(alog, Action(c, 0, "APPROVED"))
    /\ UNCHANGED <<world, decided, db, file, core, budget>>

-----------------------------------------------------------------------------
(* Starting.                                                                *)

\* DecisionIntentJournal._recover: no candidate twice, and the clock never goes back.
Recoverable(records) ==
    \A j, k \in DOMAIN records :
        j < k => records[j].cand # records[k].cand /\ records[j].at <= records[k].at

\* A torn frame is cut off, and what is left of the mirror verified from its start.
Repaired(f) == [f EXCEPT !.torn = FALSE]
LocalRead == Journal!Verified(Journal!EmptyProjection, file.records)

\* The database is initialised once.  A process starts without any outcome in memory,
\* with the clock as it finds it, and without a lease: replay restores no live receipt.
OpenRuntime ==
    /\ At("down")
    /\ Recoverable(decided.records) /\ db.phase # "partial"
    /\ \E read \in {LocalRead} :
          read.ok /\ feedback' = [BlankFeedback EXCEPT !.projection = read.p]
    /\ decided' = Repaired(decided)
    /\ file' = Repaired(file)
    /\ db' = [db EXCEPT !.phase = "ready"]
    /\ mem' = [BlankMem EXCEPT !.known = Len(decided.records), !.readOnly = db.readOnly]
    /\ lease' = -1
    /\ Goto("refresh")
    /\ UNCHANGED <<now, projected, alog, work, budget>>

\* A crash between the creation of the database file and its metadata: the file then
\* exists and its schema is not the exact one.
InitializeDatabaseCut ==
    /\ At("down") /\ db.phase = "absent"
    /\ budget.crashes > 0 /\ budget' = [budget EXCEPT !.crashes = @ - 1]
    /\ db' = [db EXCEPT !.phase = "partial"]
    /\ UNCHANGED <<world, alog, decided, file, core>>

-----------------------------------------------------------------------------
(* _refresh_commits.                                                        *)

\* Mutation: only the commits of this process are delivered.
UndeliveredNone == <<>>

\* Durable manual decisions this process has neither settled nor queued.
Undelivered ==
    SelectSeq([k \in DOMAIN Known |-> Known[k].cand],
              LAMBDA c : /\ RecordOf(c).effect = "manual"
                         /\ c \notin mem.prepared \cup mem.quarantined
                         /\ ~\E k \in DOMAIN mem.queue : mem.queue[k] = c)

\* A journal whose last append is uncertain raises, and the process ends.
RefreshCommits ==
    /\ At("refresh")
    /\ \/ ~mem.healthy /\ Exit
       \/ /\ mem.healthy
          /\ mem' = [mem EXCEPT !.commits = KnownSet, !.queue = @ \o Undelivered]
          /\ Goto("sync") /\ UNCHANGED <<work, feedback>>
    /\ UNCHANGED <<world, alog, decided, db, file, budget>>

-----------------------------------------------------------------------------
(* _sync_actuator_feedback and ActuatorMirror.sync_once.                    *)

\* The mirror has what the actuator's journal begins with.
MirrorIsPrefix ==
    Len(file.records) <= Len(alog) /\ file.records = SubSeq(alog, 1, Len(file.records))
Unmirrored == SubSeq(alog, Len(file.records) + 1, Len(alog))

RolledBack(p) == [feedback EXCEPT !.projection = Journal!RollbackExtension(p), !.ready = FALSE]

\* A verified extension, written and synced, then committed to the projection; or
\* nothing new.
MirrorExtends(read) ==
    /\ file' = [file EXCEPT !.records = @ \o Unmirrored]
    /\ feedback' = [feedback EXCEPT !.projection = Journal!CommitExtension(read.p), !.ready = TRUE]
    /\ UNCHANGED budget

\* The write fails after some of the frames, the last of them perhaps torn: the
\* mirror is read-only until the next start.
MirrorWriteFails(read) ==
    /\ Unmirrored # <<>> /\ Fault
    /\ \E k \in 0..Len(Unmirrored), torn \in BOOLEAN :
          /\ torn => k < Len(Unmirrored)
          /\ file' = [records |-> file.records \o SubSeq(Unmirrored, 1, k), torn |-> torn]
    /\ feedback' = [RolledBack(read.p) EXCEPT !.latched = TRUE]

\* The actuator stops answering between two pages: what is verified is undone.
MirrorInterrupted ==
    /\ Fault
    /\ \E k \in 0..Len(Unmirrored) :
          \E read \in {Journal!Verified(Journal!BeginExtension(feedback.projection),
                                        SubSeq(Unmirrored, 1, k))} :
             feedback' = RolledBack(read.p)
    /\ UNCHANGED file

\* A prefix that is not the mirror's, or a record that does not verify.
MirrorRefuses(read) ==
    /\ feedback' = [RolledBack(read.p) EXCEPT !.latched = TRUE]
    /\ UNCHANGED <<file, budget>>

\* The loops of a tick end where their work does.
GotoRetry(left) == Goto(IF left = 0 THEN "poll" ELSE "retry")
GotoCandidate(page) == Goto(IF page = <<>> THEN "refresh" ELSE "candidate")

SyncActuatorFeedback ==
    /\ At("sync")
    /\ IF feedback.latched THEN UNCHANGED <<file, feedback, budget>>
       ELSE \/ MirrorInterrupted
            \/ \E read \in {Journal!Verified(Journal!BeginExtension(feedback.projection), Unmirrored)} :
                  IF MirrorIsPrefix /\ read.ok
                  THEN MirrorExtends(read) \/ MirrorWriteFails(read)
                  ELSE MirrorRefuses(read)
    /\ work' = [work EXCEPT !.left = IF Len(mem.queue) < Batch THEN Len(mem.queue) ELSE Batch]
    /\ GotoRetry(work'.left)
    /\ UNCHANGED <<world, alog, decided, db, mem>>

-----------------------------------------------------------------------------
(* _retry_durable_deliveries, _deliver and IntentDeliveryStateMachine.       *)

RetryDeliveries ==
    /\ At("retry")
    /\ work' = [work EXCEPT !.left = @ - 1, !.cur = Head(mem.queue), !.back = "retry"]
    /\ mem' = [mem EXCEPT !.queue = Tail(@)]
    /\ Goto("deliver")
    /\ UNCHANGED <<world, alog, decided, db, file, feedback, budget>>

\* _deliver returns to the loop it was called from; a commit it did not settle goes to
\* the end of the queue.
Return(m) ==
    /\ mem' = m
    /\ work' = [work EXCEPT !.cur = 0, !.back = "none", !.answer = "none"]
    /\ IF work.back = "retry" THEN GotoRetry(work.left) ELSE GotoCandidate(work.page)

Requeue == Return([mem EXCEPT !.queue = Append(@, work.cur)])

Settle(outcome) ==
    Return(IF outcome = "prepared" THEN [mem EXCEPT !.prepared = @ \cup {work.cur}]
           ELSE [mem EXCEPT !.quarantined = @ \cup {work.cur}])

\* Mutation: a denial is delivered too.
DeliverDenied ==
    /\ At("deliver")
    /\ IF ~feedback.ready \/ feedback.latched THEN Requeue /\ UNCHANGED feedback
       ELSE Goto("prepare") /\ UNCHANGED <<mem, work, feedback>>
    /\ UNCHANGED <<world, alog, decided, db, file, budget>>

\* A read-only database raises before it looks for the outcome, and nothing catches it.
Deliver ==
    /\ At("deliver")
    /\ \E c \in {work.cur} :
          IF ~IsManual(c) \/ c \in mem.prepared THEN Return(mem) /\ UNCHANGED feedback
          ELSE IF ~feedback.ready \/ feedback.latched THEN Requeue /\ UNCHANGED feedback
          ELSE IF mem.readOnly THEN Exit
          ELSE IF db.outcome[c] # "none" THEN Settle(db.outcome[c]) /\ UNCHANGED feedback
          ELSE Goto("prepare") /\ UNCHANGED <<mem, work, feedback>>
    /\ UNCHANGED <<world, alog, decided, db, file, budget>>

Answer(a) ==
    /\ work' = [work EXCEPT !.answer = a]
    /\ Goto("persist") /\ UNCHANGED mem

\* How far the actuator gets with an intent: the plan it has, a reservation, or a
\* reservation and a plan.  A reservation for another digest is a conflict.
Admits(c) == \E sha \in {RecordOf(c).at} :
    \A k \in DOMAIN alog : alog[k].intent = c /\ alog[k].type = "reserve" => alog[k].sha = sha
Progress(c) ==
    LET sha == RecordOf(c).at
    IN  IF Has(c, "PREPARED") \/ ~Admits(c) THEN {<<>>}
        ELSE {<<>>, <<Reserve(c, sha)>>, <<Reserve(c, sha), Action(c, sha, "PREPARED")>>}

\* The plan is prepared, or was before and is returned.
PrepareSucceeds(c) ==
    /\ Admits(c)
    /\ \E done \in Progress(c) :
          /\ Has(c, "PREPARED") \/ Len(done) = 2
          /\ alog' = alog \o done
    /\ Answer("prepared") /\ UNCHANGED <<feedback, budget>>

\* intent_conflict, target_stale or intent_rejected: never of a plan that exists.
PrepareRejected(c) ==
    /\ ~Has(c, "PREPARED") \/ ~Admits(c)
    /\ \E done \in Progress(c) : Len(done) < 2 /\ alog' = alog \o done
    /\ Answer("quarantined") /\ UNCHANGED <<feedback, budget>>

\* Mutation: a call that timed out counts as refused.
PrepareUnansweredIsRefusal(c) ==
    /\ Fault
    /\ \E done \in Progress(c) : alog' = alog \o done
    /\ Answer("quarantined") /\ UNCHANGED feedback

\* No usable answer, whatever the actuator did: none in time, or one the client does
\* not accept, which nothing catches.
PrepareUnanswered(c) ==
    /\ Fault
    /\ \E done \in Progress(c) : alog' = alog \o done
    /\ (Requeue /\ UNCHANGED feedback) \/ Exit

Prepare ==
    /\ At("prepare")
    /\ \E c \in {work.cur} : PrepareSucceeds(c) \/ PrepareRejected(c) \/ PrepareUnanswered(c)
    /\ UNCHANGED <<world, decided, db, file>>

\* The outcome is inserted and committed; when that is uncertain the database is made
\* read-only, durably if that write succeeds, and the process ends.
Persist ==
    /\ At("persist")
    /\ \E stored \in {[db EXCEPT !.outcome[work.cur] = work.answer]} :
          \/ db' = stored /\ Settle(work.answer) /\ UNCHANGED <<feedback, budget>>
          \/ /\ Fault
             /\ \E after \in {db, stored}, latch \in BOOLEAN : db' = [after EXCEPT !.readOnly = latch]
             /\ Exit
    /\ UNCHANGED <<world, alog, decided, file>>

-----------------------------------------------------------------------------
(* poll_once and the page of candidates.                                    *)

\* One batch of the observer's evidence, abstracted to what it does to the candidates:
\* it opens one, invalidates one that is still undecided or does neither, and renews the
\* coverage or lets it run out.
PollOnce ==
    /\ At("poll")
    /\ \/ Fault /\ Goto("refresh") /\ UNCHANGED <<lease, projected>>
       \/ /\ \/ UNCHANGED projected
             \/ \E c \in Candidates :
                   /\ projected[c].status = "absent"
                   /\ projected' = [projected EXCEPT ![c] = [status |-> "standing", created |-> now]]
             \/ \E c \in Candidates :
                   /\ projected[c].status = "standing" /\ c \notin DecidedSet
                   /\ projected' = [projected EXCEPT ![c] = [status |-> "invalidated", created |-> 0]]
          /\ lease' \in {lease, now + LeaseFor}
          /\ Goto("page") /\ UNCHANGED budget
    /\ UNCHANGED <<now, alog, decided, db, file, mem, work, feedback>>

Listed == {c \in Candidates : projected[c].status # "absent" /\ c > mem.after}

\* A page in id order: an id that is left out comes after the last of a full page.
CandidatePages ==
    {page \in UNION {[1..n -> Listed] : n \in 0..Page} :
        /\ \A j, k \in DOMAIN page : j < k => page[j] < page[k]
        /\ \A c \in Listed : \/ \E k \in DOMAIN page : page[k] = c
                             \/ Len(page) = Page /\ page[Page] < c}

\* Mutation: the keyset never starts over.
CandidateIdsOnce ==
    /\ At("page")
    /\ \E page \in CandidatePages :
          /\ mem' = [mem EXCEPT !.after = IF page = <<>> THEN @ ELSE page[Len(page)]]
          /\ work' = [work EXCEPT !.page = page]
          /\ GotoCandidate(page)
    /\ UNCHANGED <<world, alog, decided, db, file, feedback, budget>>

\* candidate_ids: the next page in id order, invalidated candidates included.  A short
\* page starts over.
CandidateIds ==
    /\ At("page")
    /\ \E page \in CandidatePages :
          /\ mem' = [mem EXCEPT !.after = IF Len(page) < Page THEN 0 ELSE page[Page]]
          /\ work' = [work EXCEPT !.page = page]
          /\ GotoCandidate(page)
    /\ UNCHANGED <<world, alog, decided, db, file, feedback, budget>>

\* _process_candidate, up to its first await.
ProcessCandidate ==
    /\ At("candidate")
    /\ IF Head(work.page) \in mem.commits
       THEN work' = [work EXCEPT !.page = Tail(@)] /\ GotoCandidate(work'.page)
       ELSE /\ work' = [work EXCEPT !.page = Tail(@), !.cur = Head(work.page)]
            /\ Goto("issue")
    /\ UNCHANGED <<world, alog, decided, db, file, mem, feedback, budget>>

-----------------------------------------------------------------------------
(* The admission, the policy call and the commit.                           *)

Defer ==
    /\ work' = [work EXCEPT !.cur = 0, !.effect = "none", !.at = 0]
    /\ GotoCandidate(work.page)

\* What issuing and reauthenticating a view both demand: an open healthy journal, a
\* candidate that stands, and ready coverage.
Admissible(c) == mem.healthy /\ projected[c].status = "standing" /\ Ready

IssueCandidateAdmission ==
    /\ At("issue")
    /\ IF Admissible(work.cur) /\ HashesAgree THEN Goto("evaluate") /\ UNCHANGED work
       ELSE Defer
    /\ UNCHANGED <<world, alog, decided, db, file, mem, feedback, budget>>

Age(c) == now - projected[c].created

\* The view the policy client captures repeats the comparison of the hashes.
CaptureView == HashesAgree

\* A manual effect is narrowed to evidence that is fresh when the clock is read.
Effects(c) == {"deny"} \cup (IF Age(c) <= FreshFor THEN {"manual"} ELSE {})

\* The clock must be healthy and not before the evidence.
Evaluable(c) == CaptureView /\ ClockHealthy /\ Age(c) >= 0

\* The clock is read, then OPA is awaited.
Evaluate ==
    /\ At("evaluate")
    /\ \/ Fault /\ Defer
       \/ ~Evaluable(work.cur) /\ Defer /\ UNCHANGED budget
       \/ /\ Evaluable(work.cur)
          /\ \E effect \in Effects(work.cur) : work' = [work EXCEPT !.effect = effect, !.at = now]
          /\ Goto("commit") /\ UNCHANGED budget
    /\ UNCHANGED <<world, alog, decided, db, file, mem, feedback>>

\* Mutation: the readiness and the age are those of the evaluation.
CommittableFromView(c) == mem.healthy /\ work.at <= now /\ now >= LastCommitted

\* The view is reauthenticated at a fresh clock reading, and the record must be one a
\* reopened journal accepts.
Committable(c) ==
    /\ Admissible(c)
    /\ work.at <= now
    /\ work.effect = "manual" => Age(c) <= FreshFor
    /\ c \notin KnownSet /\ now >= LastCommitted

Committed(c) == [cand |-> c, effect |-> work.effect, at |-> now]

AppendCommits(c) ==
    /\ decided' = [decided EXCEPT !.records = Append(@, Committed(c))]
    /\ mem' = [mem EXCEPT !.commits = @ \cup {c}, !.known = @ + 1]
    /\ work' = [work EXCEPT !.back = "candidate", !.effect = "none", !.at = 0]
    /\ Goto("deliver") /\ UNCHANGED budget

\* Mutation: an append that failed leaves the journal usable.
AppendUncertainStaysHealthy(c) ==
    /\ Fault
    /\ \/ UNCHANGED decided
       \/ decided' = [decided EXCEPT !.records = Append(@, Committed(c))]
    /\ UNCHANGED mem
    /\ Defer

\* The frame is absent, torn or complete in the file; the journal is unhealthy until it
\* is opened again, and the candidate is deferred.
AppendUncertain(c) ==
    /\ Fault
    /\ \/ UNCHANGED decided
       \/ decided' = [decided EXCEPT !.torn = TRUE]
       \/ decided' = [decided EXCEPT !.records = Append(@, Committed(c))]
    /\ mem' = [mem EXCEPT !.healthy = FALSE]
    /\ Defer

CommitPolicyEvaluation ==
    /\ At("commit")
    /\ IF Committable(work.cur) THEN AppendCommits(work.cur) \/ AppendUncertain(work.cur)
       ELSE Defer /\ UNCHANGED <<decided, mem, budget>>
    /\ UNCHANGED <<world, alog, db, file, feedback>>

-----------------------------------------------------------------------------
(* The world, and the specification.                                        *)

Crash ==
    /\ ~At("down")
    /\ budget.crashes > 0 /\ budget' = [budget EXCEPT !.crashes = @ - 1]
    /\ Exit
    /\ UNCHANGED <<world, alog, decided, db, file>>

\* The steps that read the clock; it moves just before one of them.
ReadsClock == pc \in {"poll", "issue", "evaluate", "commit"}

ClockAdvances ==
    /\ ReadsClock /\ now < MaxClock /\ now' = now + 1
    /\ UNCHANGED <<lease, projected, alog, decided, db, file, core, budget>>

\* The wall clock is set, by more than the second that counts as uncertainty.  A running
\* process has the monotonic clock to compare it with, a new one does not.
ClockIsSet ==
    /\ ReadsClock \/ At("down")
    /\ Fault
    /\ \E d \in {-1, 1} :
          /\ now + d \in 0..MaxClock /\ now' = now + d
          /\ mem' = IF At("down") THEN mem ELSE [mem EXCEPT !.drift = @ + d]
    /\ UNCHANGED <<lease, projected, alog, decided, db, file, pc, work, feedback>>

Core ==
    \/ OpenRuntime \/ RefreshCommits \/ SyncActuatorFeedback \/ RetryDeliveries
    \/ Deliver \/ Prepare \/ Persist \/ PollOnce \/ CandidateIds \/ ProcessCandidate
    \/ IssueCandidateAdmission \/ Evaluate \/ CommitPolicyEvaluation

Next ==
    \/ Core \/ ActuatorDecides \/ InitializeDatabaseCut
    \/ Crash \/ ClockAdvances \/ ClockIsSet

Spec == Init /\ [][Next]_vars

\* The tick is run again for as long as the process lives, and systemd restarts it.
FairSpec == Spec /\ WF_vars(Core)

-----------------------------------------------------------------------------
(* Properties.                                                              *)

\* The journal of decisions can always be opened again: whatever an append that failed
\* left in the file, and however the wall clock moved, no candidate has two decisions
\* and no decision is earlier than the one before it.  A journal that breaks this is
\* refused at every start.
JournalReopens == Recoverable(decided.records)

\* The actuator is given nothing but durable manual decisions, each under the one
\* digest of its record: after a crash, a retry or an uncertain append it never holds
\* an intent that the journal does not.
PlansAreDecided ==
    \A k \in DOMAIN alog :
        /\ IsManual(alog[k].intent)
        /\ alog[k].type = "reserve" \/ alog[k].state = "PREPARED"
              => alog[k].sha = RecordOf(alog[k].intent).at

\* A durable outcome agrees with the actuator: a receipt stands for a plan that exists,
\* and an intent that is quarantined, which is never delivered again, has no plan that
\* an administrator could still approve.  A call that got no answer settles nothing.
ReceiptsMatchPlans ==
    \A c \in Candidates :
        /\ db.outcome[c] = "prepared" => Has(c, "PREPARED")
        /\ db.outcome[c] = "quarantined" => ~Has(c, "PREPARED")

\* The mirror is history: its file is a prefix of the actuator's journal, its
\* projection is exactly what a prefix of the journal says, also after an extension
\* that was interrupted and undone, and the rest of the journal verifies on top of it.
FeedbackIsHistory ==
    /\ MirrorIsPrefix
    /\ feedback.projection =
          Journal!Verified(Journal!EmptyProjection,
                           SubSeq(alog, 1, feedback.projection.previous)).p
    /\ ~feedback.latched /\ ~At("down") =>
          /\ feedback.projection.previous = Len(file.records)
          /\ Journal!Verified(feedback.projection, Unmirrored).ok

\* A manual decision is only made of a candidate that stands, while coverage is ready
\* and the evidence fresh, all at the moment of the commit: the policy call in between
\* may outlast any of them.
CommitsAreCurrent ==
    [][\A c \in DecidedSet' \ DecidedSet :
          /\ projected[c].status = "standing" /\ Ready
          /\ IsManual(c)' => Age(c) \in 0..FreshFor]_vars

\* The database can be used: it is initialised and not read-only, which no restart undoes.
DatabaseUsable == db.phase = "ready" /\ ~db.readOnly

\* A durable manual decision is settled in the end, prepared or quarantined, through
\* crashes, lost answers and restarts, unless the database or the mirror is read-only
\* for good.
ManualIsSettled ==
    []<>(\A c \in Candidates :
            IsManual(c) /\ DatabaseUsable /\ ~feedback.latched => db.outcome[c] # "none")

\* A candidate that Core may decide now.
Decidable(c) ==
    /\ projected[c].status = "standing" /\ Ready /\ Age(c) >= 0
    /\ now >= LastCommitted /\ DatabaseUsable

\* A candidate that stands while coverage is ready and the clock healthy is decided in the
\* end: the pages come round to it, and a commit that was deferred is tried again.  A
\* clock that was set is not healthy again before a restart, and nothing is promised then.
StandingIsDecided ==
    []<>(\A c \in Candidates : Decidable(c) => c \in DecidedSet)
=============================================================================
