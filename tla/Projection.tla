----------------------------- MODULE Projection -----------------------------
(***************************************************************************)
(* Core's projection database over its life (evidence/projection.py,        *)
(* projection_v2.py): opening it, applying confirmed evidence to it,        *)
(* rebuilding it, and the process exits and power losses in between.        *)
(*                                                                         *)
(* The evidence is log, acked by the observer up to acked; the records of   *)
(* gone are retired, and retire is the retention request in progress.  dir  *)
(* is the directory as the process sees it, and dirs holds what a power     *)
(* loss can leave of it: every arrangement since the last fsync.  store is  *)
(* the process: where it is, how it makes a new image, the image in the     *)
(* making and the generation of its correlation authority.                  *)
(***************************************************************************)
EXTENDS ProjectionPublication

CONSTANTS
  Keys,          \* identities of Falco events
  Box(_),        \* the container of each
  Direct(_),     \* whether it can only lead to an investigation
  Targets,       \* duplicate keys of candidates
  Gaps,          \* kinds of coverage records that open an interval
  MaxSeq,        \* bound on the log
  MaxFaults,     \* bound on I/O errors and power losses
  MaxOrders,     \* bound on rebuilds and stops that are asked for
  MaxDisturbed,  \* bound on the log when any of these or a retirement begins
  Legacy         \* whether a database of the first schema may be found

ASSUME ProjectionAssumption ==
  /\ {MaxSeq, MaxFaults, MaxOrders, MaxDisturbed} \subseteq Nat
  /\ Legacy \in BOOLEAN

VARIABLES log, acked, gone, retire, dir, dirs, store, authority, used

evidence == <<log, acked, gone, retire>>
files == <<dir, dirs>>
vars == <<log, acked, gone, retire, dir, dirs, store, authority, used>>

NoRetirement == [phase |-> "none", lo |-> 1, hi |-> 0, told |-> 0]
Stopped == [pc |-> "down", mode |-> "none", stage |-> EmptyImage, gen |-> 0]
NoAuthority == [gen |-> 0, cursor |-> 0, open |-> FALSE]

At(pc) == store.pc = pc
Goto(pc) == store' = [store EXCEPT !.pc = pc]
Cursor == dir.main.rows.cursor
Pending == retire.phase # "none"

\* The confirmed records that are still to be applied.
Following == {i \in Live(gone, acked) : i > Cursor}

\* Directory changes before and with an fsync of the directory.
Change(new) == dir' = new /\ dirs' = dirs \cup {new}
Sync(new) == dir' = new /\ dirs' = {new}

Order ==
  /\ used.orders < MaxOrders /\ Len(log) <= MaxDisturbed
  /\ used' = [used EXCEPT !.orders = @ + 1]
Spend ==
  /\ used.faults < MaxFaults /\ Len(log) <= MaxDisturbed
  /\ used' = [used EXCEPT !.faults = @ + 1]

Init ==
  /\ log = <<>> /\ acked = 0 /\ gone = {} /\ retire = NoRetirement
  /\ dir \in {EmptyDirectory} \cup
       IF Legacy THEN {[EmptyDirectory EXCEPT !.main = V1File]} ELSE {}
  /\ dirs = {dir}
  /\ store = Stopped /\ authority = NoAuthority
  /\ used = [faults |-> 0, orders |-> 0]

-----------------------------------------------------------------------------
(* The evidence: accepted and acknowledged by the process's own polls. *)

Falco(key) == [kind |-> "falco", key |-> key, box |-> Box(key), direct |-> Direct(key)]
Snapshot(trigger, target, outcome) ==
  [kind |-> "pcc", trigger |-> trigger, target |-> target, outcome |-> outcome]

\* Past the bound on disturbances the log grows by what candidates are made
\* of only.
Settled == IF Len(log) <= MaxDisturbed THEN {} ELSE {"failed", "investigation"}
FalcoEvents == {Falco(key) : key \in {k \in Keys : Settled = {} \/ ~Direct(k)}}

\* Correlation asks for one snapshot per trigger, in order.
Answered == {log[i].trigger : i \in {j \in DOMAIN log : IsSnapshot(log[j])}}
Triggers == {i \in DOMAIN log \ gone :
               /\ IsFalco(log[i]) /\ ~log[i].direct
               /\ \A t \in Answered : t < i}
Snapshots ==
  IF Triggers = {} THEN {}
  ELSE {Snapshot(Min(Triggers), target, outcome) :
          target \in Targets, outcome \in {"candidate", "failed", "investigation"} \ Settled}

\* What the observer signs: coverage records that continue the ones before, or
\* repeat the last.  An interval may have begun just before its record.
CoverageSoFar == {i \in DOMAIN log : IsCoverage(log[i])}
CoverageRecords ==
  LET n == Len(log) + 1
      path == PathBefore(log, gone, n)
      Since == {at \in {n - 1, n} : at > 0 /\ (Settled = {} \/ at < n)}
      Gen(kind) == IF kind = "docker_reconcile_gap" THEN Cardinality(path.announced) + 1 ELSE 0
      fresh ==
        {[CoverageRecord(kind, n) EXCEPT !.openedAt = at, !.gen = Gen(kind)] :
           kind \in Gaps, at \in Since}
        \cup {[CoverageRecord("docker_reconcile_recovered", n) EXCEPT
                 !.openedAt = o.openedAt, !.closedAt = n, !.gen = o.gen] : o \in path.opens}
        \cup {[CoverageRecord("critical_close", n) EXCEPT !.openedAt = at, !.closedAt = n] :
                at \in path.active}
  IN  {r \in fresh : PathStep(path, r).healthy}
        \cup IF CoverageSoFar = {} THEN {} ELSE {[log[Max(CoverageSoFar)] EXCEPT !.seq = n]}

\* A poll catches up, and has the last acknowledgement settled, before it
\* accepts the next page, of one record here.
Accept ==
  /\ At("open") /\ Len(log) < MaxSeq
  /\ acked = Len(log) /\ Following = {}
  /\ \E record \in FalcoEvents \cup Snapshots \cup CoverageRecords : log' = Append(log, record)
  /\ UNCHANGED <<acked, gone, retire, files, store, authority, used>>

\* A poll confirms what it accepted; recovery confirms what a poll left open.
Confirm ==
  /\ At("open") \/ At("recover")
  /\ acked < Len(log)
  /\ acked' = Len(log)
  /\ UNCHANGED <<log, gone, retire, files, store, authority, used>>

-----------------------------------------------------------------------------
(* The correlation authority of a projection (correlation/authority.py).    *)

Issue(gen, cursor) == authority' = [gen |-> gen, cursor |-> cursor, open |-> TRUE]

\* _advance_correlation_projection_authority: forward, within a generation.
Advance(cursor) ==
  /\ authority.open /\ cursor > authority.cursor
  /\ authority' = [authority EXCEPT !.cursor = cursor]

\* _rebuild_correlation_projection_authority: the same one, a generation on.
Renew(cursor) ==
  /\ authority.open
  /\ authority' = [authority EXCEPT !.gen = @ + 1, !.cursor = cursor]

\* A rebuild replaces it by one prepared for the generation it reserved, for
\* the new image if the rebuild succeeds and for the old one if it fails.
Replace(gen, cursor) ==
  /\ authority.open /\ gen = authority.gen + 1
  /\ Issue(gen, cursor)

-----------------------------------------------------------------------------
(* ProjectionStore.open. *)

\* The evidence store recovers first, and with it a removal that had begun.
Start ==
  /\ At("down")
  /\ store' = [Stopped EXCEPT !.pc = "recover"]
  /\ retire' = IF retire.phase = "removed" THEN NoRetirement ELSE retire
  /\ UNCHANGED <<log, acked, gone, files, authority, used>>

RecoverPublication ==
  /\ At("recover")
  /\ Sync(Recovered(dir))
  /\ Goto("classify")
  /\ UNCHANGED <<evidence, authority, used>>

\* _open_owner: no retention request is pending, and every row of the stored
\* prefix is what the evidence says.
OwnerAccepts(rows) ==
  /\ ~Pending
  /\ rows.cursor <= acked
  /\ PrefixValid(log, gone, rows)

Classify ==
  /\ At("classify")
  /\ \/ /\ ImageState(dir) = "v2" /\ OwnerAccepts(dir.main.rows)
        /\ Sync(Opened(dir)) /\ Goto("open")
        /\ Issue(store.gen, Cursor)
     \/ /\ ImageState(dir) \in {"new", "v1"} /\ ~Pending
        /\ store' = [store EXCEPT !.pc = "freeze", !.mode = ImageState(dir)]
        /\ Issue(store.gen, 0)
        /\ UNCHANGED files
     \/ /\ \/ ImageState(dir) = "unknown"
           \/ ImageState(dir) = "v2" /\ ~OwnerAccepts(dir.main.rows)
           \/ Pending
        /\ Goto("refused")
        /\ UNCHANGED <<files, authority>>
  /\ UNCHANGED <<evidence, used>>

\* A projection holds nothing that the evidence does not: what Core refuses
\* to open is deleted by hand.
RemoveDatabase ==
  /\ At("refused")
  /\ Sync(EmptyDirectory)
  /\ store' = Stopped
  /\ UNCHANGED <<evidence, authority, used>>

-----------------------------------------------------------------------------
(* Publishing an image. *)

\* The process ends in order: the connection is closed and its sidecars go.
Exit(new) ==
  /\ Sync(CleanlyClosed(new))
  /\ store' = Stopped /\ authority' = NoAuthority

Rebuilding == store.mode \in {"rebuild", "retention"}


\* _validate_v2_rebuild_cursor_evidence: the cursor of the image that is to be
\* replaced after a retirement is among the records just retired.
CursorRetired == Cursor \in retire.lo..retire.hi

\* _stage_replay_prefix freezes the evidence, the acknowledgements and the
\* authority, up to what the ACK journal confirms.
Freeze ==
  /\ At("freeze")
  /\ IF store.mode = "retention" /\ ~CursorRetired
     THEN Exit(dir)
     ELSE Goto("compute") /\ UNCHANGED <<files, authority>>
  /\ UNCHANGED <<evidence, used>>

\* It replays them into an image in memory, and finds them unchanged.
Compute ==
  /\ At("compute")
  /\ store' = [store EXCEPT !.pc = IF Rebuilding THEN "guard" ELSE "create",
                            !.stage = ReplayImage(log, gone, acked)]
  /\ UNCHANGED <<evidence, files, authority, used>>

\* _bind_staged_v2_rebuild_namespace: from here a rebuild that fails goes back
\* to the old image under the next generation.
Guard ==
  /\ At("guard")
  /\ Goto("create")
  /\ UNCHANGED <<evidence, files, authority, used>>

CreateTemp ==
  /\ At("create")
  /\ Change(WithTemp(dir)) /\ Goto("copy")
  /\ UNCHANGED <<evidence, authority, used>>

Copy ==
  /\ At("copy")
  /\ Change(Copied(dir, store.stage)) /\ Goto("prepare")
  /\ UNCHANGED <<evidence, authority, used>>

\* Checkpoint and close the copy, sync it, remove its empty sidecars, and
\* sync the directory.
Prepare ==
  /\ At("prepare")
  /\ Sync(Prepared(dir))
  /\ Goto(IF Rebuilding THEN "suspend" ELSE "arm")
  /\ UNCHANGED <<evidence, authority, used>>

\* The old connection is checkpointed and closed before its file is replaced.
Suspend ==
  /\ At("suspend")
  /\ Change(CleanlyClosed(dir)) /\ Goto("arm")
  /\ UNCHANGED <<evidence, authority, used>>

\* From here on a failure is not taken back.
Arm ==
  /\ At("arm")
  /\ Goto("switch")
  /\ UNCHANGED <<evidence, files, authority, used>>

Switch ==
  /\ At("switch")
  /\ IF store.mode = "new"
     THEN Change(Linked(dir)) /\ Goto("unlink")
     ELSE Change(Replaced(dir)) /\ Goto("sync")
  /\ UNCHANGED <<evidence, authority, used>>

UnlinkTemp ==
  /\ At("unlink")
  /\ Change(Unlinked(dir)) /\ Goto("sync")
  /\ UNCHANGED <<evidence, authority, used>>

SyncParent ==
  /\ At("sync")
  /\ Sync(dir) /\ Goto("reopen")
  /\ UNCHANGED <<evidence, authority, used>>

\* _commit_staged_replay: a first image becomes the owner's, and its authority
\* moves to the generation of the replay.
CommitReplay ==
  /\ At("reopen") /\ ~Rebuilding
  /\ Sync(Opened(dir))
  /\ store' = [Stopped EXCEPT !.pc = "open", !.gen = store.gen + 1]
  /\ Renew(Cursor)
  /\ UNCHANGED <<evidence, used>>

\* _publish_staged_v2_rebuild: the rebuilt one does, under a fresh authority,
\* and a retirement is complete.
CommitRebuild ==
  /\ At("reopen") /\ Rebuilding
  /\ Sync(Opened(dir))
  /\ store' = [Stopped EXCEPT !.pc = "open", !.gen = store.gen + 1]
  /\ Replace(store.gen + 1, Cursor)
  /\ retire' = IF store.mode = "retention" THEN NoRetirement ELSE retire
  /\ UNCHANGED <<log, acked, gone, used>>

-----------------------------------------------------------------------------
(* A running projection. *)

Applied == [dir EXCEPT !.main = V2File(ApplyRecord(log, gone, dir.main.rows, Min(Following)))]

\* One transaction, and the authority advances with it.
Apply ==
  /\ At("open") /\ Following # {} /\ ~Pending
  /\ Sync(Applied)
  /\ Advance(Min(Following))
  /\ UNCHANGED <<evidence, store, used>>

\* The acceptance cursor is withheld while a retention request is pending:
\* catching up fails, and the controller gives the projection up for good.
ApplyWhilePending ==
  /\ At("open") /\ Following # {} /\ Pending
  /\ Exit(dir)
  /\ UNCHANGED <<evidence, used>>

\* A failed transaction was rolled back, or its COMMIT may have completed.
ApplyFails ==
  /\ At("open") /\ Following # {} /\ ~Pending
  /\ Spend
  /\ \E new \in {dir, Applied} : Exit(new)
  /\ UNCHANGED evidence

Close ==
  /\ At("open")
  /\ Order
  /\ Exit(dir)
  /\ UNCHANGED evidence

\* rebuild: an operator's tool asks for the image to be made again.
Rebuild ==
  /\ At("open") /\ ~Pending /\ acked > 0
  /\ Order
  /\ store' = [store EXCEPT !.pc = "freeze", !.mode = "rebuild"]
  /\ UNCHANGED <<evidence, files, authority>>

Staging == store.pc \in {"freeze", "compute", "guard"}
BeforeArm == store.pc \in {"create", "copy", "prepare", "suspend", "arm"}
AfterArm == store.pc \in {"switch", "unlink", "sync", "reopen"}

\* A first publication that fails before it is armed is abandoned.
PublicationFails ==
  /\ (Staging \/ BeforeArm) /\ ~Rebuilding
  /\ Spend
  /\ \E new \in PrearmOutcomes(dir) : Exit(new)
  /\ UNCHANGED evidence

\* A rebuild that fails before it is guarded leaves everything as it was.
StageFails ==
  /\ Staging /\ Rebuilding
  /\ Spend
  /\ store' = [Stopped EXCEPT !.pc = "failed", !.gen = store.gen]
  /\ UNCHANGED <<evidence, files, authority>>

\* One that fails later goes back to the exact old image ...
Rebase ==
  /\ BeforeArm /\ Rebuilding
  /\ Spend
  /\ Sync(Opened(WithoutTemp(dir)))
  /\ store' = [Stopped EXCEPT !.pc = "failed", !.gen = store.gen + 1]
  /\ Replace(store.gen + 1, Cursor)
  /\ UNCHANGED evidence

\* ... unless that fails too, or the temporary file cannot be removed.
RebaseFails ==
  /\ BeforeArm /\ Rebuilding
  /\ Spend
  /\ \E new \in PrearmOutcomes(dir) : Exit(new)
  /\ UNCHANGED evidence

\* Whoever asked for the rebuild ends on its error.
GiveUp ==
  /\ At("failed")
  /\ Exit(dir)
  /\ UNCHANGED <<evidence, used>>

ArmedFails ==
  /\ AfterArm
  /\ Spend
  /\ Exit(dir)
  /\ UNCHANGED evidence

\* The power goes, or the process is killed.
PowerLoss ==
  /\ store.pc \notin {"down", "refused"}
  /\ Spend
  /\ \E left \in dirs : dir' = left /\ dirs' = {left}
  /\ store' = Stopped /\ authority' = NoAuthority
  /\ UNCHANGED evidence

-----------------------------------------------------------------------------
(* Retention as far as the projection takes part in it. *)

Routine(i) == i \notin gone /\ IsFalco(log[i])

\* A run of routine records is chosen once the projection has caught up.
RequestRetention ==
  /\ At("open") /\ ~Pending /\ Following = {} /\ Len(log) <= MaxDisturbed
  /\ \E lo \in 1..acked : \E hi \in lo..acked :
       /\ \A i \in lo..hi : Routine(i)
       /\ retire' = [NoRetirement EXCEPT !.phase = "requested", !.lo = lo, !.hi = hi]
  /\ UNCHANGED <<log, acked, gone, files, store, authority, used>>

\* The observer's tombstone is accepted within the same pass of retention or
\* a later one.
DeliverTombstone ==
  /\ At("open") /\ retire.phase = "requested" /\ retire.told = 0 /\ acked >= retire.hi
  /\ log' = Append(log, [kind |-> "tombstone"])
  /\ retire' = [retire EXCEPT !.told = Len(log) + 1]
  /\ UNCHANGED <<acked, gone, files, store, authority, used>>

\* Once a record after the run is confirmed, the payloads go.
RemovePayloads ==
  /\ At("open") /\ retire.phase = "requested" /\ retire.told # 0 /\ acked > retire.hi
  /\ gone' = gone \cup (retire.lo..retire.hi)
  /\ retire' = [retire EXCEPT !.phase = "removed"]
  /\ Goto("retired")
  /\ UNCHANGED <<log, acked, files, authority, used>>

RebuildAfterRetention ==
  /\ At("retired")
  /\ store' = [store EXCEPT !.pc = "freeze", !.mode = "retention"]
  /\ UNCHANGED <<evidence, files, authority, used>>

-----------------------------------------------------------------------------
Publish == \/ Freeze \/ Compute \/ Guard \/ CreateTemp \/ Copy \/ Prepare \/ Suspend
           \/ Arm \/ Switch \/ UnlinkTemp \/ SyncParent \/ CommitReplay \/ CommitRebuild
Open == Start \/ RecoverPublication \/ Classify
Retain == RequestRetention \/ DeliverTombstone \/ RemovePayloads \/ RebuildAfterRetention
Fail == \/ ApplyFails \/ PublicationFails \/ StageFails \/ Rebase \/ RebaseFails \/ ArmedFails \/ PowerLoss

Next == \/ Accept \/ Confirm \/ Open \/ RemoveDatabase \/ Publish
        \/ Apply \/ ApplyWhilePending \/ Close \/ Rebuild \/ GiveUp \/ Retain \/ Fail

\* A supervisor restarts the process, its loop catches up, and an operator
\* removes what it refuses to open.  No two of these are possible at once.
Progress == Open \/ Publish \/ Apply \/ GiveUp \/ RebuildAfterRetention \/ RemoveDatabase
Fairness == WF_vars(Progress)

Spec == Init /\ [][Next]_vars /\ Fairness

-----------------------------------------------------------------------------
(* Properties. *)

\* No record of the image was retired since.
UpToDate(rows) == DOMAIN rows.primary \cap gone = {}

\* Whatever a power loss leaves under the database's name is a whole image,
\* and its rows, applied one at a time or replayed, are those the replay of
\* the evidence up to its cursor has.
ImageExact ==
  \A left \in dirs :
    /\ left.main.kind # "partial"
    /\ left.main.kind = "v2" /\ UpToDate(left.main.rows) =>
         left.main.rows = ReplayImage(log, gone, left.main.rows.cursor)

\* The image is refused only if the process died with the database open, a
\* retention request is pending, or records were retired under it: no image
\* of Core's own making fails the closure it is opened with.
RefusedForCause ==
  At("refused") => dir.wal \/ Pending \/ ~UpToDate(dir.main.rows)

\* The intervals the evidence up to a position reports, each with the end
\* that its close gives it, if there is one.
Intervals(through) ==
  LET reported == {log[i] : i \in {j \in CoverageSoFar : j <= through}}
      opening == {r \in reported : r.kind \in {"docker_reconcile_gap", "observer_spool_drop"}}
      ends(r) == {c.closedAt : c \in {d \in reported : d.closedAt # 0 /\ d.openedAt = r.openedAt
                    /\ (d.kind = "critical_close") = (r.kind = "observer_spool_drop")
                    /\ d.gen = r.gen}}
  IN  {[from |-> r.openedAt, until |-> IF ends(r) = {} THEN 0 ELSE Min(ends(r))] : r \in opening}
      \cup {[from |-> r.openedAt, until |-> r.openedAt] :
               r \in {q \in reported : q.kind = "falco_adapter_stop"}}

\* A candidate that stands was observed throughout: none of the intervals the
\* evidence reports, before its snapshot or after, reaches into its window.
StandingWasObserved ==
  At("open") =>
    \A c \in dir.main.rows.candidates :
      (~\E r \in dir.main.rows.invalid : r.candidate = c.snapshot) =>
        \A i \in Intervals(Cursor) : ~Intersects(i.from, i.until, Window(c.trigger, c.snapshot))

\* Retiring routine evidence changes nothing that was decided: candidates,
\* their invalidations and what snapshots led to are those of all evidence.
RetirementKeepsDecisions ==
  At("open") /\ gone # {} =>
    LET rows == dir.main.rows
        all == ReplayImage(log, {}, Cursor)
        Proved(incidents) == {i \in incidents : IsSnapshot(log[i.authority])}
    IN  /\ rows.candidates = all.candidates /\ rows.support = all.support
        /\ rows.invalid = all.invalid /\ Proved(rows.incidents) = Proved(all.incidents)

\* A usable projection's authority is of its generation and at its cursor,
\* after a rebuild that failed as well, and never past what is confirmed.
AuthorityMatches ==
  store.pc \in {"open", "failed"} =>
    /\ authority = [gen |-> store.gen, cursor |-> Cursor, open |-> TRUE]
    /\ Cursor <= acked /\ dir.wal

\* What the ACK journal confirms is projected sooner or later, across errors
\* and power losses, unless a retention request was left pending.
ConfirmedIsProjected ==
  []<>((At("open") /\ Following = {}) \/ retire.phase = "requested")

\* After evidence was retired the projection opens again: the record was only
\* removed once its reconstruction had been proved.
RetiredIsRebuilt == At("refused") => gone = {}

\* After a crash the projection opens again, with no help, and replays.
CrashReopens == At("refused") => Pending \/ gone # {}

=============================================================================
