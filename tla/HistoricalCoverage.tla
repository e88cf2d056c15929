------------------------- MODULE HistoricalCoverage -------------------------
(***************************************************************************)
(* Core's second coverage reducer (coverage/historical.py).  The one of     *)
(* CoreCoverage keeps the present; this one is run again over the evidence  *)
(* of the past whenever a correlation snapshot is judged, and says whether  *)
(* the window between its trigger and its decision was observed.            *)
(***************************************************************************)
EXTENDS CoreCoverage

NoRecovery == CoverageRecord("none", 0)

\* The state of the reduction between two records.  closedAt is zero in an
\* episode that is not closed.
EmptyPath ==
    [healthy |-> TRUE, opens |-> {}, announced |-> {}, latest |-> NoRecovery,
     gaps |-> {}, ranges |-> {}, active |-> {}, episodes |-> {}]

\* HistoricalCoverageConflict: nothing more can be judged.
PathConflict(path) == [path EXCEPT !.healthy = FALSE]

Episode(kind, openedAt, closedAt, lo, hi) ==
    [kind |-> kind, openedAt |-> openedAt, closedAt |-> closedAt, lo |-> lo, hi |-> hi]

PathDockerOpen(path, record) ==
    LET key == <<record.openedAt, record.gen>>
    IN  IF key \in path.announced THEN PathConflict(path)
        ELSE [path EXCEPT !.opens = @ \cup {record}, !.announced = @ \cup {key}]

\* Mutation: the window is not taken off the list when it is closed.
PathDockerCloseListed(path, record) ==
    [path EXCEPT
       !.latest = record,
       !.episodes = @ \cup {Episode("docker", record.openedAt, record.closedAt, 0, 0)}]

PathDockerClose(path, record) ==
    LET matches == {o \in path.opens : o.openedAt = record.openedAt /\ o.gen = record.gen}
    IN  IF matches = {} \/ record.gen <= path.latest.gen THEN PathConflict(path)
        ELSE [path EXCEPT
                !.opens = @ \ matches,
                !.latest = record,
                !.episodes = @ \cup {Episode("docker", record.openedAt, record.closedAt, 0, 0)}]

PathSequenceOpen(path, record) ==
    IF \E r \in path.ranges : Overlaps(r, record) THEN PathConflict(path)
    ELSE [path EXCEPT
            !.ranges = @ \cup {[lo |-> record.lo, hi |-> record.hi]},
            !.gaps = @ \cup
              {[lo |-> record.lo, hi |-> record.hi, openedAt |-> record.openedAt,
                seq |-> record.seq, baseline |-> path.latest.gen]}]

\* The recovery that proves a gap close is the latest one, and came after
\* the gap was announced.
PathSequenceClose(path, record) ==
    LET matches == {g \in path.gaps :
                      g.lo = record.lo /\ g.hi = record.hi /\ g.openedAt = record.openedAt}
        Proved(g) == /\ g.seq < path.latest.seq /\ path.latest.seq < record.seq
                     /\ path.latest.gen = record.gen /\ path.latest.closedAt = record.closedAt
                     /\ g.baseline # 0 => record.gen > g.baseline
    IN  IF matches = {} \/ \E g \in matches : ~Proved(g) THEN PathConflict(path)
        ELSE [path EXCEPT
                !.gaps = @ \ matches,
                !.episodes = @ \cup
                  {Episode("gap", record.openedAt, record.closedAt, record.lo, record.hi)}]

Closed(path) == {e.openedAt : e \in {f \in path.episodes : f.kind = "critical"}}

\* A critical interval is opened once; a further open only counts more loss.
PathGenericOpen(path, record) ==
    IF record.openedAt \in Closed(path) \ path.active THEN PathConflict(path)
    ELSE [path EXCEPT !.active = @ \cup {record.openedAt}]

\* A close may come without its open, but not a second time.
PathGenericClose(path, record) ==
    IF record.openedAt \in Closed(path) \ path.active THEN PathConflict(path)
    ELSE [path EXCEPT
            !.active = @ \ {record.openedAt},
            !.episodes = @ \cup {Episode("critical", record.openedAt, record.closedAt, 0, 0)}]

\* The adapter's stop is a point in time.
PathStop(path, record) ==
    [path EXCEPT !.episodes = @ \cup {Episode("stop", record.openedAt, record.openedAt, 0, 0)}]

PathStep(path, record) ==
    CASE ~path.healthy -> path
      [] record.kind = "docker_reconcile_gap" -> PathDockerOpen(path, record)
      [] record.kind = "docker_reconcile_recovered" -> PathDockerClose(path, record)
      [] record.kind = "sequence_gap_open" -> PathSequenceOpen(path, record)
      [] record.kind = "sequence_gap_close" -> PathSequenceClose(path, record)
      [] record.kind = "observer_spool_drop" -> PathGenericOpen(path, record)
      [] record.kind = "critical_close" -> PathGenericClose(path, record)
      [] record.kind = "falco_adapter_stop" -> PathStop(path, record)
      [] OTHER -> path

-----------------------------------------------------------------------------
(* The window of a snapshot: by time from its trigger to its decision, by   *)
(* sequence from its trigger to the record before it.                       *)

Window(trigger, snapshot) ==
    [from |-> trigger, until |-> snapshot, first |-> trigger, last |-> snapshot - 1]

\* _interval_intersects_window.
Intersects(openedAt, closedAt, window) ==
    openedAt <= window.until /\ (closedAt = 0 \/ closedAt >= window.from)

Meets(gap, window) == ~(gap.hi < window.first \/ gap.lo > window.last)

\* A gap that is still open leaves the window incomplete ...
WindowComplete(path, window) ==
    \A g \in path.gaps : ~(Intersects(g.openedAt, 0, window) \/ Meets(g, window))

\* ... and any other interval that intersects it is a critical gap.
CriticalGap(path, window) ==
    \/ \E e \in path.episodes :
          Intersects(e.openedAt, e.closedAt, window) \/ (e.kind = "gap" /\ Meets(e, window))
    \/ \E o \in path.opens : Intersects(o.openedAt, 0, window)
    \/ \E openedAt \in path.active : Intersects(openedAt, 0, window)

Observed(path, window) == WindowComplete(path, window) /\ ~CriticalGap(path, window)

\* The coverage records whose late arrival can invalidate a candidate.
MayInvalidate(record) ==
    record.kind \in {"docker_reconcile_gap", "docker_reconcile_recovered", "sequence_gap_open",
                     "sequence_gap_close", "observer_spool_drop", "critical_close",
                     "falco_adapter_stop"}

\* _late_coverage_invalidates_candidate_values.
LateInvalidates(record, window) ==
    /\ MayInvalidate(record)
    /\ \/ Intersects(record.openedAt, record.closedAt, window)
       \/ /\ record.kind \in {"sequence_gap_open", "sequence_gap_close"}
          /\ Meets(record, window)

=============================================================================
