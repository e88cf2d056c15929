---------------------------- MODULE CoreCoverage ----------------------------
(***************************************************************************)
(* The coverage reducer of Core (coverage/state.py): what Core believes     *)
(* about Docker reconciles, sequence gaps and critical intervals after the  *)
(* signed records of the observer, applied in source order.  A record is    *)
(* named by the source sequence it was signed under.  A timestamp is named  *)
(* by the sequence that was next when the observer read its clock: no two   *)
(* readings are equal, and a later one is larger.                           *)
(***************************************************************************)
EXTENDS Naturals, FiniteSets

\* docker_generation is None.
NoGeneration == 0

\* A signed record, with the fields its kind has and zero for the others.
CoverageRecord(kind, seq) ==
    [kind |-> kind, seq |-> seq, openedAt |-> 0, closedAt |-> 0, gen |-> 0, lo |-> 0, hi |-> 0]

EmptySnapshot ==
    [healthy |-> TRUE, started |-> FALSE, generation |-> NoGeneration,
     opens |-> {}, recoveries |-> {}, gaps |-> {}, critical |-> {}]

\* CoverageConflict: the reducer is unhealthy from here on.
Conflict(snapshot) == [snapshot EXCEPT !.healthy = FALSE]

HighestRecovery(snapshot) ==
    IF snapshot.recoveries = {} THEN 0
    ELSE CHOOSE g \in {r.gen : r \in snapshot.recoveries} :
            \A r \in snapshot.recoveries : r.gen <= g

ApplyDockerOpen(snapshot, record) ==
    IF \E o \in snapshot.opens : o.openedAt = record.openedAt /\ o.gen = record.gen
    THEN Conflict(snapshot)
    ELSE [snapshot EXCEPT !.generation = NoGeneration, !.opens = @ \cup {record}]

ApplyDockerRecovery(snapshot, record) ==
    LET matches == {o \in snapshot.opens :
                      /\ o.openedAt = record.openedAt /\ o.gen = record.gen
                      /\ o.seq < record.seq}
        remaining == snapshot.opens \ matches
    IN  IF Cardinality(matches) # 1 \/ record.gen <= HighestRecovery(snapshot)
        THEN Conflict(snapshot)
        ELSE [snapshot EXCEPT
                !.generation = IF remaining = {} THEN record.gen ELSE NoGeneration,
                !.opens = remaining,
                !.recoveries = @ \cup {record}]

Overlaps(a, b) == a.lo <= b.hi /\ b.lo <= a.hi

ApplySequenceGapOpen(snapshot, record) ==
    IF \E g \in snapshot.gaps : Overlaps(g, record)
    THEN Conflict(snapshot)
    ELSE [snapshot EXCEPT !.gaps = @ \cup
            {[lo |-> record.lo, hi |-> record.hi, openedAt |-> record.openedAt,
              seq |-> record.seq, baseline |-> HighestRecovery(snapshot), closed |-> FALSE]}]

ApplySequenceGapClose(snapshot, record) ==
    LET matches == {g \in snapshot.gaps :
                      /\ g.lo = record.lo /\ g.hi = record.hi
                      /\ g.openedAt = record.openedAt /\ ~g.closed}
        Recovers(g, r) == /\ g.seq < r.seq /\ r.seq < record.seq
                          /\ r.gen = record.gen /\ r.closedAt = record.closedAt
    IN  IF /\ Cardinality(matches) = 1
           /\ \A g \in matches :
                /\ Cardinality({r \in snapshot.recoveries : Recovers(g, r)}) = 1
                /\ record.gen > g.baseline
                /\ record.closedAt >= g.openedAt
        THEN [snapshot EXCEPT !.gaps =
                (@ \ matches) \cup {[g EXCEPT !.closed = TRUE] : g \in matches}]
        ELSE Conflict(snapshot)

\* The generic critical interval of observer_spool_drop: it has host scope and
\* the observer signs no close that the reducer acts on.
ApplyGenericCritical(snapshot, record) ==
    [snapshot EXCEPT !.critical = @ \cup {record.openedAt}]

Transition(snapshot, record) ==
    CASE ~snapshot.healthy -> snapshot
      [] record.kind = "observer_start" ->
            [snapshot EXCEPT !.started = TRUE, !.generation = NoGeneration]
      [] record.kind = "docker_reconcile_gap" -> ApplyDockerOpen(snapshot, record)
      [] record.kind = "docker_reconcile_recovered" -> ApplyDockerRecovery(snapshot, record)
      [] record.kind = "sequence_gap_open" -> ApplySequenceGapOpen(snapshot, record)
      [] record.kind = "sequence_gap_close" -> ApplySequenceGapClose(snapshot, record)
      [] record.kind = "observer_spool_drop" -> ApplyGenericCritical(snapshot, record)
      [] OTHER -> snapshot

\* mutation_readiness reports neither docker_reconcile_missing nor
\* observer_start_missing, once the boot transition of the host is known.
DockerReconciled(snapshot) ==
    snapshot.started /\ snapshot.generation # NoGeneration /\ snapshot.opens = {}

=============================================================================
