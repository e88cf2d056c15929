--------------------------- MODULE ProjectionRows ---------------------------
(***************************************************************************)
(* The rows of Core's projection database, as three parts of the code make  *)
(* them: the reducers that apply one record to the tables, the replay that  *)
(* computes the tables from the evidence, and the closure that a stored     *)
(* image is held against when it is opened.                                 *)
(*                                                                         *)
(* An event is named by its source sequence.  A record of the evidence is a *)
(* Falco event [kind, key, box, direct], a correlation snapshot             *)
(* [kind, trigger, target, outcome], a retention tombstone or a coverage    *)
(* record of CoreCoverage.  A record of a sequence in gone is retired.      *)
(* The tables are one record; a candidate is named by its snapshot.         *)
(***************************************************************************)
EXTENDS HistoricalCoverage, Sequences, FiniteSetsExt, TLC

EmptyImage ==
    [cursor |-> 0, primary |-> <<>>, coverage |-> {}, observed |-> {}, boxes |-> <<>>,
     incidents |-> {}, candidates |-> {}, support |-> {}, invalid |-> {}]

IsFalco(record) == record.kind = "falco"
IsSnapshot(record) == record.kind = "pcc"
IsCoverage(record) == record.kind \notin {"falco", "pcc", "tombstone"}

\* _logical_primary_identity_v2: the same Falco or coverage event may reach
\* the observer twice; any other event is its own.
Logical(log, i) ==
    IF IsFalco(log[i]) THEN <<"falco", log[i].key>>
    ELSE IF ~IsCoverage(log[i]) THEN <<"event", i>>
    ELSE <<"coverage", [log[i] EXCEPT !.seq = 0]>>

\* The live records up to a position.
Live(gone, through) == (1..through) \ gone

\* The first live record of the same identity.
PrimaryOf(log, gone, i) == Min({j \in Live(gone, i) : Logical(log, j) = Logical(log, i)})
IsPrimary(log, gone, i) == PrimaryOf(log, gone, i) = i

\* The historical reduction over the primary records before a snapshot.
PathBefore(log, gone, snapshot) ==
    LET path[n \in 0..(snapshot - 1)] ==
          IF n = 0 THEN EmptyPath
          ELSE IF n \in gone \/ ~IsCoverage(log[n]) \/ ~IsPrimary(log, gone, n) THEN path[n - 1]
          ELSE PathStep(path[n - 1], log[n])
    IN  path[snapshot - 1]

WindowOf(log, snapshot) == Window(log[snapshot].trigger, snapshot)

\* correlate_pcc up to the duplicate: a failed snapshot is rejected, the facts
\* of a complete one lead to an investigation or to a candidate, and a window
\* that was not observed rejects what would have been a candidate.
Verdict(log, gone, snapshot) ==
    IF log[snapshot].outcome = "failed" THEN "rejected"
    ELSE IF log[snapshot].outcome = "investigation" THEN "investigation"
    ELSE IF Observed(PathBefore(log, gone, snapshot), WindowOf(log, snapshot)) THEN "candidate"
    ELSE "rejected"

Incident(trigger, authority, result) ==
    [trigger |-> trigger, authority |-> authority, result |-> result]
Candidate(log, snapshot) ==
    [snapshot |-> snapshot, trigger |-> log[snapshot].trigger, target |-> log[snapshot].target]
Support(candidate, trigger, snapshot, role) ==
    {[candidate |-> candidate, event |-> trigger, role |-> role, authority |-> snapshot],
     [candidate |-> candidate, event |-> snapshot, role |-> role, authority |-> snapshot]}

-----------------------------------------------------------------------------
(* Applying one record: _apply_prepared and its reducers. *)

\* The primary of the identity in the dedup table, or the record itself.
FindPrimary(log, image, i) ==
    LET same == {j \in DOMAIN image.primary :
                   image.primary[j] = j /\ Logical(log, j) = Logical(log, i)}
    IN  IF same = {} THEN i ELSE Min(same)

\* _expected_coverage_invalidations.
Invalidated(log, image, i) ==
    {[candidate |-> c.snapshot, by |-> i] :
        c \in {d \in image.candidates :
                 d.snapshot < i /\ LateInvalidates(log[i], Window(d.trigger, d.snapshot))}}

ReduceCoverage(log, image, i) ==
    [image EXCEPT !.coverage = @ \cup {i}, !.invalid = @ \cup Invalidated(log, image, i)]

\* _reduce_base for a Falco event: process and network observation, the
\* container's row, and an incident if it can lead to nothing else.
ReduceFalco(log, image, i) ==
    LET box == log[i].box
        first == IF box \in DOMAIN image.boxes THEN image.boxes[box].first ELSE i
    IN  [image EXCEPT
           !.observed = @ \cup {i},
           !.boxes = (box :> [first |-> first, last |-> i]) @@ @,
           !.incidents = @ \cup
             (IF log[i].direct THEN {Incident(i, i, "investigation")} ELSE {})]

\* Mutation: only a candidate that still stands is a duplicate.
ActiveDuplicateStanding(log, image, i) ==
    {c \in image.candidates :
        c.target = log[i].target /\ ~\E r \in image.invalid : r.candidate = c.snapshot}

\* _active_duplicate_v2.
ActiveDuplicate(log, image, i) == {c \in image.candidates : c.target = log[i].target}

ReduceSnapshot(log, gone, image, i) ==
    LET trigger == log[i].trigger
        verdict == Verdict(log, gone, i)
        active == ActiveDuplicate(log, image, i)
        result == IF verdict = "candidate" /\ active # {} THEN "duplicate" ELSE verdict
    IN  [image EXCEPT
           !.incidents = @ \cup {Incident(trigger, i, result)},
           !.candidates = IF result = "candidate" THEN @ \cup {Candidate(log, i)} ELSE @,
           !.support =
             IF result = "candidate" THEN @ \cup Support(i, trigger, i, "primary")
             ELSE IF result = "duplicate"
             THEN @ \cup Support((CHOOSE c \in active : TRUE).snapshot, trigger, i, "supporting")
             ELSE @]

ApplyRecord(log, gone, image, i) ==
    LET primary == FindPrimary(log, image, i)
        noted == [image EXCEPT !.cursor = i, !.primary = (i :> primary) @@ @]
    IN  IF primary # i THEN noted
        ELSE IF IsFalco(log[i]) THEN ReduceFalco(log, noted, i)
        ELSE IF IsSnapshot(log[i]) THEN ReduceSnapshot(log, gone, noted, i)
        ELSE IF IsCoverage(log[i]) THEN ReduceCoverage(log, noted, i)
        ELSE noted

-----------------------------------------------------------------------------
(* Replaying the evidence: _compute_replay, table by table. *)

Primaries(log, gone, through) ==
    {i \in Live(gone, through) : IsPrimary(log, gone, i)}

\* _compute_reduce_base_v2.
ReplayFalco(log, gone, through) == {i \in Primaries(log, gone, through) : IsFalco(log[i])}
ReplayCoverage(log, gone, through) == {i \in Primaries(log, gone, through) : IsCoverage(log[i])}
BoxRows(log, falco) ==
    LET Of(box) == {i \in falco : log[i].box = box}
    IN  [box \in {log[i].box : i \in falco} |-> [first |-> Min(Of(box)), last |-> Max(Of(box))]]
DirectIncidents(log, falco) ==
    {Incident(i, i, "investigation") : i \in {j \in falco : log[j].direct}}

\* Mutation: a snapshot whose trigger was retired makes no candidate.
MakersWithTrigger(log, gone, through) ==
    {i \in Live(gone, through) : /\ IsSnapshot(log[i]) /\ log[i].trigger \notin gone
                                 /\ Verdict(log, gone, i) = "candidate"}

\* The snapshots whose verdict is a candidate, and the first of each target.
Makers(log, gone, through) ==
    {i \in Live(gone, through) : IsSnapshot(log[i]) /\ Verdict(log, gone, i) = "candidate"}
FirstMaker(log, makers, i) == Min({j \in makers : log[j].target = log[i].target})

\* _persist_compute_pcc_result_v2.
ReplayIncidents(log, gone, through, makers) ==
    LET Result(i) == IF i \in makers /\ FirstMaker(log, makers, i) # i THEN "duplicate"
                     ELSE Verdict(log, gone, i)
    IN  {Incident(log[i].trigger, i, Result(i)) :
           i \in {j \in Live(gone, through) : IsSnapshot(log[j])}}
ReplaySupport(log, makers) ==
    UNION {LET first == FirstMaker(log, makers, i)
           IN  Support(first, log[i].trigger, i, IF first = i THEN "primary" ELSE "supporting") :
             i \in makers}

\* _compute_late_invalidations_v2.
ReplayInvalid(log, candidates, coverage) ==
    {[candidate |-> p[1].snapshot, by |-> p[2]] :
       p \in {q \in candidates \X coverage :
               /\ q[1].snapshot < q[2]
               /\ LateInvalidates(log[q[2]], WindowOf(log, q[1].snapshot))}}

ReplayImage(log, gone, through) ==
    LET falco == ReplayFalco(log, gone, through)
        coverage == ReplayCoverage(log, gone, through)
        makers == Makers(log, gone, through)
        candidates == {Candidate(log, i) : i \in {j \in makers : FirstMaker(log, makers, j) = j}}
    IN  [cursor |-> Max(Live(gone, through) \cup {0}),
         primary |-> [i \in Live(gone, through) |-> PrimaryOf(log, gone, i)],
         coverage |-> coverage,
         observed |-> falco,
         boxes |-> BoxRows(log, falco),
         incidents |-> DirectIncidents(log, falco)
                         \cup ReplayIncidents(log, gone, through, makers),
         candidates |-> candidates,
         support |-> ReplaySupport(log, makers),
         invalid |-> ReplayInvalid(log, candidates, coverage)]

-----------------------------------------------------------------------------
(* Holding a stored image against the evidence: _validate_persisted_prefix. *)

By(rows, i) == {r \in rows : r.authority = i}

\* _historical_active_duplicate_v2: the candidate that stood when the trigger
\* in hand came.
HistoricalDuplicate(log, image, i) ==
    {c \in ActiveDuplicate(log, image, i) : c.trigger < log[i].trigger}

\* _validate_retry_base_closure.
BaseClosure(log, image, i, primary) ==
    /\ i \in image.coverage <=> (primary /\ IsCoverage(log[i]))
    /\ i \in image.observed <=> (primary /\ IsFalco(log[i]))

\* _validate_retry_security_closure.
SecurityClosure(log, gone, image, i, primary) ==
    LET none == By(image.support, i) = {} /\ ~\E c \in image.candidates : c.snapshot = i
        active == HistoricalDuplicate(log, image, i)
        verdict == Verdict(log, gone, i)
    IN  /\ {r \in image.invalid : r.by = i}
             = IF primary /\ IsCoverage(log[i]) THEN Invalidated(log, image, i) ELSE {}
        /\ IF ~primary \/ ~(IsFalco(log[i]) \/ IsSnapshot(log[i])) THEN none /\ By(image.incidents, i) = {}
           ELSE IF IsFalco(log[i])
           THEN none /\ By(image.incidents, i)
                          = IF log[i].direct THEN {Incident(i, i, "investigation")} ELSE {}
           ELSE IF verdict # "candidate"
           THEN none /\ By(image.incidents, i) = {Incident(log[i].trigger, i, verdict)}
           ELSE IF active = {}
           THEN /\ By(image.incidents, i) = {Incident(log[i].trigger, i, "candidate")}
                /\ {c \in image.candidates : c.snapshot = i} = {Candidate(log, i)}
                /\ By(image.support, i) = Support(i, log[i].trigger, i, "primary")
           ELSE /\ By(image.incidents, i) = {Incident(log[i].trigger, i, "duplicate")}
                /\ ~\E c \in image.candidates : c.snapshot = i
                /\ \E c \in active :
                     By(image.support, i) = Support(c.snapshot, log[i].trigger, i, "supporting")

\* The container rows, from every process and network observation.
ContainerClosure(log, image) == image.boxes = BoxRows(log, image.observed)

PrefixValid(log, gone, image) ==
    IF image.cursor = 0 THEN image = EmptyImage
    ELSE /\ image.cursor \notin gone
         /\ DOMAIN image.primary = Live(gone, image.cursor)
         /\ \A i \in Live(gone, image.cursor) :
              LET primary == IsPrimary(log, gone, i) IN
              /\ image.primary[i] = PrimaryOf(log, gone, i)
              /\ BaseClosure(log, image, i, primary)
              /\ SecurityClosure(log, gone, image, i, primary)
         /\ ContainerClosure(log, image)

=============================================================================
