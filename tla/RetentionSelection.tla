------------------------- MODULE RetentionSelection -------------------------
(***************************************************************************)
(* What retention may remove (evidence/retention.py): the selector over    *)
(* one frozen snapshot of the manifest chain, the accepted tombstones and  *)
(* blocked reports before it, and the state file's phases.                 *)
(*                                                                         *)
(* A fact is a sealed segment, named by its position in the chain.  Each   *)
(* holds one event here, so a position is also a source sequence.          *)
(***************************************************************************)
EXTENDS Integers, Sequences, FiniteSets, FiniteSetsExt

CONSTANTS
  Target,          \* DEFAULT_RETENTION_TARGET_BYTES, 5 GiB in the code
  MaxAge,          \* seven days in the code
  MaxRun,          \* manifests of one tombstone, 128 in the code
  MaxUncertainty   \* of a clock sample that may still decide by age

ASSUME SelectionAssumption ==
  /\ {Target, MaxAge, MaxUncertainty} \subseteq Nat
  /\ MaxRun \in Nat \ {0}

(* A segment of the chain: routine connections that may be removed,        *)
(* routine evidence that may not (sparse, or of another event type),       *)
(* protected evidence, and the two control events retention itself adds.   *)
Removable(fact) == fact.kind = "routine"
Priority(fact) == IF fact.kind \in {"routine", "kept"} THEN "routine" ELSE "protected"

SizeOf(kind) == IF kind = "routine" THEN 2 ELSE 1

(* closed = 0 while the segment is still the active one. *)
Fact(event) == [kind |-> event.kind, req |-> event.req, bytes |-> SizeOf(event.kind), closed |-> 0]

NoRequest == [op |-> "none", id |-> 0, lo |-> 1, hi |-> 0, h0 |-> 0, next |-> 0, bytes |-> 0,
              reason |-> "none", routine |-> 0, protected |-> 0]

RunOf(req) == req.lo..req.hi

Bytes(facts, positions) ==
  LET upTo[i \in 0..Len(facts)] ==
        IF i = 0 THEN 0 ELSE upTo[i - 1] + IF i \in positions THEN facts[i].bytes ELSE 0
  IN upTo[Len(facts)]

-----------------------------------------------------------------------------
(* The accepted control events of a chain. *)

Tombstones(facts) == {i \in DOMAIN facts : facts[i].kind = "tombstone"}
BlockedReports(facts) == {i \in DOMAIN facts : facts[i].kind = "blocked"}

Covered(facts) == UNION {RunOf(facts[i].req) : i \in Tombstones(facts)}

Successor(req, tip) == IF req.hi < tip THEN req.hi + 1 ELSE 0

(* The run of one accepted tombstone is adjacent, lies in the prefix the   *)
(* tombstone was chosen from, names what follows it there, and holds       *)
(* nothing but removable evidence of the stated size.                      *)
RunExact(facts, i) ==
  LET req == facts[i].req IN
  /\ RunOf(req) # {} /\ req.lo >= 1 /\ req.hi <= req.h0 /\ req.h0 < i
  /\ req.next = Successor(req, req.h0)
  /\ \A p \in RunOf(req) : Removable(facts[p])
  /\ req.bytes = Bytes(facts, RunOf(req))

(* The tombstones a snapshot was taken after, as its witness counts them.  *)
PriorIndex(facts, through) == {facts[i].req.id : i \in {j \in Tombstones(facts) : j <= through}}

(* Runs of different tombstones are disjoint and in chain order.           *)
PriorCoverage(facts) ==
  /\ \A i \in Tombstones(facts) : RunExact(facts, i)
  /\ \A i, j \in Tombstones(facts) : i < j =>
       /\ facts[i].req.id # facts[j].req.id
       /\ facts[i].req.hi < facts[j].req.lo
       /\ facts[i].req.h0 <= facts[j].req.h0

Uncovered(facts) == DOMAIN facts \ Covered(facts)

(* What one freeze hands to the selector.                                  *)
Snapshot(facts, clock) == [facts |-> facts, clock |-> clock, through |-> Len(facts)]

(* Every fact is sealed, and no control event lies past the snapshot.      *)
SnapshotValid(snapshot) ==
  /\ \A i \in DOMAIN snapshot.facts : snapshot.facts[i].closed # 0
  /\ \A i \in Tombstones(snapshot.facts) \union BlockedReports(snapshot.facts) : i <= snapshot.through
  /\ PriorCoverage(snapshot.facts)

-----------------------------------------------------------------------------
(* The clock: age decides only while the sample is healthy and certain     *)
(* enough, and the uncertainty is taken off the cutoff.                    *)

AgeEnabled(clock) == clock.healthy /\ clock.uncertainty <= MaxUncertainty

Cutoff(clock) == clock.at - MaxAge - clock.uncertainty

-----------------------------------------------------------------------------
(* _select_retention *)

RoutineBytes(facts) ==
  Bytes(facts, {i \in Uncovered(facts) : Priority(facts[i]) = "routine"})

(* An accepted blocked report does not add to the pressure it reports.     *)
ProtectedBytes(facts) ==
  Bytes(facts, {i \in Uncovered(facts) : Priority(facts[i]) = "protected"} \ BlockedReports(facts))

TotalBytes(facts) == RoutineBytes(facts) + ProtectedBytes(facts)

Choosable(facts) == {i \in Uncovered(facts) : Removable(facts[i])}

AgeSelected(facts, clock) ==
  {i \in Choosable(facts) : AgeEnabled(clock) /\ facts[i].closed < Cutoff(clock)}

(* Then the oldest of the rest, one by one, until what stays fits.         *)
SizeSelected(facts, aged) ==
  LET left == TotalBytes(facts) - Bytes(facts, aged)
      rest == Choosable(facts) \ aged IN
  {i \in rest : left - Bytes(facts, {j \in rest : j < i}) > Target}

Selected(facts, clock) ==
  LET aged == AgeSelected(facts, clock) IN aged \union SizeSelected(facts, aged)

(* One run: adjacent positions from the first, at most MaxRun of them.     *)
FirstRun(selected) ==
  LET lo == Min(selected) IN {i \in selected : i < lo + MaxRun /\ lo..i \subseteq selected}

Reason(facts, clock) ==
  LET aged == AgeSelected(facts, clock) # {}
      full == TotalBytes(facts) > Target IN
  IF aged /\ full THEN "age_and_size" ELSE IF aged THEN "age" ELSE "size"

TombstoneOf(facts, clock, id, removed) ==
  [op |-> "tombstone", id |-> id, lo |-> Min(removed), hi |-> Max(removed), h0 |-> Len(facts),
   next |-> Successor([hi |-> Max(removed)], Len(facts)), bytes |-> Bytes(facts, removed),
   reason |-> Reason(facts, clock), routine |-> 0, protected |-> 0]

TombstoneRequest(facts, clock, id) ==
  TombstoneOf(facts, clock, id, FirstRun(Selected(facts, clock)))

BlockedRequest(facts, id) ==
  [op |-> "blocked", id |-> id, lo |-> 1, hi |-> 0, h0 |-> Len(facts), next |-> 0, bytes |-> 0,
   reason |-> "none", routine |-> RoutineBytes(facts), protected |-> ProtectedBytes(facts)]

(* _blocked_episode_key: the target and the blocked bytes follow from these. *)
EpisodeKey(req) == <<req.routine, req.protected>>

(* Both kinds of outcome, in the order of the evidence.                    *)
Outcomes(facts) == Tombstones(facts) \union BlockedReports(facts)

(* The pressure is already on record: the latest outcome is a blocked      *)
(* report of the same episode.                                             *)
Reported(facts) ==
  /\ Outcomes(facts) # {}
  /\ Max(Outcomes(facts)) \in BlockedReports(facts)
  /\ EpisodeKey(facts[Max(Outcomes(facts))].req) = EpisodeKey(BlockedRequest(facts, 0))

Decision(facts, clock, id) ==
  IF Selected(facts, clock) # {} THEN TombstoneRequest(facts, clock, id)
  ELSE IF TotalBytes(facts) > Target /\ ~Reported(facts) THEN BlockedRequest(facts, id)
  ELSE NoRequest

(* _validated_decision_request: a decision carries only a request that the *)
(* snapshot it names bears out.                                            *)
DecisionExact(facts, req) ==
  CASE req.op = "tombstone" ->
         /\ RunOf(req) # {} /\ req.hi <= req.h0 /\ Cardinality(RunOf(req)) <= MaxRun
         /\ req.bytes = Bytes(facts, RunOf(req)) /\ req.next = Successor(req, req.h0)
    [] req.op = "blocked" -> req.routine + req.protected > Target
    [] OTHER -> TRUE

-----------------------------------------------------------------------------
(* The durable state file and its legal transitions. *)

NoClock == [at |-> 0, healthy |-> FALSE, uncertainty |-> 0]
NoWitness == [clock |-> NoClock, prior |-> {}, through |-> 0]
NoFile == [phase |-> "none", req |-> NoRequest, target |-> 0, witness |-> NoWitness]

(* The witness keeps what the choice depended on: the clock sample and the *)
(* tombstones before it.                                                   *)
Witness(snapshot) ==
  [clock |-> snapshot.clock, prior |-> PriorIndex(snapshot.facts, snapshot.through),
   through |-> snapshot.through]

SelectedState(snapshot, req) ==
  [phase |-> "selected", req |-> req, target |-> 0, witness |-> Witness(snapshot)]

OpenPhases == {"selected", "target_bound", "evidence_appended"}
UnlinkPhases == {"unlink_in_progress", "commit_uncertain"}

(* _derived_retention_state *)
NextPhases(phase, op) ==
  CASE phase = "selected" -> {"target_bound", "evidence_appended"}
    [] phase = "target_bound" -> {"evidence_appended"}
    [] phase = "evidence_appended" /\ op = "tombstone" -> {"unlink_in_progress"}
    [] phase = "unlink_in_progress" -> {"commit_uncertain", "completed"}
    [] phase = "commit_uncertain" -> {"completed"}
    [] OTHER -> {}

(* _validate_retention_transition: the request and its witness never       *)
(* change, the target only from unbound, the phase only forward.           *)
LegalTransition(state, next) ==
  /\ next.req = state.req /\ next.witness = state.witness
  /\ state.target \in {0, next.target} /\ next.target # 0
  /\ next.phase \in NextPhases(state.phase, state.req.op)

(* RetentionStateJournal._transition; repeating a transition is nothing.   *)
Advance(state, phase, target) ==
  LET next == [phase |-> phase, req |-> state.req, target |-> target, witness |-> state.witness] IN
  IF LegalTransition(state, next) THEN next ELSE state

(* The cache entry rebuilt from the accepted tombstones.                   *)
Boundary(facts) == {[at |-> i, req |-> facts[i].req] : i \in Tombstones(facts)}
=============================================================================
