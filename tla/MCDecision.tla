----------------------------- MODULE MCDecision ------------------------------
(***************************************************************************)
(* Two candidates and pages of one, so that the keyset has to come round;   *)
(* one delivery retried in a tick, so that a queue of two takes turns.      *)
(***************************************************************************)
EXTENDS Decision

\* The types of the state.
TypeOK ==
    /\ now \in 0..MaxClock /\ lease \in -1..(MaxClock + LeaseFor)
    /\ projected \in [Candidates -> [status : {"absent", "standing", "invalidated"},
                                     created : 0..MaxClock]]
    /\ db.phase \in {"absent", "partial", "ready"} /\ db.readOnly \in BOOLEAN
    /\ db.outcome \in [Candidates -> {"none", "prepared", "quarantined"}]
    /\ mem.commits \cup mem.prepared \cup mem.quarantined \subseteq Candidates
=============================================================================
