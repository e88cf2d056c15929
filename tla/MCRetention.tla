---------------------------- MODULE MCRetention -----------------------------
(***************************************************************************)
(* Properties of evidence retention, and the fairness its liveness needs.  *)
(***************************************************************************)
EXTENDS Retention

Phases == {"none", "completed"} \union OpenPhases \union UnlinkPhases
Places == {"idle", "deliver", "answer", "accept", "settle", "unlink", "unlinking", "resume",
           "recache", "rebuild", "boundary", "clear", "down", "fenced", "failed"}

(* Types, and the chain as a prefix of the observer's stream.              *)
TypeOK ==
  /\ Len(chain) <= Len(spool)
  /\ \A i \in DOMAIN chain :
       chain[i].kind = spool[i].kind /\ chain[i].req = spool[i].req /\ chain[i].closed \in 0..MaxTime
  /\ payload \subseteq DOMAIN chain
  /\ ack.confirmed \in 0..Len(chain) /\ ack.pending \in 0..Len(chain)
  /\ file.phase \in Phases /\ file.target \in 0..Len(spool) /\ temp \subseteq {"state", "boundary"}
  /\ cache \subseteq Boundary(chain)
  /\ run.pc \in Places /\ run.target \in 0..Len(spool) /\ now \in 1..MaxTime

(* The selector against a definition of its own, over every chain that     *)
(* occurs and every clock: what it takes is removable, not yet covered,    *)
(* adjacent, within the limit, and each taken only under pressure that the *)
(* older ones do not relieve; and it takes nothing only when nothing old   *)
(* or nothing excessive could be taken.                                    *)
SelectionSound ==
  At("idle") => \A clock \in [at : {now}, healthy : BOOLEAN, uncertainty : 0..MaxUncertainty + 1] :
    LET facts == Flushed(chain)
        req == Decision(facts, clock, 0)
        old(i) == /\ clock.healthy /\ clock.uncertainty <= MaxUncertainty
                  /\ facts[i].closed + MaxAge + clock.uncertainty < clock.at
        free == {i \in DOMAIN facts : facts[i].kind = "routine" /\ i \notin Covered(facts)}
        held == Bytes(facts, DOMAIN facts \ (Covered(facts) \union BlockedReports(facts)))
        aged == {i \in free : old(i)} IN
    CASE req.op = "tombstone" ->
           /\ RunOf(req) # {} /\ RunOf(req) \subseteq free /\ Cardinality(RunOf(req)) <= MaxRun
           /\ \A i \in RunOf(req) :
                old(i) \/ held - Bytes(facts, aged \union {j \in free : j < i}) > Target
           /\ \A i \in aged : i >= req.lo
      [] req.op = "blocked" -> free = {} /\ held > Target
      [] OTHER -> aged = {} /\ (held <= Target \/ free = {})

-----------------------------------------------------------------------------
(* Fairness: the process restarts, a transaction that has begun goes on    *)
(* and a durable request is taken up every minute; polls and ACKs happen   *)
(* between retention runs, so a retry does not starve them; time passes.   *)
Fairness == WF_vars(CarryOut \/ Recovery) /\ SF_vars(Ordinary) /\ WF_vars(Tick)

FairSpec == Spec /\ Fairness

(* Retention also runs when nothing is under way, once a minute.           *)
RunningSpec == FairSpec /\ SF_vars(Selecting)

(* Every published request is carried out in the end, through crashes,     *)
(* lost answers, ACK lag and I/O errors, unless it is stranded or an I/O   *)
(* error struck recovery itself.                                           *)
RetentionSettles == file # NoFile ~> file = NoFile \/ Stranded \/ At("failed")

(* The retry after a lost answer, which the controller reports as          *)
(* observer_retryable, carries the request out.                            *)
RetryConverges == file # NoFile ~> file = NoFile

WithinTarget == TotalBytes(chain) <= Target \/ Choosable(chain) = {}

(* Evidence above the target is brought back under it, as long as requests *)
(* are left to make.                                                       *)
RetentionKeepsUp == []<>(WithinTarget \/ used.requests = MaxRequests)
=============================================================================
