---------------------------- MODULE MCTailRepair ----------------------------
(***************************************************************************)
(* TailRepair with its properties.                                         *)
(***************************************************************************)
EXTENDS TailRepair

TypeOK ==
  /\ disk.repair.phase \in Phases
  /\ mem.job \in Jobs
  /\ mem.state \in {"down", "mkdir", "recover", "ready", "repair", "latched", "refused"}
  /\ \A n \in DOMAIN spool : spool[n] \in Kinds
  /\ ack.confirmed \in Nat /\ ack.pending \in Nat /\ ack.observer \in Nat

(* Every record whose append returned is in a sealed segment or in the      *)
(* intact prefix of the open one, after any crash, I/O error and repair:    *)
(* the cut of a torn tail never removes accepted evidence, and the ACK      *)
(* cursor never names a sequence the store does not hold.                   *)
AcceptedSurvives ==
  /\ accepted \subseteq Stored
  /\ 1 .. Max({ack.confirmed, ack.pending}) \subseteq Stored

(* No crash, interrupted write or half-done publication is taken for        *)
(* corruption: a root becomes read-only only after storage damage, a        *)
(* contradicting signed event or an I/O error that left a name uncertain.     *)
CrashNeverFences == (mem.readonly \/ disk.health # "ok") => cause # {}

(* A tail is cut only under an authorization the observer signed, and once  *)
(* the repair gate is gone the authorization and a later completion of      *)
(* every cut are sealed evidence that the observer saw acknowledged.        *)
CutIsExplained ==
  /\ \A n \in cut : n \in DOMAIN spool /\ spool[n] = "auth"
  /\ \A n \in cut :
       disk.repair.auth # n =>
         /\ n \in Sealed
         /\ \E m \in Sealed : spool[m] = "done" /\ n < m /\ m <= ack.confirmed

(* The fence of a root is final: no restart, repair or retry writes         *)
(* evidence, cuts a tail or moves the ACK cursor once the marker or its     *)
(* intent is durable.                                                       *)
FenceIsFinal ==
  [][disk.health # "ok" =>
       /\ disk'.health # "ok"
       /\ disk'.sealed = disk.sealed /\ disk'.open = disk.open
       /\ disk'.torn = disk.torn /\ disk'.repair = disk.repair
       /\ ack' = ack]_vars

NoGap == Seqs("open") = {}

(* A pending repair is eventually completed by restarting it, while no      *)
(* sequence gap is in the stream, the path fits the preflight bound and     *)
(* the root is not fenced.                                                  *)
RepairCompletesWithoutGaps ==
  [](RepairGate => <>(~RepairGate \/ ~NoGap \/ disk.health # "ok" \/ disk.damaged
                       \/ \E n \in Signed("auth") \cup Signed("done") : n - mem.last > MaxPath))

(* The same when the stream may hold a sequence gap. *)
RepairCompletes ==
  [](RepairGate => <>(~RepairGate \/ disk.health # "ok" \/ disk.damaged
                       \/ \E n \in Signed("auth") \cup Signed("done") : n - mem.last > MaxPath))
=============================================================================
