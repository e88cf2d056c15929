---------------------------- MODULE EvidenceStore ----------------------------
(***************************************************************************)
(* The Core's append-only evidence store (evidence/segments.py).           *)
(*                                                                         *)
(* Records are source sequence numbers.  The disk holds the hash-chained   *)
(* manifests of the sealed segments, of which only the newest may still    *)
(* have its payload under the name ".open", the chain head, at most one    *)
(* unmanifested ".open" segment with a possibly torn last frame, and the   *)
(* health marker.  A publication (write a temporary, fsync it, rename it,  *)
(* fsync the directory) is one step whose crash leaves the old or the new  *)
(* name and perhaps a temporary; a frame write is interrupted into         *)
(* nothing, a torn frame or a complete one.                                *)
(***************************************************************************)
EXTENDS Integers, Sequences, FiniteSets, FiniteSetsExt

CONSTANTS MaxRecords    \* records a segment takes before it must rotate

ASSUME MaxRecordsAssumption == MaxRecords \in Nat \ {0}

VARIABLES
  disk,     \* what survives a crash
  mem,      \* the process's SegmentStore object
  spool,    \* the kinds of the events of the observer's stream, in order
  accepted, \* history: sequences whose append returned
  cause     \* history: what has justified a read-only fence so far

storeVars == <<disk, mem, spool, accepted, cause>>

NoRepair == [phase |-> "none", prefix |-> {}, auth |-> 0, done |-> 0]

Phases == {"none", "detected", "authorized", "truncated",
           "authorization_appended", "completion_appended"}

Jobs == {"idle", "seal", "promote", "head", "create", "write", "commit",
         "intent", "fence"}

Down == [state |-> "down", job |-> "idle", next |-> 0, active |-> FALSE,
         fd |-> FALSE, aged |-> FALSE, uncertain |-> FALSE, last |-> 0,
         readonly |-> FALSE, settle |-> FALSE]

EmptyRoot == [dirs |-> 0, sealed |-> <<>>, promoted |-> TRUE, head |-> 0, open |-> {},
              torn |-> FALSE, litter |-> FALSE, health |-> "ok",
              damaged |-> FALSE, repair |-> NoRepair]

Sealed == UNION {disk.sealed[i] : i \in DOMAIN disk.sealed}

Stored == Sealed \cup disk.open

(* The routine class has its own segments; every other kind is security. *)
Priority(n) == IF spool[n] = "routine" THEN "routine" ELSE "security"

-----------------------------------------------------------------------------
(* Startup: one scan decides what the root is before anything is written.   *)

(* The chain head is absent, the last manifest or the one before it. *)
ChainHeadOk ==
  LET n == Len(disk.sealed) IN disk.head = 0 \/ (n > 0 /\ disk.head \in {n - 1, n})

(* Manifests that do not form one chain of segments in sequence order. *)
ManifestChainCorrupt ==
  \/ \E i \in DOMAIN disk.sealed : disk.sealed[i] = {}
  \/ \E i, j \in DOMAIN disk.sealed :
        i < j /\ Max(disk.sealed[i]) >= Min(disk.sealed[j])

(* Payloads and complete frames that fail their digests. *)
PayloadCorrupt == disk.damaged

(* An unmanifested ".open" has a complete frame and follows the chain. *)
UnsettledOpenCorrupt ==
  \/ disk.open = {} /\ disk.torn
  \/ disk.open # {} /\ \E m \in Sealed : m >= Min(disk.open)

ScanCorrupt == ManifestChainCorrupt \/ PayloadCorrupt \/ ~ChainHeadOk

RepairGate == disk.repair # NoRepair

PlanDone == disk.promoted /\ disk.head = Len(disk.sealed) /\ ~disk.litter

(* The disk after each publication. *)
CreatedOpen == [disk EXCEPT !.open = {mem.next}, !.litter = FALSE]

PublishedManifest == [disk EXCEPT !.sealed = Append(@, disk.open), !.open = {},
                                  !.promoted = FALSE, !.litter = FALSE]

PromotedPayload == [disk EXCEPT !.promoted = TRUE]

ReplacedHead == [disk EXCEPT !.head = Len(disk.sealed), !.litter = FALSE]

(* Recovery of a manifested ".open" payload: finish its promotion. *)
PromoteManifested ==
  /\ ~disk.promoted
  /\ disk' = PromotedPayload

(* Then the chain head is rewritten when it lags. *)
RewriteHead ==
  /\ disk.promoted
  /\ disk.head # Len(disk.sealed)
  /\ disk' = [disk EXCEPT !.head = Len(disk.sealed)]

(* Then temporaries of interrupted publications are deleted. *)
DeleteTemporaries ==
  /\ disk.promoted
  /\ disk.head = Len(disk.sealed)
  /\ disk.litter
  /\ disk' = [disk EXCEPT !.litter = FALSE]

ApplyRecoveryPlan == PromoteManifested \/ RewriteHead \/ DeleteTemporaries

LastStored == IF Stored = {} THEN 0 ELSE Max(Stored)

(* A root with a health marker or intent opens read-only, whatever it says. *)
LoadedHealth == disk.health # "ok"

(* A pristine root gets its two directories one after the other. *)
CreateDirectory ==
  /\ <<mem.state, disk.dirs>> \in {<<"down", 0>>, <<"mkdir", 1>>}
  /\ disk' = [disk EXCEPT !.dirs = @ + 1]
  /\ mem' = [mem EXCEPT !.state = IF disk.dirs = 0 THEN "mkdir" ELSE "down"]
  /\ UNCHANGED <<spool, accepted, cause>>

(* A root with only one of them is refused as corrupt, without a fence. *)
RefusePartialRoot ==
  /\ mem.state = "down"
  /\ disk.dirs = 1
  /\ mem' = [mem EXCEPT !.state = "refused"]
  /\ UNCHANGED <<disk, spool, accepted, cause>>

OpenStore ==
  /\ mem.state = "down"
  /\ disk.dirs = 2
  /\ IF ScanCorrupt \/ UnsettledOpenCorrupt
     THEN mem' = [mem EXCEPT !.readonly = TRUE, !.state = "refused",
                             !.job = IF LoadedHealth THEN "idle" ELSE "intent"]
     ELSE /\ ~RepairGate /\ ~disk.torn
          /\ mem' = [Down EXCEPT !.state = IF LoadedHealth THEN "ready" ELSE "recover",
                                 !.readonly = LoadedHealth,
                                 !.active = disk.open # {},
                                 !.fd = disk.open # {},
                                 !.aged = TRUE,
                                 !.last = LastStored]
  /\ UNCHANGED <<disk, spool, accepted, cause>>

RecoverStep ==
  /\ mem.state = "recover"
  /\ ApplyRecoveryPlan
  /\ UNCHANGED <<mem, spool, accepted, cause>>

(* The verifier replays the whole chain and the store starts serving. *)
BindAndRecover ==
  /\ mem.state = "recover"
  /\ PlanDone
  /\ mem' = [mem EXCEPT !.state = "ready"]
  /\ UNCHANGED <<disk, spool, accepted, cause>>

-----------------------------------------------------------------------------
(* Append, flush and the read-only fence.                                   *)

Idle == mem.state = "ready" /\ mem.job = "idle"

Writable == Idle /\ ~mem.readonly /\ ~mem.uncertain

MustRotate(n) ==
  /\ mem.active
  /\ \/ mem.aged
     \/ Cardinality(disk.open) >= MaxRecords
     \/ \E m \in disk.open : Priority(m) # Priority(n)

(* append up to the first write.  A rotation seals the active segment       *)
(* first; flush refuses when the active descriptor was lost.                *)
BeginAppend(n) ==
  /\ Writable
  /\ ~mem.settle
  /\ n > mem.last
  /\ ~(MustRotate(n) /\ ~mem.fd)
  /\ mem' = [mem EXCEPT !.next = n,
                        !.job = CASE MustRotate(n) -> "seal"
                                  [] ~mem.active -> "create"
                                  [] OTHER -> "write"]
  /\ UNCHANGED <<disk, spool, accepted, cause>>

(* The first frame goes into a temporary that becomes the ".open" segment. *)
CreateActive ==
  /\ mem.job = "create"
  /\ disk' = CreatedOpen
  /\ mem' = [mem EXCEPT !.job = "commit", !.active = TRUE, !.fd = TRUE,
                        !.aged = FALSE]
  /\ UNCHANGED <<spool, accepted, cause>>

(* A write through a descriptor lost by a failed flush fails at once. *)
WriteFrame ==
  /\ mem.job = "write"
  /\ IF mem.fd
     THEN /\ disk' = [disk EXCEPT !.open = @ \cup {mem.next}]
          /\ mem' = [mem EXCEPT !.job = "commit"]
     ELSE /\ mem' = [mem EXCEPT !.job = "idle", !.next = 0, !.uncertain = TRUE]
          /\ disk' = disk
  /\ UNCHANGED <<spool, accepted, cause>>

(* The durable record is committed to the verifier and the append returns.  *)
(* A failed commit keeps the record pending and only its retry is admitted. *)
CommitDurable ==
  /\ mem.job = "commit"
  /\ mem' = [mem EXCEPT !.job = "idle", !.last = mem.next, !.next = 0]
  /\ accepted' = accepted \cup {mem.next}
  /\ UNCHANGED <<disk, spool, cause>>

BeginFlush ==
  /\ Writable
  /\ mem.active
  /\ mem.fd
  /\ mem' = [mem EXCEPT !.job = "seal"]
  /\ UNCHANGED <<disk, spool, accepted, cause>>

(* flush re-reads the closed segment and publishes its manifest ... *)
SealManifest ==
  /\ mem.job = "seal"
  /\ ~disk.torn
  /\ disk' = PublishedManifest
  /\ mem' = [mem EXCEPT !.job = "promote", !.fd = FALSE]
  /\ UNCHANGED <<spool, accepted, cause>>

(* ... renames the payload to its closed name ... *)
SealPromote ==
  /\ mem.job = "promote"
  /\ disk' = PromotedPayload
  /\ mem' = [mem EXCEPT !.job = "head"]
  /\ UNCHANGED <<spool, accepted, cause>>

(* ... and replaces the chain head, after which the segment is forgotten. *)
SealHead ==
  /\ mem.job = "head"
  /\ disk' = ReplacedHead
  /\ mem' = [mem EXCEPT !.job = IF mem.next = 0 THEN "idle" ELSE "create",
                        !.active = FALSE, !.settle = FALSE]
  /\ UNCHANGED <<spool, accepted, cause>>

(* _trip_read_only: the intent, then the marker, then the intent is removed. *)
TripIntent ==
  /\ mem.job = "intent"
  /\ disk' = [disk EXCEPT !.health = "intent"]
  /\ mem' = [mem EXCEPT !.job = "fence"]
  /\ UNCHANGED <<spool, accepted, cause>>

TripFence ==
  /\ mem.job = "fence"
  /\ disk' = [disk EXCEPT !.health = "fenced"]
  /\ mem' = [mem EXCEPT !.job = "idle"]
  /\ UNCHANGED <<spool, accepted, cause>>

Trip == mem' = [mem EXCEPT !.readonly = TRUE, !.job = "intent", !.next = 0]

(* A signed event that contradicts the evidence: accept fences the root. *)
ConflictingEvent ==
  /\ Writable
  /\ mem.last > 0
  /\ Trip
  /\ cause' = cause \cup {"conflict"}
  /\ UNCHANGED <<disk, spool, accepted>>

-----------------------------------------------------------------------------
(* I/O errors inside an operation, and the crash of the process.            *)

(* A frame write that fails leaves nothing, a torn frame or the frame. *)
WriteFails ==
  /\ mem.job = "write"
  /\ mem.fd
  /\ \E d \in {disk, [disk EXCEPT !.torn = TRUE],
               [disk EXCEPT !.open = @ \cup {mem.next}]} : disk' = d
  /\ mem' = [mem EXCEPT !.job = "idle", !.next = 0, !.uncertain = TRUE,
                        !.fd = FALSE]
  /\ UNCHANGED <<spool, accepted, cause>>

(* A temporary that cannot be written is removed and the operation fails;   *)
(* an active segment closed for a flush has then lost its descriptor.       *)
TemporaryFails ==
  /\ mem.job \in {"create", "seal", "head"}
  /\ mem' = [mem EXCEPT !.job = "idle", !.next = 0, !.fd = FALSE]
  /\ UNCHANGED <<disk, spool, accepted, cause>>

(* An error while a name is published or an authenticated file re-read is   *)
(* an uncertain namespace: whether or not the name appeared, the root is    *)
(* fenced.                                                                  *)
NamespaceFails ==
  /\ mem.job \in {"create", "seal", "promote", "head"}
  /\ disk' \in {disk, CASE mem.job = "create" -> CreatedOpen
                        [] mem.job = "seal" -> PublishedManifest
                        [] mem.job = "promote" -> PromotedPayload
                        [] mem.job = "head" -> ReplacedHead}
  /\ mem' = [mem EXCEPT !.readonly = TRUE, !.job = "intent", !.next = 0,
                        !.fd = FALSE, !.uncertain = (mem.job = "create")]
  /\ cause' = cause \cup {"namespace"}
  /\ UNCHANGED <<spool, accepted>>

(* What an interrupted process leaves: a frame write may be torn or         *)
(* complete, a publication may leave its temporary.                         *)
AfterCrash ==
  LET torn == [disk EXCEPT !.torn = TRUE]
      full == [disk EXCEPT !.open = @ \cup {mem.next}]
  IN  {disk}
      \cup (IF mem.job = "write" /\ mem.fd THEN {torn, full} ELSE {})
      \cup (IF mem.job \in {"create", "seal", "head"}
            THEN {[disk EXCEPT !.litter = TRUE]} ELSE {})

Crash ==
  /\ mem.state # "down"
  /\ disk' \in AfterCrash
  /\ mem' = Down
  /\ UNCHANGED <<spool, accepted, cause>>

(* Storage damage found by the next scan. *)
Damage ==
  /\ mem.state = "down"
  /\ ~disk.damaged
  /\ disk' = [disk EXCEPT !.damaged = TRUE]
  /\ cause' = cause \cup {"damage"}
  /\ UNCHANGED <<mem, spool, accepted>>
=============================================================================
