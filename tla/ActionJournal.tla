---------------------------- MODULE ActionJournal ----------------------------
(***************************************************************************)
(* The actuator's action journal (host/actuatord/journal.go,                *)
(* apply_journal.go and the append half of approval.go): an append-only     *)
(* file of signed records, the maps the process keeps in step with it, the  *)
(* bound on records and bytes with the reservation that keeps room for the  *)
(* rest of every admitted plan's life, and the replay that rebuilds the     *)
(* maps after a crash.                                                      *)
(*                                                                          *)
(* An intent is prepared at most once, so a plan is named by its intent.    *)
(* Hashes are abstracted to what the code compares: the digest of an        *)
(* intent, and the position of a record (the chain hash journal.previous    *)
(* names exactly the last record).                                          *)
(***************************************************************************)
EXTENDS ActionLifecycle, Sequences, FiniteSets

CONSTANTS
    Intents,      \* intent identifiers
    Digests,      \* canonical intent digests
    NoDigest,     \* no reservation yet
    MaxRecords,   \* actionJournalMaxRecords
    MaxFrame,     \* actionJournalMaxFrame + actionFrameOverhead, in bytes
    MaxBytes      \* actionJournalMaxBytes

ASSUME JournalConstants ==
    /\ IsFiniteSet(Intents)
    /\ NoDigest \notin Digests
    /\ MaxRecords \in Nat
    /\ MaxFrame \in Nat \ {0}
    /\ MaxBytes \in Nat

VARIABLES
    log,      \* the complete frames on disk
    after,    \* after[n + 1]: the maps the first n frames stand for (history)
    mem,      \* the maps of the running process
    status,   \* "closed", "recovering", "open", "failed" or "corrupt"
    pos       \* frames replayed so far

vars == <<log, after, mem, status, pos>>

Records == [type : {"reserve", "attempt", "action"}, intent : Intents, sha : Digests,
            state : PlanStates, size : 1..MaxFrame]

Maps == [sha : [Intents -> Digests \cup {NoDigest}],   \* reservations[i].IntentSHA256
         at : [Intents -> Nat],                        \* position of that reservation
         state : [Intents -> PlanStates],              \* byPlan and outcomes
         attempts : SUBSET Intents,
         count : Nat,
         bytes : Nat]

EmptyMaps == [sha |-> [i \in Intents |-> NoDigest], at |-> [i \in Intents |-> 0],
              state |-> [i \in Intents |-> "none"], attempts |-> {},
              count |-> 0, bytes |-> 0]

Init ==
    /\ log = << >>
    /\ after = <<EmptyMaps>>
    /\ mem = EmptyMaps
    /\ status = "closed"
    /\ pos = 0

-----------------------------------------------------------------------------
(* What one record does to the maps, and what replay demands of it.         *)

ApplyRecord(m, r) ==
    [sha |-> IF r.type = "reserve" THEN [m.sha EXCEPT ![r.intent] = r.sha] ELSE m.sha,
     at |-> IF r.type = "reserve" THEN [m.at EXCEPT ![r.intent] = m.count + 1] ELSE m.at,
     state |-> IF r.type = "action" THEN [m.state EXCEPT ![r.intent] = r.state] ELSE m.state,
     attempts |-> IF r.type = "attempt" THEN m.attempts \cup {r.intent} ELSE m.attempts,
     count |-> m.count + 1,
     bytes |-> m.bytes + r.size]

ValidReservation(m, r) ==
    /\ m.state[r.intent] = "none"
    /\ m.at[r.intent] = 0 \/ m.sha[r.intent] = r.sha

\* The reservation must be the record immediately before PREPARED.
ValidPrepared(m, r) ==
    /\ m.at[r.intent] # 0
    /\ m.sha[r.intent] = r.sha
    /\ m.at[r.intent] = m.count
    /\ m.state[r.intent] = "none"

ValidApplyAttempt(m, r) ==
    /\ m.state[r.intent] = "APPROVED"
    /\ r.intent \notin m.attempts

ValidOutcome(m, r) ==
    \/ m.state[r.intent] = "PREPARED" /\ r.state \in DecisionStates
    \/ LifecycleTransitionAllowed(m.state[r.intent], r.intent \in m.attempts, r.state)

ReplayAccepts(m, r) ==
    /\ m.count < MaxRecords
    /\ \/ r.type = "reserve" /\ ValidReservation(m, r)
       \/ r.type = "attempt" /\ ValidApplyAttempt(m, r)
       \/ r.type = "action" /\ r.state = "PREPARED" /\ ValidPrepared(m, r)
       \/ r.type = "action" /\ r.state # "PREPARED" /\ ValidOutcome(m, r)

-----------------------------------------------------------------------------
(* Reserved capacity.                                                       *)

FutureFrames(m, i) == LifecycleFutureFrames(m.state[i], i \in m.attempts)

\* Mutation: only the plans that await a decision are budgeted.
OwedFramesUndecided(m) ==
    UNION {{i} \X (1..FutureFrames(m, i)) : i \in {j \in Intents : m.state[j] = "PREPARED"}}

\* One element for each frame some admitted plan may still need.
OwedFrames(m) == UNION {{i} \X (1..FutureFrames(m, i)) : i \in Intents}

FutureFrameBudget(m) == Cardinality(OwedFrames(m))

EnsureTransitionCapacity(m, i, size, newPlanBudget) ==
    LET newTotal == (FutureFrameBudget(m) - FutureFrames(m, i)) + newPlanBudget
    IN  /\ m.count + 1 + newTotal <= MaxRecords
        /\ size + newTotal * MaxFrame <= MaxBytes - m.bytes

ReserveCapacity(m, size) ==
    /\ m.count + FutureFrameBudget(m) + 2 + MaxLifecycleFramesPerPlan <= MaxRecords
    /\ size + (FutureFrameBudget(m) + 1 + MaxLifecycleFramesPerPlan) * MaxFrame
          <= MaxBytes - m.bytes

PreparedCapacity(m, size) ==
    /\ m.count + FutureFrameBudget(m) + 1 + MaxLifecycleFramesPerPlan <= MaxRecords
    /\ size + (FutureFrameBudget(m) + MaxLifecycleFramesPerPlan) * MaxFrame
          <= MaxBytes - m.bytes

ValidateRecoveredCapacity(m) ==
    /\ m.count + FutureFrameBudget(m) <= MaxRecords
    /\ m.bytes + FutureFrameBudget(m) * MaxFrame <= MaxBytes

-----------------------------------------------------------------------------
(* Appending.  A write or fsync that fails poisons the journal until it is  *)
(* reopened; the frame may nevertheless be complete on disk.                *)

\* Mutation: a failed fsync does not poison the journal.
AppendFrameNotPoisoned(r) ==
    /\ UNCHANGED <<pos, status>>
    /\ log' = Append(log, r)
    /\ after' = Append(after, ApplyRecord(mem, r))
    /\ mem' \in {mem, ApplyRecord(mem, r)}

AppendFrame(r) ==
    /\ UNCHANGED pos
    /\ \/ /\ log' = Append(log, r)
          /\ after' = Append(after, ApplyRecord(mem, r))
          /\ mem' = ApplyRecord(mem, r)
          /\ UNCHANGED status
       \/ /\ status' = "failed"
          /\ log' = Append(log, r)
          /\ after' = Append(after, ApplyRecord(mem, r))
          /\ UNCHANGED mem
       \/ /\ status' = "failed"
          /\ UNCHANGED <<log, after, mem>>

MutationLocked(m) ==
    \E i \in Intents : m.state[i] = "FAILED_DIRTY" \/ InFlight(m.state[i], i \in m.attempts)

\* Prepare: an intent that is already prepared returns its plan, and the digest of
\* an intent never changes; otherwise a token is made durable first.
ReserveIntent(i, d, size) ==
    /\ status = "open"
    /\ ~MutationLocked(mem)
    /\ mem.state[i] = "none"
    /\ mem.at[i] = 0 \/ mem.sha[i] = d
    /\ ReserveCapacity(mem, size)
    /\ AppendFrame([type |-> "reserve", intent |-> i, sha |-> d, state |-> "none", size |-> size])

\* Mutation: PREPARED may follow any reservation, not only the last record.
AppendPreparedAnyReservation(i, d, size) ==
    /\ status = "open"
    /\ mem.state[i] = "none"
    /\ mem.at[i] # 0 /\ mem.sha[i] = d
    /\ PreparedCapacity(mem, size)
    /\ AppendFrame([type |-> "action", intent |-> i, sha |-> d, state |-> "PREPARED", size |-> size])

AppendPrepared(i, d, size) ==
    /\ status = "open"
    /\ mem.state[i] = "none"
    /\ mem.at[i] # 0 /\ mem.sha[i] = d /\ mem.at[i] = mem.count
    /\ PreparedCapacity(mem, size)
    /\ AppendFrame([type |-> "action", intent |-> i, sha |-> d, state |-> "PREPARED", size |-> size])

AppendDecision(i, s, size) ==
    /\ status = "open"
    /\ mem.state[i] = "PREPARED"
    /\ EnsureTransitionCapacity(mem, i, size, LifecycleFutureFrames(s, FALSE))
    /\ AppendFrame([type |-> "action", intent |-> i, sha |-> mem.sha[i], state |-> s, size |-> size])

AppendApplyAttempt(i, size) ==
    /\ status = "open"
    /\ ~MutationLocked(mem)
    /\ mem.state[i] = "APPROVED"
    /\ i \notin mem.attempts
    /\ EnsureTransitionCapacity(mem, i, size, LifecycleFutureFrames("APPROVED", TRUE))
    /\ AppendFrame([type |-> "attempt", intent |-> i, sha |-> mem.sha[i],
                    state |-> "APPROVED", size |-> size])

AppendLifecycle(i, s, size) ==
    /\ status = "open"
    /\ LifecycleTransitionAllowed(mem.state[i], i \in mem.attempts, s)
    /\ EnsureTransitionCapacity(mem, i, size, LifecycleFutureFrames(s, i \in mem.attempts))
    /\ AppendFrame([type |-> "action", intent |-> i, sha |-> mem.sha[i], state |-> s, size |-> size])

-----------------------------------------------------------------------------
(* Opening.  Replay takes one frame at a time, as the loop of               *)
(* recoverPreparedStates does; a crash may interrupt it.                    *)

Open ==
    /\ status = "closed"
    /\ status' = "recovering"
    /\ mem' = EmptyMaps
    /\ pos' = 0
    /\ UNCHANGED <<log, after>>

RecoverRecord ==
    /\ status = "recovering"
    /\ pos < Len(log)
    /\ IF ReplayAccepts(mem, log[pos + 1])
       THEN mem' = ApplyRecord(mem, log[pos + 1]) /\ pos' = pos + 1 /\ UNCHANGED status
       ELSE status' = "corrupt" /\ UNCHANGED <<mem, pos>>
    /\ UNCHANGED <<log, after>>

RecoverDone ==
    /\ status = "recovering"
    /\ pos = Len(log)
    /\ status' = IF ValidateRecoveredCapacity(mem) THEN "open" ELSE "corrupt"
    /\ UNCHANGED <<log, after, mem, pos>>

\* A crash at any point, or an orderly close.
Stop ==
    /\ status \in {"recovering", "open", "failed"}
    /\ status' = "closed"
    /\ UNCHANGED <<log, after, mem, pos>>

Next ==
    \/ \E i \in Intents, size \in 1..MaxFrame :
          \/ \E d \in Digests : ReserveIntent(i, d, size) \/ AppendPrepared(i, d, size)
          \/ \E s \in DecisionStates : AppendDecision(i, s, size)
          \/ AppendApplyAttempt(i, size)
          \/ \E s \in PlanStates : AppendLifecycle(i, s, size)
    \/ Open
    \/ RecoverRecord
    \/ RecoverDone
    \/ Stop

Spec == Init /\ [][Next]_vars

-----------------------------------------------------------------------------
(* Properties.                                                              *)

\* Every variable keeps its type: the maps the code declares in actionJournal.
TypeOK ==
    /\ log \in Seq(Records)
    /\ after \in Seq(Maps)
    /\ mem \in Maps
    /\ status \in {"closed", "recovering", "open", "failed", "corrupt"}
    /\ pos \in 0..Len(log)

\* Whatever the service wrote and wherever a crash or a failed fsync stopped it, the
\* journal opens again: recoverPreparedStates rejects no record the append functions
\* wrote, and validateRecoveredCapacity finds the reserved room still there.
NeverCorrupt == status # "corrupt"

\* While the journal accepts appends, the maps of the process are exactly what a
\* replay of the file yields, whether they were built by appending or by recovery.
MapsMatchLog ==
    status = "open" => mem = after[Len(log) + 1]

\* ErrPendingLimit never stops an admitted plan: whichever record the lifecycle
\* table allows next, of whatever size, ensureTransitionCapacity has room for it.
\* So an applied deny can always be recorded as verified, expired or dirty.
AdmittedPlanNeverStarved ==
    status = "open" =>
        \A i \in Intents :
            /\ mem.state[i] = "PREPARED" =>
                  \A s \in DecisionStates :
                      EnsureTransitionCapacity(mem, i, MaxFrame, LifecycleFutureFrames(s, FALSE))
            /\ (mem.state[i] = "APPROVED" /\ i \notin mem.attempts) =>
                  EnsureTransitionCapacity(mem, i, MaxFrame, LifecycleFutureFrames("APPROVED", TRUE))
            /\ \A s \in PlanStates :
                  LifecycleTransitionAllowed(mem.state[i], i \in mem.attempts, s) =>
                      EnsureTransitionCapacity(mem, i, MaxFrame,
                                               LifecycleFutureFrames(s, i \in mem.attempts))

\* One plan between two states of the file: a terminal state and an attempt stay,
\* the intent of a known plan keeps its digest, and PREPARED is never entered again.
PlanForward(was, now, i) ==
    /\ was.state[i] \in TerminalStates => now.state[i] = was.state[i]
    /\ i \in was.attempts => i \in now.attempts
    /\ was.state[i] # "none" => now.state[i] # "none" /\ now.sha[i] = was.sha[i]
    /\ now.state[i] = "PREPARED" /\ was.state[i] # "PREPARED" => was.state[i] = "none"

\* What is durable about a plan only moves forward: a plan never leaves a terminal
\* state, never loses its attempt, and is never prepared twice, in any number of
\* restarts.
DurableForward ==
    [][\A i \in Intents : PlanForward(after[Len(after)], after'[Len(after')], i)]_vars

-----------------------------------------------------------------------------
(* The Core reads the same file.                                            *)

Core == INSTANCE ActuatorRecords

\* What the maps the file stands for say of an intent, in the words of Core's mirror.
JournalState(m, i) == IF m.state[i] = "none" /\ m.at[i] # 0 THEN "RESERVED" ELSE m.state[i]

\* Core's mirror verifies every journal the actuator can write, after any crash or
\* failed append, and reads from it the state of every intent that the actuator's own
\* replay does: ActuatorRecordProjection, written apart from the Go code, refuses no
\* record of it, which would make the mirror read-only for good.
MirrorVerifies ==
    LET read == Core!Verified(Core!EmptyProjection, log)
    IN  /\ read.ok
        /\ \A i \in Intents : Core!IntentState(read.p, i) = JournalState(after[Len(after)], i)
=============================================================================
