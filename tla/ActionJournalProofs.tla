------------------------ MODULE ActionJournalProofs ------------------------
(***************************************************************************)
(* Proofs about the action journal, for every set of intents and every      *)
(* bound on records, frame size and bytes.                                  *)
(*                                                                          *)
(* NeverCorrupt and MapsMatchLog speak of the replay of a whole file.  The  *)
(* history variable after turns that into induction over behaviours: the    *)
(* invariant says that after[n + 1] is after[n] with record n applied, and  *)
(* that replay accepts record n there, so replaying one more frame of a     *)
(* recovery moves from after[pos + 1] to after[pos + 2].                    *)
(***************************************************************************)
EXTENDS ActionJournal, FiniteSetTheorems, SequenceTheorems, TLAPS

-----------------------------------------------------------------------------
(* The inductive invariant.                                                 *)

\* The durable maps: those the complete file stands for.
Durable == after[Len(log) + 1]

\* Each frame on disk was acceptable where it was written.
HistoryOK ==
    /\ Len(after) = Len(log) + 1
    /\ after[1] = EmptyMaps
    /\ \A n \in 1..Len(log) :
          /\ after[n + 1] = ApplyRecord(after[n], log[n])
          /\ ReplayAccepts(after[n], log[n])

\* A running recovery has rebuilt the maps of the prefix it has read.
RecoveryOK == status = "recovering" => mem = after[pos + 1]

\* The reserved capacity is there in the file itself, not only in the process.
CapacityOK == ValidateRecoveredCapacity(Durable)

\* A plan the journal knows has the digest of its intent, and only a decided plan
\* has an attempt.
PlansOK(m) == \A i \in Intents :
    /\ m.at[i] # 0 \/ m.state[i] # "none" => m.sha[i] \in Digests
    /\ i \in m.attempts => m.state[i] \notin {"none", "PREPARED"}

IInv == TypeOK /\ HistoryOK /\ MapsMatchLog /\ RecoveryOK /\ CapacityOK /\ PlansOK(Durable) /\ NeverCorrupt

-----------------------------------------------------------------------------
(* The budget.                                                              *)

\* A plan owes between no and six frames.
LEMMA FutureFramesType ==
    ASSUME NEW m \in Maps, NEW i \in Intents
    PROVE  FutureFrames(m, i) \in 0..6
  BY DEF FutureFrames, LifecycleFutureFrames, MaxLifecycleFramesPerPlan

\* The owed frames are a finite set, so the budget is a number.
LEMMA OwedFramesFinite ==
    ASSUME NEW m \in Maps
    PROVE  /\ IsFiniteSet(OwedFrames(m))
           /\ FutureFrameBudget(m) \in Nat
<1>1. OwedFrames(m) \subseteq Intents \X (1..6)
  <2>1. \A i \in Intents : FutureFrames(m, i) \in 0..6
    BY FutureFramesType
  <2>. QED BY <2>1 DEF OwedFrames
<1>2. IsFiniteSet(1..6)
  <2>1. 1 \in Int /\ 6 \in Int
    OBVIOUS
  <2>. QED BY Zenon, <2>1, FS_Interval
<1>3. IsFiniteSet(Intents \X (1..6))
  BY <1>2, FS_Product, JournalConstants
<1>4. IsFiniteSet(OwedFrames(m))
  BY <1>1, <1>3, FS_Subset
<1>. QED BY <1>4, FS_CardinalityType DEF FutureFrameBudget

\* Disjoint finite sets add up.
LEMMA DisjointCardinality ==
    ASSUME NEW S, NEW T, IsFiniteSet(S), IsFiniteSet(T), S \cap T = {}
    PROVE  Cardinality(S \cup T) = Cardinality(S) + Cardinality(T)
<1>1. Cardinality(S \cup T) = Cardinality(S) + Cardinality(T) - Cardinality(S \cap T)
  BY FS_Union
<1>2. Cardinality(S \cap T) = 0
  BY FS_EmptySet
<1>3. Cardinality(S) \in Nat /\ Cardinality(T) \in Nat
  BY FS_CardinalityType
<1>. QED BY <1>1, <1>2, <1>3

\* The budget is what plan i owes plus what the others owe.
LEMMA BudgetSplit ==
    ASSUME NEW m \in Maps, NEW i \in Intents
    PROVE  LET rest == UNION {{k} \X (1..FutureFrames(m, k)) : k \in Intents \ {i}}
           IN  /\ Cardinality(rest) \in Nat
               /\ FutureFrameBudget(m) = Cardinality(rest) + FutureFrames(m, i)
<1>. DEFINE own == {i} \X (1..FutureFrames(m, i))
            rest == UNION {{k} \X (1..FutureFrames(m, k)) : k \in Intents \ {i}}
<1>1. /\ OwedFrames(m) = own \cup rest
      /\ own \cap rest = {}
  BY DEF OwedFrames
<1>2. FutureFrames(m, i) \in Nat
  BY FutureFramesType
<1>3. IsFiniteSet(own) /\ Cardinality(own) = FutureFrames(m, i)
  <2>1. /\ IsFiniteSet(1..FutureFrames(m, i))
        /\ Cardinality(1..FutureFrames(m, i)) = FutureFrames(m, i)
    BY <1>2, FS_Interval
  <2>2. IsFiniteSet({i}) /\ Cardinality({i}) = 1
    BY Zenon, FS_Singleton
  <2>3. /\ IsFiniteSet(own)
        /\ Cardinality(own) = Cardinality({i}) * Cardinality(1..FutureFrames(m, i))
    BY <2>1, <2>2, FS_Product, Zenon
  <2>. HIDE DEF own
  <2>. QED BY <2>1, <2>2, <2>3, <1>2
<1>4. IsFiniteSet(rest) /\ Cardinality(rest) \in Nat
  <2>1. rest \in SUBSET OwedFrames(m)
    BY <1>1
  <2>. QED BY <2>1, OwedFramesFinite, FS_Subset, FS_CardinalityType
<1>. HIDE DEF own, rest
<1>5. Cardinality(own \cup rest) = Cardinality(own) + Cardinality(rest)
  BY <1>1, <1>3, <1>4, DisjointCardinality
<1>6. FutureFrameBudget(m) = Cardinality(rest) + FutureFrames(m, i)
  BY <1>1, <1>2, <1>3, <1>4, <1>5 DEF FutureFrameBudget
<1>. QED BY <1>4, <1>6 DEF rest

\* A record about plan i changes the budget by the change in what i owes: the
\* arithmetic of ensureTransitionCapacity is that of futureFrameBudget.
LEMMA BudgetChange ==
    ASSUME NEW m \in Maps, NEW m2 \in Maps, NEW i \in Intents,
           \A k \in Intents \ {i} : FutureFrames(m2, k) = FutureFrames(m, k)
    PROVE  FutureFrameBudget(m2) = (FutureFrameBudget(m) - FutureFrames(m, i)) + FutureFrames(m2, i)
<1>. DEFINE rest(x) == UNION {{k} \X (1..FutureFrames(x, k)) : k \in Intents \ {i}}
<1>1. rest(m) = rest(m2)
  OBVIOUS
<1>2. /\ Cardinality(rest(m)) \in Nat
      /\ FutureFrameBudget(m) = Cardinality(rest(m)) + FutureFrames(m, i)
  BY BudgetSplit
<1>3. FutureFrameBudget(m2) = Cardinality(rest(m2)) + FutureFrames(m2, i)
  BY BudgetSplit
<1>4. FutureFrames(m, i) \in Nat /\ FutureFrames(m2, i) \in Nat
  BY FutureFramesType
<1>. HIDE DEF rest
<1>. QED BY <1>1, <1>2, <1>3, <1>4

\* Nothing is owed for an empty journal.
LEMMA EmptyMapsCapacity ==
    EmptyMaps \in Maps /\ ValidateRecoveredCapacity(EmptyMaps)
<1>1. EmptyMaps \in Maps
  BY DEF EmptyMaps, Maps, PlanStates
<1>2. \A i \in Intents : FutureFrames(EmptyMaps, i) = 0
  BY DEF FutureFrames, LifecycleFutureFrames, EmptyMaps
<1>3. OwedFrames(EmptyMaps) = {}
  BY <1>2 DEF OwedFrames
<1>4. FutureFrameBudget(EmptyMaps) = 0
  BY <1>3, FS_EmptySet DEF FutureFrameBudget
<1>. QED BY <1>1, <1>4, JournalConstants DEF ValidateRecoveredCapacity, EmptyMaps

-----------------------------------------------------------------------------
(* One record.                                                              *)

\* A record keeps the maps well typed.
LEMMA ApplyRecordType ==
    ASSUME NEW m \in Maps, NEW r \in Records
    PROVE  ApplyRecord(m, r) \in Maps
<1>1. m.count + 1 \in Nat /\ m.bytes + r.size \in Nat
  BY JournalConstants DEF Maps, Records
<1>. QED BY <1>1 DEF ApplyRecord, Maps, Records

\* A record concerns its own plan only.
LEMMA ApplyRecordOthers ==
    ASSUME NEW m \in Maps, NEW r \in Records, NEW k \in Intents \ {r.intent}
    PROVE  LET m2 == ApplyRecord(m, r)
           IN  /\ m2.state[k] = m.state[k] /\ m2.sha[k] = m.sha[k] /\ m2.at[k] = m.at[k]
               /\ k \in m2.attempts <=> k \in m.attempts
               /\ FutureFrames(m2, k) = FutureFrames(m, k)
<1>1. LET m2 == ApplyRecord(m, r)
      IN  /\ m2.state[k] = m.state[k] /\ m2.sha[k] = m.sha[k] /\ m2.at[k] = m.at[k]
          /\ (k \in m2.attempts) = (k \in m.attempts)
  BY DEF ApplyRecord, Maps, Records
<1>. QED BY <1>1 DEF FutureFrames

\* ensureTransitionCapacity is exactly what a later recovery will demand.
LEMMA TransitionCapacity ==
    ASSUME NEW m \in Maps, NEW r \in Records,
           EnsureTransitionCapacity(m, r.intent, r.size,
                                    FutureFrames(ApplyRecord(m, r), r.intent))
    PROVE  ValidateRecoveredCapacity(ApplyRecord(m, r))
<1>. DEFINE m2 == ApplyRecord(m, r)
<1>1. m2 \in Maps /\ r.intent \in Intents /\ r.size \in Nat
  BY ApplyRecordType, JournalConstants DEF Records
<1>2. \A k \in Intents \ {r.intent} : FutureFrames(m2, k) = FutureFrames(m, k)
  BY ApplyRecordOthers
<1>3. m2.count = m.count + 1 /\ m2.bytes = m.bytes + r.size
  BY DEF ApplyRecord
<1>. HIDE DEF m2
<1>4. FutureFrameBudget(m2)
         = (FutureFrameBudget(m) - FutureFrames(m, r.intent)) + FutureFrames(m2, r.intent)
  BY <1>1, <1>2, BudgetChange
<1>5. /\ m.count + 1 + FutureFrameBudget(m2) <= MaxRecords
      /\ r.size + FutureFrameBudget(m2) * MaxFrame <= MaxBytes - m.bytes
  BY <1>4 DEF EnsureTransitionCapacity, m2
<1>6. m.count \in Nat /\ m.bytes \in Nat /\ FutureFrameBudget(m2) \in Nat
  BY <1>1, OwedFramesFinite DEF Maps
<1>7. FutureFrameBudget(m2) * MaxFrame \in Nat
  BY <1>6, JournalConstants
<1>8. ValidateRecoveredCapacity(m2)
  BY <1>1, <1>3, <1>5, <1>6, <1>7, JournalConstants DEF ValidateRecoveredCapacity
<1>. QED BY <1>8 DEF m2

\* A transition with room has room for its own record.
LEMMA TransitionRoom ==
    ASSUME NEW m \in Maps, NEW i \in Intents, NEW size, NEW f \in Nat,
           EnsureTransitionCapacity(m, i, size, f)
    PROVE  m.count < MaxRecords
<1>. DEFINE c == Cardinality(UNION {{k} \X (1..FutureFrames(m, k)) : k \in Intents \ {i}})
<1>1. c \in Nat /\ FutureFrameBudget(m) = c + FutureFrames(m, i)
  BY BudgetSplit
<1>. HIDE DEF c
<1>2. FutureFrames(m, i) \in Nat /\ m.count \in Nat
  BY FutureFramesType DEF Maps
<1>3. (FutureFrameBudget(m) - FutureFrames(m, i)) + f \in Nat
  BY <1>1, <1>2
<1>4. m.count + 1 + ((FutureFrameBudget(m) - FutureFrames(m, i)) + f) <= MaxRecords
  BY DEF EnsureTransitionCapacity
<1>. QED BY <1>2, <1>3, <1>4, JournalConstants

\* A reservation adds no debt.
LEMMA ReservationCapacity ==
    ASSUME NEW m \in Maps, NEW r \in Records, r.type = "reserve", ReserveCapacity(m, r.size)
    PROVE  ValidateRecoveredCapacity(ApplyRecord(m, r))
<1>. DEFINE m2 == ApplyRecord(m, r)
            B == FutureFrameBudget(m)
<1>1. m2 \in Maps /\ r.size \in Nat
  BY ApplyRecordType, JournalConstants DEF Records
<1>2. m2.count = m.count + 1 /\ m2.bytes = m.bytes + r.size
  BY DEF ApplyRecord
<1>3. \A k \in Intents : FutureFrames(m2, k) = FutureFrames(m, k)
  BY DEF FutureFrames, ApplyRecord
<1>. HIDE DEF m2
<1>4. FutureFrameBudget(m2) = B
  BY <1>3 DEF FutureFrameBudget, OwedFrames
<1>5. m.count \in Nat /\ m.bytes \in Nat /\ B \in Nat
  BY OwedFramesFinite DEF Maps
<1>6. /\ m.count + B + 2 + 6 <= MaxRecords
      /\ r.size + (B + 1 + 6) * MaxFrame <= MaxBytes - m.bytes
  BY DEF ReserveCapacity, MaxLifecycleFramesPerPlan
<1>. HIDE DEF B
<1>7. (B + 1 + 6) * MaxFrame = B * MaxFrame + 7 * MaxFrame /\ B * MaxFrame \in Nat
  BY <1>5, JournalConstants
<1>8. ValidateRecoveredCapacity(m2)
  BY <1>1, <1>2, <1>4, <1>5, <1>6, <1>7, JournalConstants DEF ValidateRecoveredCapacity
<1>. QED BY <1>8 DEF m2

\* PREPARED takes on the debt of a whole lifecycle, for which there is room.
LEMMA PreparedAddsLifecycle ==
    ASSUME NEW m \in Maps, NEW r \in Records, r.type = "action", r.state = "PREPARED",
           m.state[r.intent] = "none", PreparedCapacity(m, r.size)
    PROVE  ValidateRecoveredCapacity(ApplyRecord(m, r))
<1>. DEFINE m2 == ApplyRecord(m, r)
<1>1. /\ FutureFrames(m, r.intent) = 0
      /\ FutureFrames(m2, r.intent) = MaxLifecycleFramesPerPlan
  BY DEF FutureFrames, LifecycleFutureFrames, ApplyRecord, Maps, Records
<1>2. FutureFrameBudget(m) \in Nat /\ m.count \in Nat /\ m.bytes \in Nat
  BY OwedFramesFinite DEF Maps
<1>. HIDE DEF m2
<1>3. (FutureFrameBudget(m) - FutureFrames(m, r.intent)) + FutureFrames(m2, r.intent)
         = FutureFrameBudget(m) + MaxLifecycleFramesPerPlan
  BY <1>1, <1>2 DEF MaxLifecycleFramesPerPlan
<1>4. EnsureTransitionCapacity(m, r.intent, r.size, FutureFrames(m2, r.intent))
  BY <1>2, <1>3, JournalConstants
  DEF EnsureTransitionCapacity, PreparedCapacity, MaxLifecycleFramesPerPlan
<1>. QED BY <1>4, TransitionCapacity DEF m2

-----------------------------------------------------------------------------
(* Appending preserves the invariant.                                       *)

\* A record replay accepts keeps the plans sane.
LEMMA PlansKept ==
    ASSUME NEW m \in Maps, NEW r \in Records, ReplayAccepts(m, r), PlansOK(m)
    PROVE  PlansOK(ApplyRecord(m, r))
<1>. DEFINE m2 == ApplyRecord(m, r)
<1>. SUFFICES ASSUME NEW i \in Intents
              PROVE  /\ m2.at[i] # 0 \/ m2.state[i] # "none" => m2.sha[i] \in Digests
                     /\ i \in m2.attempts => m2.state[i] \notin {"none", "PREPARED"}
  BY DEF PlansOK
<1>1. CASE i # r.intent
  BY <1>1, ApplyRecordOthers DEF PlansOK
<1>2. CASE i = r.intent /\ r.type = "reserve"
  BY <1>2 DEF ApplyRecord, Maps, Records, PlansOK, ReplayAccepts, ValidReservation
<1>3. CASE i = r.intent /\ r.type = "attempt"
  BY <1>3 DEF ApplyRecord, Maps, Records, PlansOK, ReplayAccepts, ValidApplyAttempt
<1>4. CASE i = r.intent /\ r.type = "action"
  <2>1. m.at[i] # 0 \/ m.state[i] # "none"
    BY <1>4 DEF ReplayAccepts, ValidPrepared, ValidOutcome, LifecycleTransitionAllowed
  <2>2. i \in m.attempts => r.state \notin {"none", "PREPARED"}
    BY <1>4 DEF ReplayAccepts, ValidPrepared, ValidOutcome, LifecycleTransitionAllowed, PlansOK,
                DecisionStates
  <2>. QED BY <1>4, <2>1, <2>2 DEF ApplyRecord, Maps, Records, PlansOK
<1>. QED BY <1>1, <1>2, <1>3, <1>4 DEF Records

\* An accepted record that leaves the reserved room keeps the invariant, whether
\* its append succeeds, fails with the frame on disk, or fails without it.
LEMMA AppendKeepsInvariant ==
    ASSUME IInv, status = "open", NEW r \in Records, ReplayAccepts(mem, r),
           ValidateRecoveredCapacity(ApplyRecord(mem, r)), AppendFrame(r)
    PROVE  IInv'
<1>. DEFINE m2 == ApplyRecord(mem, r)
<1>1. /\ mem \in Maps /\ m2 \in Maps
      /\ log \in Seq(Records) /\ after \in Seq(Maps)
      /\ Len(log) \in Nat /\ Len(after) = Len(log) + 1
      /\ mem = after[Len(log) + 1]
  BY ApplyRecordType DEF IInv, TypeOK, HistoryOK, MapsMatchLog
<1>2. CASE log' = Append(log, r) /\ after' = Append(after, m2)
  <2>1. /\ log' \in Seq(Records) /\ after' \in Seq(Maps)
        /\ Len(log') = Len(log) + 1 /\ Len(after') = Len(log') + 1
        /\ log'[Len(log')] = r /\ after'[Len(after')] = m2
        /\ \A n \in 1..Len(log) : log'[n] = log[n]
        /\ \A n \in 1..Len(after) : after'[n] = after[n]
    BY <1>1, <1>2
  <2>2. /\ \/ mem' = m2 /\ status' = "open"
           \/ mem' = mem /\ status' = "failed"
        /\ pos' = pos
    <3>. HIDE DEF m2
    <3>1. m2 = ApplyRecord(mem, r)
      BY DEF m2
    <3>2. Append(log, r) # log
      BY <1>1
    <3>. QED BY <1>2, <3>1, <3>2 DEF AppendFrame
  <2>3. TypeOK'
    BY <1>1, <2>1, <2>2 DEF TypeOK, IInv
  <2>4. HistoryOK'
    <3>1. after'[1] = EmptyMaps
      BY <1>1, <2>1 DEF IInv, HistoryOK
    <3>2. ASSUME NEW n \in 1..Len(log')
          PROVE  after'[n + 1] = ApplyRecord(after'[n], log'[n]) /\ ReplayAccepts(after'[n], log'[n])
      <4>1. CASE n \in 1..Len(log)
        <5>1. n \in 1..Len(after) /\ n + 1 \in 1..Len(after)
          BY <1>1, <4>1
        <5>. QED BY <2>1, <4>1, <5>1 DEF IInv, HistoryOK
      <4>2. CASE n = Len(log) + 1
        <5>1. n \in 1..Len(after) /\ n = Len(log') /\ n + 1 = Len(after')
          BY <1>1, <2>1, <4>2
        <5>. QED BY <1>1, <2>1, <4>2, <5>1
      <4>. QED BY <1>1, <2>1, <4>1, <4>2
    <3>. QED BY <2>1, <3>1, <3>2 DEF HistoryOK
  <2>5. Durable' = m2
    BY <2>1 DEF Durable
  <2>6. MapsMatchLog' /\ RecoveryOK' /\ NeverCorrupt'
    BY <2>1, <2>2 DEF MapsMatchLog, RecoveryOK, NeverCorrupt
  <2>7. CapacityOK'
    BY <2>5 DEF CapacityOK
  <2>8. PlansOK(Durable)'
    <3>1. PlansOK(mem)
      BY <1>1 DEF IInv, Durable
    <3>. QED BY <1>1, <2>5, <3>1, PlansKept DEF PlansOK
  <2>. QED BY <2>3, <2>4, <2>6, <2>7, <2>8 DEF IInv
<1>3. CASE UNCHANGED <<log, after, mem, pos>> /\ status' = "failed"
  BY <1>3 DEF IInv, TypeOK, HistoryOK, MapsMatchLog, RecoveryOK, CapacityOK, PlansOK,
              Durable, NeverCorrupt
<1>. QED BY <1>2, <1>3 DEF AppendFrame

\* Every append function writes a record that replay accepts and that leaves the
\* reserved room.
LEMMA AppendsAreAccepted ==
    ASSUME IInv, NEW i \in Intents, NEW size \in 1..MaxFrame,
           \/ \E d \in Digests : ReserveIntent(i, d, size) \/ AppendPrepared(i, d, size)
           \/ \E s \in DecisionStates : AppendDecision(i, s, size)
           \/ AppendApplyAttempt(i, size)
           \/ \E s \in PlanStates : AppendLifecycle(i, s, size)
    PROVE  /\ status = "open"
           /\ \E r \in Records : /\ ReplayAccepts(mem, r)
                                 /\ ValidateRecoveredCapacity(ApplyRecord(mem, r))
                                 /\ AppendFrame(r)
<1>. DEFINE Done(r) == /\ status = "open"
                       /\ r \in Records
                       /\ ReplayAccepts(mem, r)
                       /\ ValidateRecoveredCapacity(ApplyRecord(mem, r))
                       /\ AppendFrame(r)
<1>. SUFFICES \E r : Done(r)
  OBVIOUS
<1>1. /\ mem \in Maps
      /\ status = "open" => PlansOK(mem)
      /\ FutureFrameBudget(mem) \in Nat /\ mem.count \in Nat
  <2>1. mem \in Maps
    BY DEF IInv, TypeOK
  <2>2. FutureFrameBudget(mem) \in Nat /\ mem.count \in Nat
    BY <2>1, OwedFramesFinite DEF Maps
  <2>3. status = "open" => PlansOK(mem)
    BY DEF IInv, MapsMatchLog, Durable
  <2>. QED BY <2>1, <2>2, <2>3
<1>2. ASSUME NEW d \in Digests, ReserveIntent(i, d, size)  PROVE  \E r : Done(r)
  <2>. DEFINE r == [type |-> "reserve", intent |-> i, sha |-> d, state |-> "none", size |-> size]
  <2>1. r \in Records /\ r.type = "reserve" /\ r.size = size
    BY DEF Records, PlanStates
  <2>2. status = "open" /\ AppendFrame(r)
    BY <1>2 DEF ReserveIntent
  <2>3. ReplayAccepts(mem, r)
    BY <1>1, <1>2, JournalConstants
    DEF ReserveIntent, ReplayAccepts, ValidReservation, ReserveCapacity, MaxLifecycleFramesPerPlan
  <2>4. ValidateRecoveredCapacity(ApplyRecord(mem, r))
    BY Zenon, <1>1, <1>2, <2>1, ReservationCapacity DEF ReserveIntent
  <2>. QED BY <2>1, <2>2, <2>3, <2>4
<1>3. ASSUME NEW d \in Digests, AppendPrepared(i, d, size)  PROVE  \E r : Done(r)
  <2>. DEFINE r == [type |-> "action", intent |-> i, sha |-> d, state |-> "PREPARED", size |-> size]
  <2>1. /\ r \in Records /\ r.type = "action" /\ r.state = "PREPARED"
        /\ r.intent = i /\ r.size = size
    BY DEF Records, PlanStates
  <2>2. status = "open" /\ AppendFrame(r)
    BY Zenon, <1>3 DEF AppendPrepared
  <2>3. ReplayAccepts(mem, r)
    BY <1>1, <1>3, JournalConstants
    DEF AppendPrepared, ReplayAccepts, ValidPrepared, PreparedCapacity, MaxLifecycleFramesPerPlan
  <2>4. ValidateRecoveredCapacity(ApplyRecord(mem, r))
    BY Zenon, <1>1, <1>3, <2>1, PreparedAddsLifecycle DEF AppendPrepared
  <2>. QED BY <2>1, <2>2, <2>3, <2>4
<1>4. ASSUME NEW s \in DecisionStates, AppendDecision(i, s, size)  PROVE  \E r : Done(r)
  <2>. DEFINE r == [type |-> "action", intent |-> i, sha |-> mem.sha[i], state |-> s, size |-> size]
  <2>1. /\ r \in Records /\ r.type = "action" /\ r.state = s /\ r.intent = i /\ r.size = size
    BY Zenon, <1>1, <1>4 DEF AppendDecision, Records, PlanStates, DecisionStates, PlansOK
  <2>2. status = "open" /\ AppendFrame(r)
    BY Zenon, <1>4 DEF AppendDecision
  <2>3. mem.count < MaxRecords
    <3>1. LifecycleFutureFrames(s, FALSE) \in Nat
      BY DEF LifecycleFutureFrames, DecisionStates
    <3>. QED BY Zenon, <1>1, <1>4, <3>1, TransitionRoom DEF AppendDecision
  <2>4. ReplayAccepts(mem, r)
    BY Zenon, <1>4, <2>1, <2>3 DEF AppendDecision, ReplayAccepts, ValidOutcome, DecisionStates
  <2>5. FutureFrames(ApplyRecord(mem, r), i) = LifecycleFutureFrames(s, FALSE)
    <3>1. i \notin mem.attempts
      BY Zenon, <1>1, <1>4 DEF AppendDecision, PlansOK
    <3>. QED BY <1>1, <2>1, <3>1 DEF FutureFrames, LifecycleFutureFrames, ApplyRecord, Maps
  <2>6. ValidateRecoveredCapacity(ApplyRecord(mem, r))
    BY Zenon, <1>1, <1>4, <2>1, <2>5, TransitionCapacity DEF AppendDecision
  <2>. QED BY <2>1, <2>2, <2>4, <2>6
<1>5. ASSUME AppendApplyAttempt(i, size)  PROVE  \E r : Done(r)
  <2>. DEFINE r == [type |-> "attempt", intent |-> i, sha |-> mem.sha[i],
                    state |-> "APPROVED", size |-> size]
  <2>1. r \in Records /\ r.type = "attempt" /\ r.intent = i /\ r.size = size
    BY Zenon, <1>1, <1>5 DEF AppendApplyAttempt, Records, PlanStates, PlansOK
  <2>2. status = "open" /\ AppendFrame(r)
    BY Zenon, <1>5 DEF AppendApplyAttempt
  <2>3. mem.count < MaxRecords
    <3>1. LifecycleFutureFrames("APPROVED", TRUE) = 4
      BY DEF LifecycleFutureFrames
    <3>. QED BY Zenon, <1>1, <1>5, <3>1, TransitionRoom DEF AppendApplyAttempt
  <2>4. ReplayAccepts(mem, r)
    BY Zenon, <1>5, <2>1, <2>3 DEF AppendApplyAttempt, ReplayAccepts, ValidApplyAttempt
  <2>5. FutureFrames(ApplyRecord(mem, r), i) = LifecycleFutureFrames("APPROVED", TRUE)
    BY <1>1, <1>5, <2>1
    DEF FutureFrames, LifecycleFutureFrames, ApplyRecord, Maps, AppendApplyAttempt
  <2>6. ValidateRecoveredCapacity(ApplyRecord(mem, r))
    BY Zenon, <1>1, <1>5, <2>1, <2>5, TransitionCapacity DEF AppendApplyAttempt
  <2>. QED BY <2>1, <2>2, <2>4, <2>6
<1>6. ASSUME NEW s \in PlanStates, AppendLifecycle(i, s, size)  PROVE  \E r : Done(r)
  <2>. DEFINE r == [type |-> "action", intent |-> i, sha |-> mem.sha[i], state |-> s, size |-> size]
  <2>1. /\ r \in Records /\ r.type = "action" /\ r.state = s /\ r.intent = i /\ r.size = size
    BY Zenon, <1>1, <1>6 DEF AppendLifecycle, Records, PlansOK, LifecycleTransitionAllowed
  <2>2. status = "open" /\ AppendFrame(r)
    BY Zenon, <1>6 DEF AppendLifecycle
  <2>3. mem.count < MaxRecords
    <3>1. LifecycleFutureFrames(s, i \in mem.attempts) \in Nat
      BY DEF LifecycleFutureFrames, MaxLifecycleFramesPerPlan
    <3>. QED BY Zenon, <1>1, <1>6, <3>1, TransitionRoom DEF AppendLifecycle
  <2>4. ReplayAccepts(mem, r)
    BY Zenon, <1>6, <2>1, <2>3
    DEF AppendLifecycle, ReplayAccepts, ValidOutcome, LifecycleTransitionAllowed
  <2>5. FutureFrames(ApplyRecord(mem, r), i) = LifecycleFutureFrames(s, i \in mem.attempts)
    BY Zenon, <1>1, <2>1 DEF FutureFrames, ApplyRecord, Maps
  <2>6. ValidateRecoveredCapacity(ApplyRecord(mem, r))
    BY Zenon, <1>1, <1>6, <2>1, <2>5, TransitionCapacity DEF AppendLifecycle
  <2>. QED BY <2>1, <2>2, <2>4, <2>6
<1>. QED BY <1>2, <1>3, <1>4, <1>5, <1>6

-----------------------------------------------------------------------------
(* The invariant.                                                           *)

LEMMA InitInvariant == Init => IInv
<1>. SUFFICES ASSUME Init PROVE IInv
  OBVIOUS
<1>1. /\ log = << >> /\ after = <<EmptyMaps>> /\ Len(log) = 0 /\ Len(after) = 1
      /\ log \in Seq(Records) /\ after \in Seq(Maps)
  BY EmptyMapsCapacity DEF Init
<1>2. TypeOK
  BY <1>1, EmptyMapsCapacity DEF Init, TypeOK
<1>3. Durable = EmptyMaps
  BY <1>1 DEF Durable
<1>4. PlansOK(EmptyMaps)
  BY DEF PlansOK, EmptyMaps
<1>. QED BY <1>1, <1>2, <1>3, <1>4, EmptyMapsCapacity
         DEF Init, IInv, HistoryOK, MapsMatchLog, RecoveryOK, CapacityOK, NeverCorrupt

LEMMA StepInvariant == IInv /\ [Next]_vars => IInv'
<1>. SUFFICES ASSUME IInv, [Next]_vars PROVE IInv'
  OBVIOUS
<1>1. ASSUME NEW i \in Intents, NEW size \in 1..MaxFrame,
             \/ \E d \in Digests : ReserveIntent(i, d, size) \/ AppendPrepared(i, d, size)
             \/ \E s \in DecisionStates : AppendDecision(i, s, size)
             \/ AppendApplyAttempt(i, size)
             \/ \E s \in PlanStates : AppendLifecycle(i, s, size)
      PROVE  IInv'
  BY <1>1, AppendsAreAccepted, AppendKeepsInvariant
<1>2. CASE Open
  <2>1. TypeOK'
    BY <1>2, EmptyMapsCapacity DEF IInv, TypeOK, Open
  <2>2. RecoveryOK'
    BY <1>2 DEF IInv, Open, RecoveryOK, HistoryOK
  <2>. QED BY Zenon, <1>2, <2>1, <2>2
           DEF Open, IInv, HistoryOK, MapsMatchLog, CapacityOK, PlansOK, Durable, NeverCorrupt
<1>3. CASE RecoverRecord
  <2>. DEFINE r == log[pos + 1]
  <2>1. /\ pos + 1 \in 1..Len(log) /\ r \in Records /\ mem \in Maps /\ pos \in Nat
        /\ Len(log) \in Nat /\ mem = after[pos + 1]
    BY <1>3 DEF RecoverRecord, IInv, TypeOK, RecoveryOK
  <2>2. ReplayAccepts(mem, r) /\ after[(pos + 1) + 1] = ApplyRecord(mem, r)
    BY <2>1 DEF IInv, HistoryOK
  <2>3. /\ mem' = ApplyRecord(mem, r) /\ pos' = pos + 1 /\ status' = "recovering"
        /\ UNCHANGED <<log, after>>
    BY <1>3, <2>2 DEF RecoverRecord
  <2>4. TypeOK'
    BY <2>1, <2>3, ApplyRecordType DEF IInv, TypeOK
  <2>5. RecoveryOK'
    BY <2>2, <2>3 DEF RecoveryOK
  <2>. QED BY Zenon, <2>3, <2>4, <2>5
           DEF IInv, HistoryOK, MapsMatchLog, CapacityOK, PlansOK, Durable, NeverCorrupt
<1>4. CASE RecoverDone
  <2>1. mem = Durable
    BY <1>4 DEF RecoverDone, IInv, RecoveryOK, Durable
  <2>2. status' = "open" /\ UNCHANGED <<log, after, mem, pos>>
    BY <1>4, <2>1 DEF RecoverDone, IInv, CapacityOK
  <2>. QED BY Zenon, <2>1, <2>2 DEF IInv, TypeOK, HistoryOK, MapsMatchLog, RecoveryOK, CapacityOK, PlansOK,
                             Durable, NeverCorrupt
<1>5. CASE Stop
  BY Zenon, <1>5 DEF Stop, IInv, TypeOK, HistoryOK, MapsMatchLog, RecoveryOK, CapacityOK, PlansOK,
              Durable, NeverCorrupt
<1>6. CASE UNCHANGED vars
  BY Zenon, <1>6 DEF vars, IInv, TypeOK, HistoryOK, MapsMatchLog, RecoveryOK, CapacityOK, PlansOK,
              Durable, NeverCorrupt
<1>. QED BY <1>1, <1>2, <1>3, <1>4, <1>5, <1>6 DEF Next

\* The invariant holds in every reachable state.
THEOREM Invariant == Spec => []IInv
  BY InitInvariant, StepInvariant, PTL DEF Spec

-----------------------------------------------------------------------------
(* The properties.                                                          *)

\* The maps of actionJournal and the frames on disk keep their types.
THEOREM TypeCorrect == Spec => []TypeOK
<1>1. IInv => TypeOK
  BY DEF IInv
<1>. QED BY <1>1, Invariant, PTL

\* Any journal the service can leave behind, after any crash or failed append,
\* passes recoverPreparedStates and validateRecoveredCapacity.
THEOREM JournalReopens == Spec => []NeverCorrupt
<1>1. IInv => NeverCorrupt
  BY DEF IInv
<1>. QED BY <1>1, Invariant, PTL

\* While appends are accepted, the maps of the process are the replay of the file.
THEOREM ProcessMatchesFile == Spec => []MapsMatchLog
<1>1. IInv => MapsMatchLog
  BY DEF IInv
<1>. QED BY <1>1, Invariant, PTL

\* A record that lowers the debt of its plan always fits.
LEMMA SmallerDebtFits ==
    ASSUME NEW m \in Maps, ValidateRecoveredCapacity(m), NEW i \in Intents, NEW f \in Nat,
           f < FutureFrames(m, i)
    PROVE  EnsureTransitionCapacity(m, i, MaxFrame, f)
<1>. DEFINE rest == Cardinality(UNION {{k} \X (1..FutureFrames(m, k)) : k \in Intents \ {i}})
            B == FutureFrameBudget(m)
            F == FutureFrames(m, i)
            new == (B - F) + f
<1>1. rest \in Nat /\ B = rest + F /\ F \in Nat /\ m.count \in Nat /\ m.bytes \in Nat
  BY BudgetSplit, FutureFramesType DEF Maps
<1>2. m.count + B <= MaxRecords /\ m.bytes + B * MaxFrame <= MaxBytes
  BY DEF ValidateRecoveredCapacity
<1>. HIDE DEF rest, B
<1>3. F \in Nat /\ f < F
  BY <1>1
<1>. HIDE DEF F
<1>4. new \in Nat /\ new + 1 <= B /\ B \in Nat
  BY <1>1, <1>3
<1>. HIDE DEF new
<1>5. PICK d \in Nat : B = (new + 1) + d
  <2>1. B - (new + 1) \in Nat /\ B = (new + 1) + (B - (new + 1))
    BY <1>4
  <2>. QED BY <2>1
<1>6. B * MaxFrame = (MaxFrame + new * MaxFrame) + d * MaxFrame
  BY <1>4, <1>5, JournalConstants
<1>7. d * MaxFrame \in Nat /\ new * MaxFrame \in Nat /\ B * MaxFrame \in Nat
  BY <1>4, JournalConstants
<1>8. MaxFrame + new * MaxFrame <= MaxBytes - m.bytes
  BY <1>1, <1>2, <1>6, <1>7, JournalConstants
<1>9. m.count + 1 + new <= MaxRecords
  BY <1>1, <1>2, <1>4, JournalConstants
<1>. QED BY <1>8, <1>9 DEF EnsureTransitionCapacity, new, B, F

\* ErrPendingLimit never keeps an admitted plan from its next record, for every
\* bound on records, frame size and bytes.
THEOREM NeverStarved == Spec => []AdmittedPlanNeverStarved
<1>1. IInv => AdmittedPlanNeverStarved
  <2>. SUFFICES ASSUME IInv, status = "open", NEW i \in Intents
                PROVE  /\ mem.state[i] = "PREPARED" =>
                             \A s \in DecisionStates :
                                EnsureTransitionCapacity(mem, i, MaxFrame,
                                                         LifecycleFutureFrames(s, FALSE))
                       /\ (mem.state[i] = "APPROVED" /\ i \notin mem.attempts) =>
                             EnsureTransitionCapacity(mem, i, MaxFrame,
                                                      LifecycleFutureFrames("APPROVED", TRUE))
                       /\ \A s \in PlanStates :
                             LifecycleTransitionAllowed(mem.state[i], i \in mem.attempts, s) =>
                                EnsureTransitionCapacity(mem, i, MaxFrame,
                                              LifecycleFutureFrames(s, i \in mem.attempts))
    BY Zenon DEF AdmittedPlanNeverStarved
  <2>1. mem \in Maps /\ ValidateRecoveredCapacity(mem)
    BY DEF IInv, TypeOK, MapsMatchLog, CapacityOK, Durable
  <2>2. ASSUME mem.state[i] = "PREPARED", NEW s \in DecisionStates
        PROVE  EnsureTransitionCapacity(mem, i, MaxFrame, LifecycleFutureFrames(s, FALSE))
    <3>1. /\ LifecycleFutureFrames(s, FALSE) \in Nat
          /\ LifecycleFutureFrames(s, FALSE) < FutureFrames(mem, i)
      BY <2>2 DEF FutureFrames, LifecycleFutureFrames, DecisionStates, MaxLifecycleFramesPerPlan
    <3>. QED BY Zenon, <2>1, <3>1, SmallerDebtFits
  <2>3. ASSUME mem.state[i] = "APPROVED", i \notin mem.attempts
        PROVE  EnsureTransitionCapacity(mem, i, MaxFrame, LifecycleFutureFrames("APPROVED", TRUE))
    <3>1. /\ LifecycleFutureFrames("APPROVED", TRUE) \in Nat
          /\ LifecycleFutureFrames("APPROVED", TRUE) < FutureFrames(mem, i)
      BY <2>3 DEF FutureFrames, LifecycleFutureFrames
    <3>. QED BY Zenon, <2>1, <3>1, SmallerDebtFits
  <2>4. ASSUME NEW s \in PlanStates,
               LifecycleTransitionAllowed(mem.state[i], i \in mem.attempts, s)
        PROVE  EnsureTransitionCapacity(mem, i, MaxFrame, LifecycleFutureFrames(s, i \in mem.attempts))
    <3>1. /\ LifecycleFutureFrames(s, i \in mem.attempts) \in Nat
          /\ LifecycleFutureFrames(s, i \in mem.attempts) < FutureFrames(mem, i)
      BY <2>4 DEF FutureFrames, LifecycleFutureFrames, LifecycleTransitionAllowed
    <3>. QED BY Zenon, <2>1, <3>1, SmallerDebtFits
  <2>. QED BY Zenon, <2>2, <2>3, <2>4
<1>. QED BY <1>1, Invariant, PTL

\* An accepted record moves its plan forward.
LEMMA RecordForward ==
    ASSUME NEW m \in Maps, NEW r \in Records, ReplayAccepts(m, r), NEW i \in Intents
    PROVE  PlanForward(m, ApplyRecord(m, r), i)
<1>. USE DEF PlanForward
<1>1. CASE i # r.intent
  BY <1>1, ApplyRecordOthers
<1>2. CASE i = r.intent /\ r.type = "reserve"
  BY Zenon, <1>2 DEF ApplyRecord, Maps, Records, ReplayAccepts, ValidReservation, TerminalStates
<1>3. CASE i = r.intent /\ r.type = "attempt"
  BY Zenon, <1>3 DEF ApplyRecord, Maps, Records, ReplayAccepts, ValidApplyAttempt
<1>4. CASE i = r.intent /\ r.type = "action"
  BY Zenon, <1>4 DEF ApplyRecord, Maps, Records, ReplayAccepts, ValidPrepared, ValidOutcome,
              LifecycleTransitionAllowed, TerminalStates, DecisionStates
<1>. QED BY Zenon, <1>1, <1>2, <1>3, <1>4 DEF Records

\* What the file says of a plan only moves forward.
THEOREM FileMovesForward == Spec => DurableForward
<1>1. ASSUME IInv, [Next]_vars, NEW i \in Intents
      PROVE  PlanForward(after[Len(after)], after'[Len(after')], i)
  <2>1. CASE UNCHANGED after
    BY <2>1 DEF PlanForward
  <2>2. CASE \E r \in Records : /\ status = "open" /\ ReplayAccepts(mem, r)
                                /\ after' = Append(after, ApplyRecord(mem, r))
    <3>1. PICK r \in Records : /\ status = "open" /\ ReplayAccepts(mem, r)
                              /\ after' = Append(after, ApplyRecord(mem, r))
      BY <2>2
    <3>2. mem \in Maps /\ mem = after[Len(after)]
      BY <1>1, <3>1 DEF IInv, TypeOK, MapsMatchLog, HistoryOK
    <3>3. after'[Len(after')] = ApplyRecord(mem, r)
      <4>1. after \in Seq(Maps) /\ ApplyRecord(mem, r) \in Maps
        BY <1>1, <3>2, ApplyRecordType DEF IInv, TypeOK
      <4>. QED BY <3>1, <4>1
    <3>. QED BY <3>1, <3>2, <3>3, RecordForward
  <2>3. ASSUME NEW k \in Intents, NEW size \in 1..MaxFrame,
               \/ \E d \in Digests : ReserveIntent(k, d, size) \/ AppendPrepared(k, d, size)
               \/ \E s \in DecisionStates : AppendDecision(k, s, size)
               \/ AppendApplyAttempt(k, size)
               \/ \E s \in PlanStates : AppendLifecycle(k, s, size)
        PROVE  \/ UNCHANGED after
               \/ \E r \in Records : /\ status = "open" /\ ReplayAccepts(mem, r)
                                     /\ after' = Append(after, ApplyRecord(mem, r))
    <3>1. PICK r \in Records : status = "open" /\ ReplayAccepts(mem, r) /\ AppendFrame(r)
      BY <1>1, <2>3, AppendsAreAccepted
    <3>. QED BY Zenon, <3>1 DEF AppendFrame
  <2>4. CASE Open \/ RecoverRecord \/ RecoverDone \/ Stop \/ UNCHANGED vars
    BY <2>1, <2>4 DEF Open, RecoverRecord, RecoverDone, Stop, vars
  <2>. QED BY Zenon, <1>1, <2>1, <2>2, <2>3, <2>4 DEF Next
<1>2. IInv /\ [Next]_vars =>
        [\A i \in Intents : PlanForward(after[Len(after)], after'[Len(after')], i)]_vars
  BY <1>1
<1>. QED BY <1>2, Invariant, PTL DEF Spec, DurableForward

-----------------------------------------------------------------------------
(* The Core's reading of the file.                                          *)

\* What the four dictionaries of the Core hold when the actuator's maps are m.
Mirrors(p, m) ==
    /\ DOMAIN p.maps = Core!Mappings /\ \A k \in Core!Mappings : DOMAIN p.maps[k] = Intents
    /\ p.previous = m.count
    /\ \A i \in Intents :
          /\ p.maps["reservations"][i] = IF m.at[i] = 0 THEN <<>> ELSE <<m.sha[i], m.at[i]>>
          /\ p.maps["prepared"][i] = <<>> <=> m.state[i] = "none"
          /\ p.maps["attempts"][i] = <<>> <=> i \notin m.attempts
          /\ p.maps["outcomes"][i] =
                IF m.state[i] \in {"none", "PREPARED"} THEN <<>> ELSE <<m.state[i]>>
          /\ m.state[i] # "none" => m.at[i] # 0

LEMMA EmptyMirrors == Mirrors(Core!EmptyProjection, EmptyMaps)
  BY DEF Mirrors, Core!EmptyProjection, EmptyMaps, Core!Mappings

\* The Core demands no more of a record than the replay of the actuator does.
LEMMA RecordVerifies ==
    ASSUME NEW m \in Maps, NEW r \in Records, ReplayAccepts(m, r), NEW p, Mirrors(p, m)
    PROVE  Core!RecordValid(p, r)
<1>1. PICK i \in Intents : i = r.intent BY DEF Records
<1>2. PICK res, prep, att, out :
        /\ res = p.maps["reservations"][i] /\ prep = p.maps["prepared"][i]
        /\ att = p.maps["attempts"][i] /\ out = p.maps["outcomes"][i]
  OBVIOUS
<1>3. PICK st, at, sha, count : st = m.state[i] /\ at = m.at[i] /\ sha = m.sha[i] /\ count = m.count
  OBVIOUS
<1>4. /\ res = IF at = 0 THEN <<>> ELSE <<sha, at>>
      /\ prep = <<>> <=> st = "none"
      /\ att = <<>> <=> i \notin m.attempts
      /\ out = IF st \in {"none", "PREPARED"} THEN <<>> ELSE <<st>>
      /\ p.previous = count
  BY Zenon, <1>1, <1>2, <1>3 DEF Mirrors
<1>5. CASE r.type = "reserve" /\ ValidReservation(m, r)
  BY <1>1, <1>2, <1>3, <1>4, <1>5 DEF Core!RecordValid, Core!ReservationValid, Core!Has, ValidReservation
<1>6. CASE r.type = "attempt" /\ ValidApplyAttempt(m, r)
  BY <1>1, <1>2, <1>3, <1>4, <1>6 DEF Core!RecordValid, Core!AttemptValid, Core!Has, ValidApplyAttempt
<1>7. CASE r.type = "action" /\ r.state = "PREPARED" /\ ValidPrepared(m, r)
  BY <1>1, <1>2, <1>3, <1>4, <1>7 DEF Core!RecordValid, Core!ActionValid, Core!PreparedValid, Core!Has, ValidPrepared
<1>8. CASE r.type = "action" /\ r.state # "PREPARED" /\ ValidOutcome(m, r)
  <2>1. CASE st = "PREPARED" /\ r.state \in DecisionStates
    BY <1>1, <1>2, <1>3, <1>4, <1>8, <2>1 DEF Core!RecordValid, Core!ActionValid, Core!DecisionValid, Core!Has, DecisionStates
  <2>2. CASE LifecycleTransitionAllowed(st, i \in m.attempts, r.state)
    <3>1. prep # <<>> /\ out = <<st>> BY <1>4, <2>2 DEF LifecycleTransitionAllowed
    <3>2. Core!LifecycleValid(p, r)
      BY <1>1, <1>2, <1>4, <2>2, <3>1 DEF Core!LifecycleValid, Core!Has, LifecycleTransitionAllowed
    <3>3. r.state \in {"REJECTED", "APPLIED", "VERIFIED", "EXPIRED", "STALE_ABORT", "FAILED_DIRTY"}
      BY <2>2 DEF LifecycleTransitionAllowed
    <3>4. Core!Has(p, "outcomes", r.intent) BY <1>1, <1>2, <3>1 DEF Core!Has
    <3> QED BY <1>8, <3>2, <3>3, <3>4 DEF Core!RecordValid, Core!ActionValid
  <2> QED BY <1>1, <1>3, <1>8, <2>1, <2>2 DEF ValidOutcome
<1> QED BY <1>5, <1>6, <1>7, <1>8 DEF ReplayAccepts

\* What it sets keeps the dictionaries and the maps in step.
LEMMA RecordMirrored ==
    ASSUME NEW m \in Maps, NEW r \in Records, ReplayAccepts(m, r), NEW p, Mirrors(p, m)
    PROVE  Mirrors(Core!AppendRecord(p, r), ApplyRecord(m, r))
<1>1. PICK i \in Intents : i = r.intent BY DEF Records
<1>2. PICK next : next = p.previous + 1 OBVIOUS
<1>3. PICK q : q = Core!AppendRecord(p, r) OBVIOUS
<1>4. PICK n : n = ApplyRecord(m, r) OBVIOUS
<1>5. q.previous = next /\ n.count = next BY Zenon, <1>2, <1>3, <1>4 DEF Core!AppendRecord, ApplyRecord, Mirrors
<1>6. PICK mapping, value :
        /\ mapping \in Core!Mappings
        /\ q.maps = Core!SetState(p, mapping, i, value).maps
        /\ r.type = "reserve" => mapping = "reservations" /\ value = <<r.sha, next>>
        /\ r.type = "attempt" => mapping = "attempts" /\ value = <<next>>
        /\ r.type = "action" /\ r.state = "PREPARED" => mapping = "prepared" /\ value = <<r.sha, next>>
        /\ r.type = "action" /\ r.state # "PREPARED" => mapping = "outcomes" /\ value = <<r.state>>
  <2>1. "reservations" \in Core!Mappings /\ "attempts" \in Core!Mappings /\ "prepared" \in Core!Mappings
        /\ "outcomes" \in Core!Mappings
    BY Zenon DEF Core!Mappings
  <2>2. CASE r.type = "reserve"
    <3>1. q.maps = Core!SetState(p, "reservations", i, <<r.sha, next>>).maps
      BY Zenon, <1>1, <1>2, <1>3, <2>2 DEF Core!AppendRecord
    <3>2. r.type # "action" /\ r.type # "attempt" BY <2>2
    <3> QED BY Zenon, <2>1, <2>2, <3>1, <3>2
  <2>3. CASE r.type = "attempt"
    <3>1. q.maps = Core!SetState(p, "attempts", i, <<next>>).maps
      BY Zenon, <1>1, <1>2, <1>3, <2>3 DEF Core!AppendRecord
    <3>2. r.type # "action" /\ r.type # "reserve" BY <2>3
    <3> QED BY Zenon, <2>1, <2>3, <3>1, <3>2
  <2>4. CASE r.type = "action" /\ r.state = "PREPARED"
    BY Zenon, <1>1, <1>2, <1>3, <2>1, <2>4 DEF Core!AppendRecord
  <2>5. CASE r.type = "action" /\ r.state # "PREPARED"
    BY Zenon, <1>1, <1>2, <1>3, <2>1, <2>5 DEF Core!AppendRecord
  <2> QED BY Zenon, <2>2, <2>3, <2>4, <2>5 DEF Records
<1>7. /\ DOMAIN q.maps = Core!Mappings /\ \A k \in Core!Mappings : DOMAIN q.maps[k] = Intents
      /\ \A k \in Core!Mappings, j \in Intents :
            q.maps[k][j] = IF k = mapping /\ j = i THEN value ELSE p.maps[k][j]
  <2>1. DOMAIN p.maps = Core!Mappings /\ \A k \in Core!Mappings : DOMAIN p.maps[k] = Intents BY Zenon DEF Mirrors
  <2>2. PICK f, g : f = p.maps /\ g = q.maps OBVIOUS
  <2>3. g = [f EXCEPT ![mapping] = [f[mapping] EXCEPT ![i] = value]]
    BY Zenon, <1>6, <2>2 DEF Core!SetState
  <2> QED BY <1>6, <2>1, <2>2, <2>3
<1>8. ASSUME NEW j \in Intents
      PROVE  /\ q.maps["reservations"][j] = IF n.at[j] = 0 THEN <<>> ELSE <<n.sha[j], n.at[j]>>
             /\ q.maps["prepared"][j] = <<>> <=> n.state[j] = "none"
             /\ q.maps["attempts"][j] = <<>> <=> j \notin n.attempts
             /\ q.maps["outcomes"][j] =
                   IF n.state[j] \in {"none", "PREPARED"} THEN <<>> ELSE <<n.state[j]>>
             /\ n.state[j] # "none" => n.at[j] # 0
  <2>1. /\ q.maps["reservations"][j] =
              IF "reservations" = mapping /\ j = i THEN value ELSE p.maps["reservations"][j]
        /\ q.maps["prepared"][j] = IF "prepared" = mapping /\ j = i THEN value ELSE p.maps["prepared"][j]
        /\ q.maps["attempts"][j] = IF "attempts" = mapping /\ j = i THEN value ELSE p.maps["attempts"][j]
        /\ q.maps["outcomes"][j] = IF "outcomes" = mapping /\ j = i THEN value ELSE p.maps["outcomes"][j]
    BY Zenon, <1>7 DEF Core!Mappings
  <2>2. PICK res, prep, att, out :
          /\ res = p.maps["reservations"][j] /\ prep = p.maps["prepared"][j]
          /\ att = p.maps["attempts"][j] /\ out = p.maps["outcomes"][j]
    OBVIOUS
  <2>3. PICK st, at, sha : st = m.state[j] /\ at = m.at[j] /\ sha = m.sha[j]
    OBVIOUS
  <2>4. /\ res = IF at = 0 THEN <<>> ELSE <<sha, at>>
        /\ prep = <<>> <=> st = "none"
        /\ att = <<>> <=> j \notin m.attempts
        /\ out = IF st \in {"none", "PREPARED"} THEN <<>> ELSE <<st>>
        /\ st # "none" => at # 0
    BY Zenon, <2>2, <2>3 DEF Mirrors
  <2>5. /\ n.sha[j] = IF r.type = "reserve" /\ j = i THEN r.sha ELSE sha
        /\ n.at[j] = IF r.type = "reserve" /\ j = i THEN next ELSE at
        /\ n.state[j] = IF r.type = "action" /\ j = i THEN r.state ELSE st
        /\ j \in n.attempts <=> j \in m.attempts \/ (r.type = "attempt" /\ j = i)
    BY <1>1, <1>2, <1>4, <2>3 DEF ApplyRecord, Maps, Mirrors
  <2>6. next \in Nat /\ next # 0 BY <1>2 DEF Mirrors, Maps
  <2>7. r.type = "reserve" => m.state[i] = "none"
    BY <1>1 DEF ReplayAccepts, ValidReservation
  <2>8. r.type = "action" => r.state # "none" /\ m.at[i] # 0
    <3>1. CASE r.state = "PREPARED" BY <1>1, <3>1 DEF ReplayAccepts, ValidPrepared
    <3>2. CASE m.state[i] = "PREPARED" /\ r.state \in DecisionStates BY <1>1, <3>2 DEF Mirrors, DecisionStates
    <3>3. CASE LifecycleTransitionAllowed(m.state[i], i \in m.attempts, r.state)
      BY <1>1, <3>3 DEF Mirrors, LifecycleTransitionAllowed
    <3> QED BY <1>1, <3>1, <3>2, <3>3 DEF ReplayAccepts, ValidOutcome
  <2>9. CASE j # i BY Zenon, <2>1, <2>2, <2>4, <2>5, <2>9
  <2>10. CASE j = i /\ r.type = "reserve" BY <1>6, <2>1, <2>2, <2>3, <2>4, <2>5, <2>6, <2>7, <2>10
  <2>11. CASE j = i /\ r.type = "attempt"
    <3>1. r.type # "action" /\ r.type # "reserve" /\ <<next>> # <<>> BY <2>11
    <3>3. mapping = "attempts" /\ value = <<next>> BY Zenon, <1>6, <2>11
    <3>2. "attempts" # "reservations" /\ "attempts" # "prepared" /\ "attempts" # "outcomes" OBVIOUS
    <3> QED BY Zenon, <2>1, <2>2, <2>4, <2>5, <2>11, <3>1, <3>2, <3>3
  <2>12. CASE j = i /\ r.type = "action" /\ r.state = "PREPARED"
    <3>1. st = "none" BY <1>1, <2>3, <2>12 DEF ReplayAccepts, ValidPrepared
    <3>2. r.type # "attempt" /\ r.type # "reserve" /\ <<r.sha, next>> # <<>> BY <2>12
    <3>4. mapping = "prepared" /\ value = <<r.sha, next>> BY Zenon, <1>6, <2>12
    <3>3. "prepared" # "reservations" /\ "prepared" # "attempts" /\ "prepared" # "outcomes" OBVIOUS
    <3> QED BY Zenon, <2>1, <2>2, <2>3, <2>4, <2>5, <2>8, <2>12, <3>1, <3>2, <3>3, <3>4
  <2>13. CASE j = i /\ r.type = "action" /\ r.state # "PREPARED"
    <3>1. st # "none" BY <1>1, <2>3, <2>13 DEF ReplayAccepts, ValidOutcome, LifecycleTransitionAllowed
    <3>2. mapping = "outcomes" /\ value = <<r.state>> /\ r.type # "attempt" /\ r.type # "reserve" BY <1>6, <2>13
    <3>3. "outcomes" # "reservations" /\ "outcomes" # "attempts" /\ "outcomes" # "prepared" OBVIOUS
    <3> QED BY Zenon, <2>1, <2>2, <2>3, <2>4, <2>5, <2>8, <2>13, <3>1, <3>2, <3>3
  <2> QED BY Zenon, <2>9, <2>10, <2>11, <2>12, <2>13 DEF Records
<1> QED BY Zenon, <1>3, <1>4, <1>5, <1>7, <1>8 DEF Mirrors


\* A nonempty set of natural numbers has a least element,
LEMMA Least ==
    ASSUME NEW T, T \subseteq Nat, T # {}
    PROVE  \E x \in T : \A y \in T : x <= y
<1>. DEFINE R == {ss \in Nat \X Nat : ss[1] < ss[2]}
<1>1. IsWellFoundedOn(R, Nat) BY NatLessThanWellFounded DEF OpToRel
<1>2. PICK x \in T : \A y \in T : ~(<<y, x>> \in R)
  <2>. HIDE DEF R
  <2>. QED BY Zenon, <1>1, WFMin
<1>3. \A y \in T : ~(y < x) BY Zenon, <1>2
<1>. QED BY <1>3

\* which is induction, with a set for the predicate.
LEMMA Induction ==
    ASSUME NEW S, 0 \in S, \A n \in Nat : n \in S => n + 1 \in S
    PROVE  Nat \subseteq S
<1>. SUFFICES ASSUME Nat \ S # {} PROVE FALSE OBVIOUS
<1>1. PICK x \in Nat \ S : \A y \in Nat \ S : x <= y BY Zenon, Least
<1>2. x # 0 /\ x - 1 \in Nat BY <1>1
<1>3. x - 1 \in S BY <1>1, <1>2
<1>. QED BY <1>1, <1>2, <1>3

\* g is the function that Verified defines over the first n records.
Step(acc, r) == CHOOSE next \in {Core!Extend(a, r) : a \in {acc}} : TRUE

Reads(p, records, n, g) ==
    g = [k \in 0..n |-> IF k = 0 THEN [ok |-> TRUE, p |-> p] ELSE Step(g[k - 1], records[k])]

LEMMA StepExtends ==
    ASSUME NEW acc, NEW r PROVE Step(acc, r) = Core!Extend(acc, r)
<1>1. PICK e : e = Core!Extend(acc, r) OBVIOUS
<1>2. {Core!Extend(a, r) : a \in {acc}} = {e} BY Zenon, <1>1
<1>3. (CHOOSE next \in {e} : TRUE) = e OBVIOUS
<1>. QED BY Zenon, <1>1, <1>2, <1>3 DEF Step

LEMMA VerifiedIs ==
    ASSUME NEW p, NEW records
    PROVE  Core!Verified(p, records) = (CHOOSE g : Reads(p, records, Len(records), g))[Len(records)]
  BY DEF Core!Verified, Reads, Step

\* There is such a function, by induction on n.
LEMMA ReadsExist ==
    ASSUME NEW p, NEW records, NEW n \in Nat
    PROVE  \E g : Reads(p, records, n, g)
<1>. DEFINE S == {k \in Nat : \E g : Reads(p, records, k, g)}
            first == [ok |-> TRUE, p |-> p]
<1>1. 0 \in S
  <2>. DEFINE g == [k \in 0..0 |-> first]
  <2>1. g = [k \in 0..0 |-> IF k = 0 THEN first ELSE Step(g[k - 1], records[k])] OBVIOUS
  <2>2. Reads(p, records, 0, g) BY Zenon, <2>1 DEF Reads
  <2>. QED BY <2>2
<1>2. \A k \in Nat : k \in S => k + 1 \in S
  <2>. SUFFICES ASSUME NEW k \in Nat, NEW g, Reads(p, records, k, g) PROVE \E h : Reads(p, records, k + 1, h)
    OBVIOUS
  <2>. DEFINE h == [i \in 0..k + 1 |-> IF i = k + 1 THEN Step(g[k], records[k + 1]) ELSE g[i]]
  <2>1. \A i \in 0..k : h[i] = g[i] OBVIOUS
  <2>2. \A i \in 0..k : g[i] = IF i = 0 THEN first ELSE Step(g[i - 1], records[i]) BY Zenon DEF Reads
  <2>3. h[k + 1] = Step(h[k], records[k + 1]) BY <2>1
  <2>4. ASSUME NEW i \in 0..k + 1
        PROVE  h[i] = IF i = 0 THEN first ELSE Step(h[i - 1], records[i])
    <3>1. CASE i = k + 1
      <4>1. i # 0 /\ i - 1 = k BY <3>1
      <4>. HIDE DEF h
      <4>. QED BY <3>1, <4>1, <2>3
    <3>2. CASE i # k + 1
      <4>1. i \in 0..k BY <3>2
      <4>2. i # 0 => i - 1 \in 0..k BY <4>1
      <4>. HIDE DEF h, first
      <4>. QED BY <4>1, <4>2, <2>1, <2>2
    <3>. QED BY Zenon, <3>1, <3>2
  <2>5. Reads(p, records, k + 1, h)
    <3>1. h = [i \in 0..k + 1 |-> h[i]] OBVIOUS
    <3>. HIDE DEF h
    <3>. QED BY Zenon, <3>1, <2>4 DEF Reads
  <2>. QED BY Zenon, <2>5
<1>. QED BY Zenon, <1>1, <1>2, Induction

\* So Verified takes the records one by one.
LEMMA VerifiedStepwise ==
    ASSUME NEW p, NEW records, Len(records) \in Nat
    PROVE  \E g : /\ Core!Verified(p, records) = g[Len(records)]
                  /\ g[0] = [ok |-> TRUE, p |-> p]
                  /\ \A k \in 1..Len(records) : g[k] = Core!Extend(g[k - 1], records[k])
<1>. DEFINE g == CHOOSE g : Reads(p, records, Len(records), g)
            first == [ok |-> TRUE, p |-> p]
<1>1. Reads(p, records, Len(records), g) BY Zenon, ReadsExist
<1>2. Core!Verified(p, records) = g[Len(records)] BY Zenon, VerifiedIs
<1>. HIDE DEF g
<1>3. \A k \in 0..Len(records) : g[k] = IF k = 0 THEN first ELSE Step(g[k - 1], records[k])
  BY Zenon, <1>1 DEF Reads
<1>. HIDE DEF first
<1>4. g[0] = first /\ \A k \in 1..Len(records) : g[k] = Step(g[k - 1], records[k]) BY <1>3
<1>. QED BY Zenon, <1>2, <1>4, StepExtends DEF first

\* The state Core reports is the one the maps hold.
LEMMA SameState ==
    ASSUME NEW m \in Maps, NEW p, Mirrors(p, m), NEW i \in Intents
    PROVE  Core!IntentState(p, i) = JournalState(m, i)
<1>1. PICK res, prep, out : /\ res = p.maps["reservations"][i] /\ prep = p.maps["prepared"][i]
                            /\ out = p.maps["outcomes"][i]
  OBVIOUS
<1>2. PICK st, at, sha : st = m.state[i] /\ at = m.at[i] /\ sha = m.sha[i] OBVIOUS
<1>3. /\ res = IF at = 0 THEN <<>> ELSE <<sha, at>>
      /\ prep = <<>> <=> st = "none"
      /\ out = IF st \in {"none", "PREPARED"} THEN <<>> ELSE <<st>>
      /\ st # "none" => at # 0
  BY Zenon, <1>1, <1>2 DEF Mirrors
<1>4. Core!IntentState(p, i) = IF res = <<>> THEN "none" ELSE IF prep = <<>> THEN "RESERVED"
                               ELSE IF out = <<>> THEN "PREPARED" ELSE out[1]
  BY Zenon, <1>1 DEF Core!IntentState, Core!Has
<1>5. JournalState(m, i) = IF st = "none" /\ at # 0 THEN "RESERVED" ELSE st BY Zenon, <1>2 DEF JournalState
<1>6. <<sha, at>> # <<>> /\ <<st>> # <<>> /\ <<st>>[1] = st OBVIOUS
<1>. QED BY <1>3, <1>4, <1>5, <1>6

\* Core's mirror verifies every journal the actuator can write and reads its states
\* from it: the record checks of actuator_records.py against the appends of journal.go.
THEOREM MirrorReads == Spec => []MirrorVerifies
<1>1. ASSUME IInv PROVE MirrorVerifies
  <2>1. /\ log \in Seq(Records) /\ after \in Seq(Maps) /\ Len(after) = Len(log) + 1 /\ after[1] = EmptyMaps
        /\ \A n \in 1..Len(log) : after[n + 1] = ApplyRecord(after[n], log[n]) /\ ReplayAccepts(after[n], log[n])
    BY Zenon, <1>1 DEF IInv, TypeOK, HistoryOK
  <2>2. /\ Len(log) \in Nat /\ \A n \in 1..Len(log) : log[n] \in Records
        /\ \A n \in 1..Len(log) + 1 : after[n] \in Maps
    BY <2>1
  <2>0. PICK e : e = Core!EmptyProjection OBVIOUS
  <2>3. PICK g : /\ Core!Verified(e, log) = g[Len(log)]
                 /\ g[0] = [ok |-> TRUE, p |-> e]
                 /\ \A k \in 1..Len(log) : g[k] = Core!Extend(g[k - 1], log[k])
    BY <2>2, VerifiedStepwise
  <2>. DEFINE S == {n \in Nat : n <= Len(log) => g[n].ok /\ Mirrors(g[n].p, after[n + 1])}
  <2>4. 0 \in S
    <3>1. g[0].ok /\ g[0].p = e BY <2>3
    <3>2. Mirrors(g[0].p, after[1]) BY Zenon, <2>0, <2>1, <3>1, EmptyMirrors
    <3>. QED BY <3>1, <3>2
  <2>5. ASSUME NEW n \in Nat, n \in S PROVE n + 1 \in S
    <3>. SUFFICES ASSUME n + 1 <= Len(log) PROVE g[n + 1].ok /\ Mirrors(g[n + 1].p, after[n + 2])
      OBVIOUS
    <3>1. n + 1 \in 1..Len(log) /\ (n + 1) - 1 = n /\ (n + 1) + 1 = n + 2 BY <2>2
    <3>2. PICK m, r, p : m = after[n + 1] /\ r = log[n + 1] /\ p = g[n].p OBVIOUS
    <3>3. g[n].ok /\ Mirrors(p, m) BY <2>2, <2>5, <3>2
    <3>4. m \in Maps /\ r \in Records /\ ReplayAccepts(m, r) /\ after[n + 2] = ApplyRecord(m, r)
      BY <2>1, <2>2, <3>1, <3>2
    <3>5. g[n + 1] = Core!Extend(g[n], r) BY <2>3, <3>1, <3>2
    <3>6. Core!RecordValid(p, r) /\ Mirrors(Core!AppendRecord(p, r), ApplyRecord(m, r))
      BY Zenon, <3>3, <3>4, RecordVerifies, RecordMirrored
    <3>7. g[n + 1] = [ok |-> TRUE, p |-> Core!AppendRecord(p, r)] BY Zenon, <3>2, <3>3, <3>5, <3>6 DEF Core!Extend
    <3>8. g[n + 1].ok /\ g[n + 1].p = Core!AppendRecord(p, r) BY <3>7
    <3>. QED BY Zenon, <3>4, <3>6, <3>8
  <2>6. Len(log) \in S
    <3>. HIDE DEF S
    <3>. QED BY Zenon, <2>2, <2>4, <2>5, Induction
  <2>7. PICK p, m : p = g[Len(log)].p /\ m = after[Len(after)] OBVIOUS
  <2>8. g[Len(log)].ok /\ Mirrors(p, m) /\ m \in Maps BY <2>1, <2>2, <2>6, <2>7
  <2>. QED BY Zenon, <2>0, <2>3, <2>7, <2>8, SameState DEF MirrorVerifies
<1>. QED BY <1>1, Invariant, PTL
=============================================================================
