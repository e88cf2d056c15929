-------------------------- MODULE RetentionProofs ---------------------------
(***************************************************************************)
(* Proofs about evidence retention, for every bound, size target and       *)
(* stream: what is removed is covered by a tombstone in the evidence and   *)
(* lies behind the ACK journal, recovery authenticates whatever a crash or *)
(* an error left unless the request is stranded, and a request is given up *)
(* only when it is carried out.                                            *)
(***************************************************************************)
EXTENDS RetentionInvariant, WellFoundedInduction

\* SMT, then Zenon, with time to spare on a slow machine.
USE SMTT(30), ZenonT(20)

-----------------------------------------------------------------------------
(* The selector.  The size of a run is a sum over the chain: what a sum is *)
(* under a longer chain is an induction, from the least-number principle.  *)

(* A nonempty set of natural numbers has a least element.                  *)
LEMMA Least ==
    ASSUME NEW T, T \subseteq Nat, T # {}
    PROVE  \E x \in T : \A y \in T : x <= y
<1> DEFINE R == {ss \in Nat \X Nat : ss[1] < ss[2]}
<1>1. IsWellFoundedOn(R, Nat)
  BY NatLessThanWellFounded DEF OpToRel
<1>2. PICK x \in T : \A y \in T : ~(<<y, x>> \in R)
  <2> HIDE DEF R
  <2> QED BY Zenon, <1>1, WFMin
<1>3. \A y \in T : ~(y < x)
  BY Zenon, <1>2
<1> QED BY <1>3

(* Induction, with a set for the predicate.                                *)
LEMMA Induction ==
    ASSUME NEW S, 0 \in S, \A n \in Nat : n \in S => n + 1 \in S
    PROVE  Nat \subseteq S
<1> SUFFICES ASSUME Nat \ S # {} PROVE FALSE OBVIOUS
<1>1. PICK x \in Nat \ S : \A y \in Nat \ S : x <= y BY Zenon, Least
<1>2. x # 0 /\ x - 1 \in Nat BY <1>1
<1>3. x - 1 \in S BY <1>1, <1>2
<1> QED BY <1>1, <1>2, <1>3

(* g is the function that Bytes defines over the first n facts.            *)
Sums(facts, positions, n, g) ==
  g = [i \in 0..n |-> IF i = 0 THEN 0 ELSE g[i - 1] + IF i \in positions THEN facts[i].bytes ELSE 0]

(* Bytes is the last value of that function.                               *)
LEMMA BytesIs ==
    ASSUME NEW facts, NEW positions
    PROVE  Bytes(facts, positions) = (CHOOSE g : Sums(facts, positions, Len(facts), g))[Len(facts)]
  BY DEF Bytes, Sums

(* There is such a function, by induction on n.                            *)
LEMMA SumsExist ==
    ASSUME NEW facts, NEW positions, NEW n \in Nat
    PROVE  \E g : Sums(facts, positions, n, g)
<1> DEFINE S == {k \in Nat : \E g : Sums(facts, positions, k, g)}
<1>1. 0 \in S
  <2> DEFINE g == [i \in 0..0 |-> 0]
  <2>1. Sums(facts, positions, 0, g) BY DEF Sums
  <2> QED BY <2>1
<1>2. \A k \in Nat : k \in S => k + 1 \in S
  <2> SUFFICES ASSUME NEW k \in Nat, NEW g, Sums(facts, positions, k, g) PROVE \E h : Sums(facts, positions, k + 1, h)
    OBVIOUS
  <2> DEFINE w == IF k + 1 \in positions THEN facts[k + 1].bytes ELSE 0
             h == [i \in 0..k + 1 |-> IF i = k + 1 THEN g[k] + w ELSE g[i]]
  <2>1. \A i \in 0..k : h[i] = g[i] OBVIOUS
  <2>2. \A i \in 0..k : g[i] = IF i = 0 THEN 0 ELSE g[i - 1] + IF i \in positions THEN facts[i].bytes ELSE 0
    BY DEF Sums
  <2>3. h[k + 1] = h[k] + w
    BY <2>1
  <2>4. ASSUME NEW i \in 0..k + 1
        PROVE  h[i] = IF i = 0 THEN 0 ELSE h[i - 1] + IF i \in positions THEN facts[i].bytes ELSE 0
    <3>1. CASE i = k + 1
      <4>1. i # 0 /\ i - 1 = k BY <3>1
      <4> HIDE DEF h
      <4> QED BY <3>1, <4>1, <2>3
    <3>2. CASE i # k + 1
      <4>1. i \in 0..k BY <3>2
      <4>2. i # 0 => i - 1 \in 0..k BY <4>1
      <4> HIDE DEF h
      <4> QED BY <4>1, <4>2, <2>1, <2>2
    <3> QED BY Zenon, <3>1, <3>2
  <2>5. Sums(facts, positions, k + 1, h)
    <3>1. h = [i \in 0..k + 1 |-> h[i]] OBVIOUS
    <3> HIDE DEF h
    <3> QED BY Zenon, <3>1, <2>4 DEF Sums
  <2> QED BY <2>5
<1> QED BY Zenon, <1>1, <1>2, Induction

(* So Bytes satisfies its recursion.                                       *)
LEMMA BytesSum ==
    ASSUME NEW facts, Len(facts) \in Nat, NEW positions
    PROVE  \E g : /\ Bytes(facts, positions) = g[Len(facts)]
                  /\ g[0] = 0
                  /\ \A i \in 1..Len(facts) :
                       g[i] = g[i - 1] + IF i \in positions THEN facts[i].bytes ELSE 0
<1> DEFINE g == CHOOSE g : Sums(facts, positions, Len(facts), g)
<1>1. Sums(facts, positions, Len(facts), g)
  BY SumsExist
<1>2. Bytes(facts, positions) = g[Len(facts)] BY BytesIs
<1> HIDE DEF g
<1>3. \A i \in 0..Len(facts) : g[i] = IF i = 0 THEN 0 ELSE g[i - 1] + IF i \in positions THEN facts[i].bytes ELSE 0
  BY Zenon, <1>1 DEF Sums
<1> QED BY <1>2, <1>3

(* A sum of integers is an integer.                                        *)
LEMMA BytesType ==
    ASSUME NEW facts, Len(facts) \in Nat, NEW positions, \A i \in 1..Len(facts) : facts[i].bytes \in Int
    PROVE  Bytes(facts, positions) \in Int
<1>1. PICK g : /\ Bytes(facts, positions) = g[Len(facts)]
                  /\ g[0] = 0
                  /\ \A i \in 1..Len(facts) :
                       g[i] = g[i - 1] + IF i \in positions THEN facts[i].bytes ELSE 0
  BY BytesSum
<1> DEFINE S == {k \in Nat : k <= Len(facts) => g[k] \in Int}
<1>2. 0 \in S BY <1>1
<1>3. \A k \in Nat : k \in S => k + 1 \in S
  <2> SUFFICES ASSUME NEW k \in Nat, k + 1 <= Len(facts), g[k] \in Int PROVE g[k + 1] \in Int
    OBVIOUS
  <2>1. k + 1 \in 1..Len(facts) /\ (k + 1) - 1 = k OBVIOUS
  <2> QED BY <2>1, <1>1
<1>4. Len(facts) \in S BY Zenon, <1>2, <1>3, Induction
<1> QED BY <1>4, <1>1

(* The size of a set of positions does not change when the chain grows.    *)
LEMMA BytesKept ==
    ASSUME NEW f, NEW g, Len(f) \in Nat, Len(g) \in Nat, Len(f) <= Len(g),
           NEW positions \in SUBSET (1..Len(f)),
           \A i \in 1..Len(f) : f[i].bytes \in Int /\ g[i].bytes = f[i].bytes
    PROVE  Bytes(g, positions) = Bytes(f, positions)
<1>1. PICK F : /\ Bytes(f, positions) = F[Len(f)]
               /\ F[0] = 0
               /\ \A i \in 1..Len(f) : F[i] = F[i - 1] + IF i \in positions THEN f[i].bytes ELSE 0
  BY BytesSum
<1>2. PICK G : /\ Bytes(g, positions) = G[Len(g)]
               /\ G[0] = 0
               /\ \A i \in 1..Len(g) : G[i] = G[i - 1] + IF i \in positions THEN g[i].bytes ELSE 0
  BY BytesSum
<1> DEFINE S == {k \in Nat : k <= Len(f) => F[k] = G[k] /\ F[k] \in Int}
<1>3. 0 \in S BY <1>1, <1>2
<1>4. \A k \in Nat : k \in S => k + 1 \in S
  <2> SUFFICES ASSUME NEW k \in Nat, k + 1 <= Len(f), F[k] = G[k], F[k] \in Int
               PROVE  F[k + 1] = G[k + 1] /\ F[k + 1] \in Int
    OBVIOUS
  <2>1. k + 1 \in 1..Len(f) /\ k + 1 \in 1..Len(g) /\ (k + 1) - 1 = k OBVIOUS
  <2>2. F[k + 1] = F[k] + IF k + 1 \in positions THEN f[k + 1].bytes ELSE 0 BY Zenon, <2>1, <1>1
  <2>3. G[k + 1] = G[k] + IF k + 1 \in positions THEN g[k + 1].bytes ELSE 0 BY Zenon, <2>1, <1>2
  <2> QED BY <2>1, <2>2, <2>3
<1>5. Len(f) \in S BY Zenon, <1>3, <1>4, Induction
<1>6. F[Len(f)] = G[Len(f)] /\ F[Len(f)] \in Int BY <1>5
<1> DEFINE U == {k \in Nat : Len(f) + k <= Len(g) => G[Len(f) + k] = F[Len(f)]}
<1>7. 0 \in U BY <1>6
<1>8. \A k \in Nat : k \in U => k + 1 \in U
  <2> SUFFICES ASSUME NEW k \in Nat, Len(f) + (k + 1) <= Len(g), G[Len(f) + k] = F[Len(f)]
               PROVE  G[Len(f) + (k + 1)] = F[Len(f)]
    OBVIOUS
  <2> DEFINE j == Len(f) + (k + 1)
  <2>1. j \in 1..Len(g) /\ j - 1 = Len(f) + k /\ j \notin positions OBVIOUS
  <2>2. G[j] = G[j - 1] + IF j \in positions THEN g[j].bytes ELSE 0 BY Zenon, <2>1, <1>2
  <2> HIDE DEF j
  <2>3. G[j] = G[j - 1] + 0 BY <2>1, <2>2
  <2>4. G[j] = F[Len(f)] BY <2>3, <2>1, <1>6
  <2> QED BY <2>4 DEF j
<1>9. Len(g) - Len(f) \in Nat /\ Len(f) + (Len(g) - Len(f)) = Len(g) OBVIOUS
<1>10. Len(g) - Len(f) \in U BY Zenon, <1>7, <1>8, <1>9, Induction
<1>11. G[Len(g)] = F[Len(f)] BY <1>9, <1>10
<1> QED BY Zenon, <1>1, <1>2, <1>11
(* The least and the greatest of a nonempty set of positions.              *)
LEMMA MinMax ==
    ASSUME NEW n \in Nat, NEW T \in SUBSET (1..n), T # {}
    PROVE  /\ Min(T) \in T /\ \A y \in T : Min(T) <= y
           /\ Max(T) \in T /\ \A y \in T : Max(T) >= y
<1>0. T \subseteq Nat
  <2>1. 1..n \subseteq Nat OBVIOUS
  <2> QED BY <2>1
<1>1. \E x \in T : \A y \in T : x <= y
  BY Zenon, <1>0, Least
<1>2. \E x \in T : \A y \in T : x >= y
  <2> DEFINE U == {n - x : x \in T}
  <2>1. U \subseteq Nat
    <3>1. \A x \in T : n - x \in Nat OBVIOUS
    <3> QED BY <3>1
  <2>0. U # {}
    <3>1. PICK t \in T : TRUE BY Zenon
    <3>2. n - t \in U BY <3>1
    <3> QED BY <3>2
  <2>2. PICK u \in U : \A v \in U : u <= v
    <3> HIDE DEF U
    <3> QED BY Zenon, <2>0, <2>1, Least
  <2>3. PICK x \in T : u = n - x BY <2>2
  <2>4. \A y \in T : n - x <= n - y BY Zenon, <2>2, <2>3
  <2>5. \A y \in T : x >= y BY <2>4
  <2> QED BY <2>5
<1> QED BY Zenon, <1>1, <1>2 DEF Min, Max

(* Only removable evidence is chosen.                                      *)
LEMMA SelectedChoosable ==
    ASSUME NEW facts, NEW clock
    PROVE  Selected(facts, clock) \subseteq Choosable(facts)
  BY DEF Selected, AgeSelected, SizeSelected

LEMMA FactBytes ==
    ASSUME NEW facts \in Seq(Facts)
    PROVE  /\ Len(facts) \in Nat
           /\ \A i \in 1..Len(facts) : facts[i].bytes \in Int
           /\ \A positions : Bytes(facts, positions) \in Int
<1>1. Len(facts) \in Nat OBVIOUS
<1>2. \A i \in 1..Len(facts) : facts[i] \in Facts OBVIOUS
<1>3. \A i \in 1..Len(facts) : facts[i].bytes \in Int BY <1>2 DEF Facts
<1> QED BY <1>1, <1>3, BytesType

(* One run of what was chosen: adjacent, and all of it routine.            *)
LEMMA RunChosen ==
    ASSUME NEW facts \in Seq(Facts), NEW clock, Selected(facts, clock) # {},
           NEW lo, NEW hi,
           lo = Min(FirstRun(Selected(facts, clock))), hi = Max(FirstRun(Selected(facts, clock)))
    PROVE  /\ lo \in 1..Len(facts) /\ hi \in 1..Len(facts) /\ lo <= hi
           /\ \A p \in lo..hi : facts[p].kind = "routine"
<1> DEFINE S == Selected(facts, clock)
           n == Len(facts)
<1>1. n \in Nat /\ S \subseteq 1..n /\ \A p \in S : facts[p].kind = "routine"
  BY SelectedChoosable DEF Choosable, Uncovered, Removable
<1>0. S \subseteq Nat
  <2>1. 1..n \subseteq Nat OBVIOUS
  <2> QED BY <1>1, <2>1
<1>2. S # {} OBVIOUS
<1> HIDE DEF S
<1>3. Min(S) \in S /\ \A y \in S : Min(S) <= y
  BY Zenon, <1>1, <1>2, MinMax
<1>4. Min(S) \in FirstRun(S)
  <2>1. Min(S)..Min(S) \subseteq S BY <1>1, <1>3
  <2>2. MaxRun \in Nat \ {0} BY SelectionAssumption
  <2>3. Min(S) \in Nat BY Zenon, <1>0, <1>3
  <2>4. Min(S) < Min(S) + MaxRun BY <2>2, <2>3
  <2> QED BY Zenon, <2>1, <2>4, <1>3 DEF FirstRun
<1>5. FirstRun(S) \subseteq S /\ \A i \in FirstRun(S) : Min(S)..i \subseteq S
  BY DEF FirstRun
<1>6. FirstRun(S) \in SUBSET (1..n) /\ FirstRun(S) # {}
  BY Zenon, <1>1, <1>4, <1>5
<1>7. /\ Min(FirstRun(S)) \in FirstRun(S) /\ \A y \in FirstRun(S) : Min(FirstRun(S)) <= y
      /\ Max(FirstRun(S)) \in FirstRun(S) /\ \A y \in FirstRun(S) : Max(FirstRun(S)) >= y
  BY Zenon, <1>1, <1>6, MinMax
<1>8. lo = Min(FirstRun(S)) /\ hi = Max(FirstRun(S))
  BY DEF S
<1>9. lo = Min(S)
  <2>1. lo <= Min(S) /\ Min(S) <= lo BY <1>8, <1>7, <1>4, <1>5, <1>3
  <2>2. lo \in Nat /\ Min(S) \in Nat BY Zenon, <1>8, <1>7, <1>5, <1>3, <1>0
  <2> QED BY <2>1, <2>2
<1>10. lo..hi \subseteq S
  BY <1>9, <1>8, <1>7, <1>5
<1>11. lo \in 1..n /\ hi \in 1..n /\ lo <= hi
  BY Zenon, <1>8, <1>7, <1>6
<1> QED BY <1>10, <1>11, <1>1

(* A decision is a request, and a tombstone is exact where it was chosen.  *)
LEMMA DecisionMade ==
    ASSUME NEW facts \in Seq(Facts), NEW clock, NEW id \in Nat,
           NEW req, req = Decision(facts, clock, id)
    PROVE  DecisionOK(facts, req)
<1>1. NoRequest \in Requests /\ NoRequest.op = "none" /\ RunOf(NoRequest) = {}
  BY DEF NoRequest, Requests, RunOf
<1>2. CASE Selected(facts, clock) # {}
  <2>1. req = TombstoneRequest(facts, clock, id) BY <1>2 DEF Decision
  <2>2. PICK removed : removed = FirstRun(Selected(facts, clock)) OBVIOUS
  <2>3. PICK lo, hi : lo = Min(removed) /\ hi = Max(removed) BY Zenon
  <2>4. /\ lo \in 1..Len(facts) /\ hi \in 1..Len(facts) /\ lo <= hi
        /\ \A p \in lo..hi : facts[p].kind = "routine"
    BY <1>2, <2>2, <2>3, RunChosen
  <2>5. Len(facts) \in Nat /\ Bytes(facts, removed) \in Int BY Zenon, FactBytes
  <2>6. PICK b : b = Bytes(facts, removed) BY Zenon
  <2>7. PICK s : s = Successor([hi |-> hi], Len(facts)) OBVIOUS
  <2>8. s \in Nat BY <2>7, <2>5, <2>4 DEF Successor
  <2>9. PICK r : r = Reason(facts, clock) OBVIOUS
  <2>10. r \in {"none", "age", "size", "age_and_size"} BY <2>9 DEF Reason
  <2>11. req = [op |-> "tombstone", id |-> id, lo |-> lo, hi |-> hi, h0 |-> Len(facts), next |-> s,
                bytes |-> b, reason |-> r, routine |-> 0, protected |-> 0]
    BY Zenon, <2>1, <2>2, <2>3, <2>6, <2>7, <2>9 DEF TombstoneRequest, TombstoneOf
  <2>12. /\ req \in Requests /\ req.op = "tombstone" /\ req.lo = lo /\ req.hi = hi /\ req.h0 = Len(facts)
    BY <2>11, <2>4, <2>5, <2>6, <2>8, <2>10 DEF Requests
  <2> QED BY <2>12, <2>4, <2>5 DEF DecisionOK
<1>3. CASE req = BlockedRequest(facts, id)
  <2>1. Len(facts) \in Nat /\ RoutineBytes(facts) \in Int /\ ProtectedBytes(facts) \in Int
    BY Zenon, FactBytes DEF RoutineBytes, ProtectedBytes
  <2>2. req \in Requests /\ req.op = "blocked" /\ req.lo = 1 /\ req.hi = 0
    BY <1>3, <2>1 DEF BlockedRequest, Requests
  <2> QED BY <2>2 DEF RunOf, DecisionOK
<1>4. CASE req = NoRequest
  BY <1>1, <1>4 DEF DecisionOK
<1> QED BY <1>2, <1>3, <1>4 DEF Decision

(* The three facts.                                                        *)
LEMMA OperatorsHold == Operators
<1>1. LeastExists
  <2> SUFFICES ASSUME NEW n \in Nat, NEW T \in SUBSET (1..n), T # {} PROVE Min(T) \in T
    BY Zenon DEF LeastExists
  <2> QED BY MinMax
<1>2. SizeIsLocal
  <2> SUFFICES ASSUME NEW f, NEW g, NEW positions \in SUBSET (1..Len(f)),
                      Len(f) \in Nat, Len(g) \in Nat, Len(f) <= Len(g),
                      \A i \in 1..Len(f) : f[i].bytes \in Int /\ g[i].bytes = f[i].bytes
               PROVE  Bytes(g, positions) = Bytes(f, positions)
    BY Zenon DEF SizeIsLocal
  <2> QED BY Zenon, BytesKept
<1>3. DecisionsFit
  <2> SUFFICES ASSUME NEW facts \in Seq(Facts), NEW id \in Nat, NEW clock
               PROVE  DecisionOK(facts, Decision(facts, clock, id))
    BY DEF DecisionsFit
  <2>1. PICK req : req = Decision(facts, clock, id) OBVIOUS
  <2>2. DecisionOK(facts, req) BY <2>1, DecisionMade
  <2> QED BY <2>1, <2>2
<1> QED BY <1>1, <1>2, <1>3 DEF Operators

-----------------------------------------------------------------------------
(* The theorems. *)

(* The invariant: how far the request on disk, its control event in the    *)
(* evidence, the payloads and the ACK journal may be apart.                *)
THEOREM Invariant == Spec => []IInv
<1>1. Init => IInv BY Start
<1>2. IInv /\ [Next]_vars => IInv' BY Step, OperatorsHold
<1> QED BY <1>1, <1>2, PTL DEF Spec

(* What is removed is dense routine evidence that a tombstone in Core's    *)
(* own evidence names: the unlink, its recovery, and the proof before both. *)
THEOREM Tombstoned == Spec => []RemovedIsTombstoned
<1>1. ASSUME IInv PROVE RemovedIsTombstoned
  <2>1. Types /\ StreamOK /\ FileOK(file) BY <1>1 DEF IInv
  <2>2. Missing \subseteq Covered(chain)
    <3>1. CASE file.req.op # "tombstone" BY Zenon, <2>1, <3>1 DEF FileOK, RemovedOK
    <3>2. CASE file.req.op = "tombstone" /\ file.phase \in OpenPhases BY Zenon, <2>1, <3>2 DEF FileOK, RemovedOK
    <3>3. CASE file.req.op = "tombstone" /\ file.phase \notin OpenPhases
      <4>1. file.phase \in {"completed"} \union UnlinkPhases
        BY Zenon, <2>1, <3>3, BeforeTarget
      <4>2. Covered(chain) = RunOf(file.req) BY Zenon, <1>1, <3>3, <4>1, TargetFound DEF PhaseNeedsTarget
      <4> QED BY Zenon, <2>1, <4>1, <4>2 DEF FileOK, RemovedOK
    <3> QED BY Zenon, <3>1, <3>2, <3>3
  <2>3. ASSUME NEW i \in Missing
        PROVE  chain[i].kind = "routine" /\ \E t \in Tombstones(chain) : i \in RunOf(chain[t].req) /\ t > i
    <3>1. PICK t \in Tombstones(chain) : i \in RunOf(chain[t].req) BY Zenon, <2>2, <2>3 DEF Covered
    <3>2. t \in 1..Len(chain) /\ t \in 1..Len(spool) /\ t \in Tombstones(spool) /\ chain[t].req = spool[t].req
      BY Zenon, <2>1, <3>1, ChainTombstones
    <3>3. PICK r : r = spool[t].req OBVIOUS
    <3>4. r \in Requests /\ Exact(r) /\ r.h0 < t
      BY Zenon, <2>1, <3>2, <3>3, Fields DEF Events, FileOK, TombstonesOK
    <3>5. i \in RunOf(r) BY Zenon, <3>1, <3>2, <3>3
    <3>6. chain[i].kind = "routine" BY Zenon, <3>4, <3>5 DEF Exact
    <3>7. t > i
      <4>1. i <= r.h0 /\ i \in 1..Len(chain) /\ r.h0 \in Nat
        BY Zenon, <2>1, <3>4, <3>5, ExactRun DEF Requests
      <4> QED BY <3>2, <3>4, <4>1
    <3> QED BY Zenon, <3>1, <3>6, <3>7
  <2> QED BY Zenon, <2>3 DEF RemovedIsTombstoned
<1> QED BY <1>1, Invariant, PTL

(* Evidence goes only behind the ACK journal.                              *)
THEOREM Confirmed == Spec => []RemovedIsConfirmed
<1>1. ASSUME IInv PROVE RemovedIsConfirmed BY Zenon, <1>1 DEF IInv, FileOK, RemovedOK, RemovedIsConfirmed
<1> QED BY <1>1, Invariant, PTL

(* Without a state file no removal is half done.                           *)
THEOREM NothingHalfDone == Spec => []NoHalfRemoval
<1>1. ASSUME IInv PROVE NoHalfRemoval
  <2>1. FileOK(file) /\ NoFile.req.op = "none" BY Zenon, <1>1 DEF IInv, NoFile, NoRequest
  <2> QED BY Zenon, <2>1 DEF FileOK, RemovedOK, NoHalfRemoval
<1> QED BY <1>1, Invariant, PTL

(* A restart fences the evidence root only over a request whose control    *)
(* event an ordinary poll took before the request was bound to it.         *)
THEOREM FencedOnlyStranded == Spec => []FencedIsStranded
<1>1. ASSUME IInv PROVE FencedIsStranded BY <1>1 DEF IInv
<1> QED BY <1>1, Invariant, PTL

(* A request is given up only when it is carried out: the two steps that   *)
(* clear the state file.                                                   *)
THEOREM CarriedOut == Spec => RequestCarriedOut
<1> DEFINE Done == file # NoFile /\ file' = NoFile =>
                     /\ file.target \in DOMAIN chain /\ chain[file.target].req = file.req
                     /\ RunOf(file.req) \intersect payload = {}
<1>1. ASSUME IInv, [Next]_vars PROVE [Done]_vars
  <2> SUFFICES ASSUME file # NoFile, file' = NoFile
               PROVE  /\ file.target \in DOMAIN chain /\ chain[file.target].req = file.req
                      /\ RunOf(file.req) \intersect payload = {}
    BY Zenon
  <2>1. Types /\ StreamOK /\ PlaceOK /\ FileOK(file) BY <1>1 DEF IInv
  <2>2. file.phase # "none" BY Zenon, <2>1 DEF FileOK, PhaseOK
  <2>3. ASSUME NEW phase \in Phases \ {"none"}, NEW t \in Nat, Replace(phase, t) PROVE FALSE
    <3>1. PICK f : f = file' OBVIOUS
    <3>2. f \in {file, [phase |-> phase, req |-> file.req, target |-> t, witness |-> file.witness]}
      BY Zenon, <2>1, <2>3, <3>1, Advances DEF Replace, Publish
    <3> QED BY Zenon, <2>3, <3>1, <3>2 DEF NoFile
  <2>4. file' # file OBVIOUS
  <2>5. run.target \in Nat /\ file.target \in Nat BY Zenon, <2>1 DEF Types
  <2>6. ClearBlocked \/ ClearCompleted
    <3>1. ~Selecting BY DEF Selecting, SelectRetention
    <3>2. ~Faults
      <4>1. ASSUME file' = Advance(file, "commit_uncertain", file.target) PROVE FALSE
        BY Zenon, <2>3, <2>5, <4>1 DEF Replace, Publish, Phases
      <4> QED BY <2>4, <4>1 DEF Faults, Crash, PostLost, PostRefused, UnlinkFails, RecoveryFails, StepBack
    <3>3. ~Recovery
      BY Zenon, <2>3, <2>4, <2>5 DEF Recovery, Recover, ResumeUnlink, ResumeCompleted, ReconcileBoundary, Phases
    <3>4. ~Ordinary /\ ~Tick /\ \A kind \in Kinds : ~Emit(kind)
      BY <2>4 DEF Ordinary, Poll, PrepareAck, ConfirmAck, Tick, Emit
    <3>5. ~(ResumeRetention \/ Post \/ AcceptItem \/ AckLags \/ Authenticate \/ UnlinkPayload \/ Rebuild
            \/ PublishBoundary)
      BY Zenon, <2>4 DEF ResumeRetention, Post, AcceptItem, AckLags, Authenticate, UnlinkPayload, Rebuild,
                  PublishBoundary
    <3>6. ~(DeliverHistorical \/ Answer \/ AdvanceAppended \/ BeginUnlink \/ CompleteUnlink)
      BY Zenon, <2>3, <2>4, <2>5 DEF DeliverHistorical, Answer, AdvanceAppended, BeginUnlink, CompleteUnlink, Phases
    <3> QED BY Zenon, <1>1, <2>4, <3>1, <3>2, <3>3, <3>4, <3>5, <3>6 DEF Next, CarryOut, vars
  <2>7. CASE ClearBlocked
    <3>1. file.target \in DOMAIN chain /\ chain[file.target].req = file.req /\ file.req.op = "blocked"
      BY Zenon, <2>7 DEF ClearBlocked, BlockedProved, BlockedReports
    <3> QED BY Zenon, <2>1, <3>1 DEF FileOK, PhaseOK
  <2>8. CASE ClearCompleted
    <3>1. file.phase = "completed" BY Zenon, <2>1, <2>8 DEF ClearCompleted, PlaceOK, At
    <3>2. file.target \in 1..Len(chain) /\ spool[file.target].req = file.req
      BY Zenon, <2>1, <3>1 DEF FileOK, PhaseOK
    <3>3. RunOf(file.req) \subseteq Missing BY Zenon, <2>1, <3>1 DEF FileOK, RemovedOK
    <3> QED BY Zenon, <2>1, <3>2, <3>3, Fields DEF StreamOK, Missing
  <2> QED BY Zenon, <2>6, <2>7, <2>8
<1> QED BY <1>1, Invariant, PTL DEF Spec, RequestCarriedOut
=============================================================================
