--------------------------- MODULE DecisionProofs ---------------------------
(***************************************************************************)
(* What Core decides and delivers, for any number of candidates, any page,   *)
(* batch and clock: the journal of decisions can be opened again, the        *)
(* actuator is given nothing but durable manual decisions, a durable outcome *)
(* agrees with the actuator, and a commit is current.                        *)
(***************************************************************************)
EXTENDS Decision, TLAPS

\* SMT, then Zenon, with time to spare on a slow machine.
USE SMTT(30), ZenonT(20)

-----------------------------------------------------------------------------
(* The inductive invariant.                                                 *)

Decisions == [cand : Candidates, effect : {"manual", "deny"}, at : Int]
Entries ==
    [type : {"reserve", "action"}, intent : Candidates, sha : Int,
     state : {"none", "PREPARED", "APPROVED"}]

WorldType ==
    /\ now \in Int
    /\ projected \in [Candidates -> [status : {"absent", "standing", "invalidated"}, created : Int]]

StoreType ==
    /\ decided \in [records : Seq(Decisions), torn : BOOLEAN]
    /\ alog \in Seq(Entries)
    /\ db \in [phase : {"absent", "partial", "ready"}, readOnly : BOOLEAN,
               outcome : [Candidates -> {"none", "prepared", "quarantined"}]]

\* What the proofs need to know of the memory of the process.
CoreType ==
    /\ DOMAIN mem = DOMAIN BlankMem /\ mem.healthy \in BOOLEAN
    /\ DOMAIN work = DOMAIN BlankWork /\ work.page \in Seq(Candidates)

Types == WorldType /\ StoreType /\ CoreType

\* An open journal that is healthy has all of its file in memory.
KnowsAll == mem.healthy /\ ~At("down") => mem.known = Len(decided.records)

\* The candidate in hand is one of the projection, with evidence from before the policy
\* read the clock,
CandidateOK ==
    /\ At("candidate") => work.page # <<>>
    /\ pc \in {"issue", "evaluate", "commit"} => work.cur \in Candidates
    /\ At("commit") =>
          /\ work.effect \in {"manual", "deny"} /\ work.at \in Int
          /\ projected[work.cur].created <= work.at

\* and the one in delivery a durable manual decision without an outcome, whose plan
\* exists exactly when the actuator said so.
DeliveryOK ==
    /\ pc \in {"prepare", "persist"} => IsManual(work.cur) /\ db.outcome[work.cur] = "none"
    /\ At("persist") =>
          \/ work.answer = "prepared" /\ Has(work.cur, "PREPARED")
          \/ work.answer = "quarantined" /\ ~Has(work.cur, "PREPARED")

IInv ==
    /\ Types /\ KnowsAll /\ CandidateOK /\ DeliveryOK
    /\ JournalReopens /\ PlansAreDecided /\ ReceiptsMatchPlans

-----------------------------------------------------------------------------
(* The records of the journal.                                              *)

\* The record that a journal has of a candidate is the only one that names it.
LEMMA TheRecord ==
    ASSUME NEW s \in Seq(Decisions), Recoverable(s), NEW c, NEW k \in DOMAIN s, s[k].cand = c
    PROVE  s[CHOOSE j \in DOMAIN s : s[j].cand = c] = s[k]
<1>1. PICK j \in DOMAIN s : s[j].cand = c /\ j = CHOOSE i \in DOMAIN s : s[i].cand = c BY Zenon
<1>2. \A i, l \in DOMAIN s : i < l => s[i].cand # s[l].cand BY Zenon DEF Recoverable
<1>3. j = k BY <1>1, <1>2
<1>. QED BY <1>1, <1>3, Zenon

\* A healthy journal of an open process remembers the candidates and the last time of its
\* file.
LEMMA Remembered ==
    ASSUME Types, KnowsAll, mem.healthy, ~At("down")
    PROVE  /\ KnownSet = DecidedSet
           /\ \A k \in DOMAIN decided.records :
                 JournalReopens => decided.records[k].at <= LastCommitted
<1>1. decided.records \in Seq(Decisions) /\ mem.known = Len(decided.records)
  BY DEF Types, StoreType, KnowsAll
<1>2. Known = decided.records BY <1>1 DEF Known
<1>3. KnownSet = DecidedSet BY <1>2 DEF KnownSet, DecidedSet
<1>4. ASSUME NEW k \in DOMAIN decided.records, JournalReopens
      PROVE  decided.records[k].at <= LastCommitted
  <2>1. PICK n : n = Len(decided.records) BY Zenon
  <2>2. n \in DOMAIN decided.records /\ k \in Nat /\ n \in Nat /\ k <= n BY <1>1, <2>1
  <2>3. decided.records[n] \in Decisions BY <1>1, <2>2
  <2>4. decided.records[n].at \in Int BY <2>3 DEF Decisions
  <2>5. decided.records[k].at <= decided.records[n].at
    <3>1. CASE k = n BY <2>4, <3>1
    <3>2. CASE k < n
      <4>1. \A i, j \in DOMAIN decided.records :
               i < j => decided.records[i].at <= decided.records[j].at
        BY <1>4, Zenon DEF JournalReopens, Recoverable
      <4>. QED BY <2>2, <3>2, <4>1
    <3>. QED BY <2>2, <3>1, <3>2
  <2>6. LastCommitted = decided.records[n].at BY <1>1, <1>2, <2>1, <2>2 DEF LastCommitted
  <2>. QED BY <2>5, <2>6
<1>. QED BY <1>3, <1>4

-----------------------------------------------------------------------------
(* The steps of the tick.                                                   *)

\* What the process has in hand is in order.
CoreOK == CoreType /\ KnowsAll /\ CandidateOK /\ DeliveryOK

\* A process that ended has nothing in hand;
LEMMA ExitCore == ASSUME Exit PROVE CoreOK'
<1>1. CoreType'
  <2>1. work'.page \in Seq(Candidates) BY DEF Exit, BlankWork
  <2>. QED BY <2>1 DEF Exit, CoreType, BlankMem, BlankWork
<1>2. pc' = "down" BY DEF Exit
<1>. QED BY <1>1, <1>2 DEF CoreOK, KnowsAll, CandidateOK, DeliveryOK, At

\* nor has one between the parts of a tick,
LEMMA Between ==
    ASSUME CoreType', KnowsAll',
           pc' \notin {"issue", "evaluate", "commit", "prepare", "persist"},
           pc' = "candidate" => work'.page # <<>>
    PROVE  CoreOK'
  BY DEF CoreOK, CandidateOK, DeliveryOK, At

\* at the end of a delivery,
LEMMA ReturnCore ==
    ASSUME CoreType, KnowsAll, ~At("down"), UNCHANGED decided, NEW m, Return(m),
           DOMAIN m = DOMAIN BlankMem, m.healthy = mem.healthy, m.known = mem.known
    PROVE  CoreOK'
<1>1. /\ mem' = m /\ work' = [work EXCEPT !.cur = 0, !.back = "none", !.answer = "none"]
      /\ pc' \in {"poll", "retry", "refresh", "candidate"}
      /\ pc' = "candidate" => work.page # <<>>
  BY DEF Return, GotoRetry, GotoCandidate, Goto
<1>2. work'.page = work.page /\ DOMAIN work' = DOMAIN BlankWork BY <1>1 DEF CoreType, BlankWork
<1>3. CoreType' BY <1>1, <1>2 DEF CoreType
<1>4. KnowsAll' BY <1>1 DEF KnowsAll, At
<1>. QED BY <1>1, <1>2, <1>3, <1>4, Between

\* or once a candidate is put off.
LEMMA DeferCore ==
    ASSUME CoreType, KnowsAll, ~At("down"), Defer, DOMAIN mem' = DOMAIN mem,
           mem'.healthy \in BOOLEAN,
           mem'.healthy => mem.healthy /\ mem'.known = mem.known /\ UNCHANGED decided
    PROVE  CoreOK'
<1>1. /\ work' = [work EXCEPT !.cur = 0, !.effect = "none", !.at = 0]
      /\ pc' \in {"refresh", "candidate"}
      /\ pc' = "candidate" => work.page # <<>>
  BY DEF Defer, GotoCandidate, Goto
<1>2. work'.page = work.page /\ DOMAIN work' = DOMAIN BlankWork BY <1>1 DEF CoreType, BlankWork
<1>3. CoreType' BY <1>1, <1>2 DEF CoreType
<1>4. KnowsAll' BY <1>1 DEF KnowsAll, At
<1>. QED BY <1>1, <1>2, <1>3, <1>4, Between

\* A tick starts and refreshes what it remembers, and asks the actuator.
LEMMA TickCore ==
    ASSUME Types, CoreOK, OpenRuntime \/ RefreshCommits \/ SyncActuatorFeedback \/ RetryDeliveries
    PROVE  CoreOK'
<1>. USE DEF core, world
<1>0. CoreType /\ KnowsAll BY DEF CoreOK
<1>1. CASE OpenRuntime
  <2>1. /\ mem' = [BlankMem EXCEPT !.known = Len(decided.records), !.readOnly = db.readOnly]
        /\ decided' = [decided EXCEPT !.torn = FALSE] /\ pc' = "refresh" /\ UNCHANGED work
    BY <1>1 DEF OpenRuntime, Repaired, Goto
  <2>2. decided'.records = decided.records BY <2>1 DEF Types, StoreType
  <2>3. DOMAIN mem' = DOMAIN BlankMem /\ mem'.healthy = TRUE /\ mem'.known = Len(decided.records)
    BY <2>1 DEF BlankMem
  <2>4. CoreType' BY <1>0, <2>1, <2>3, Zenon DEF CoreType
  <2>5. KnowsAll' BY <2>2, <2>3 DEF KnowsAll
  <2>. QED BY <2>1, <2>4, <2>5, Between
<1>2. CASE RefreshCommits
  <2>1. CASE Exit BY <2>1, ExitCore
  <2>2. CASE /\ mem' = [mem EXCEPT !.commits = KnownSet, !.queue = @ \o Undelivered]
             /\ Goto("sync") /\ UNCHANGED <<work, feedback>>
    <3>1. /\ DOMAIN mem' = DOMAIN BlankMem /\ mem'.healthy = mem.healthy /\ mem'.known = mem.known
          /\ pc' = "sync"
      BY <1>0, <2>2 DEF CoreType, BlankMem, Goto
    <3>2. ~At("down") /\ UNCHANGED decided BY <1>2 DEF RefreshCommits, At
    <3>3. CoreType' BY <1>0, <2>2, <3>1 DEF CoreType
    <3>4. KnowsAll' BY <1>0, <3>1, <3>2 DEF KnowsAll
    <3>. QED BY <3>1, <3>3, <3>4, Between
  <2>. QED BY <1>2, <2>1, <2>2 DEF RefreshCommits
<1>3. CASE SyncActuatorFeedback
  <2>1. /\ work' = [work EXCEPT !.left = IF Len(mem.queue) < Batch THEN Len(mem.queue) ELSE Batch]
        /\ pc' \in {"poll", "retry"} /\ UNCHANGED <<decided, mem>> /\ ~At("down")
    BY <1>3, Zenon DEF SyncActuatorFeedback, GotoRetry, Goto, At
  <2>2. DOMAIN work' = DOMAIN BlankWork /\ work'.page = work.page
    BY <1>0, <2>1 DEF CoreType, BlankWork
  <2>3. CoreType' BY <1>0, <2>1, <2>2 DEF CoreType
  <2>4. KnowsAll' BY <1>0, <2>1 DEF KnowsAll
  <2>. QED BY <2>1, <2>3, <2>4, Between
<1>4. CASE RetryDeliveries
  <2>1. /\ work' = [work EXCEPT !.left = @ - 1, !.cur = Head(mem.queue), !.back = "retry"]
        /\ mem' = [mem EXCEPT !.queue = Tail(@)]
        /\ pc' = "deliver" /\ UNCHANGED decided /\ ~At("down")
    BY <1>4 DEF RetryDeliveries, Goto, At
  <2>2. DOMAIN work' = DOMAIN BlankWork /\ work'.page = work.page
    BY <1>0, <2>1 DEF CoreType, BlankWork
  <2>3. DOMAIN mem' = DOMAIN BlankMem /\ mem'.healthy = mem.healthy /\ mem'.known = mem.known
    BY <1>0, <2>1 DEF CoreType, BlankMem
  <2>4. CoreType' BY <1>0, <2>2, <2>3 DEF CoreType
  <2>5. KnowsAll' BY <1>0, <2>1, <2>3 DEF KnowsAll
  <2>. QED BY <2>1, <2>4, <2>5, Between
<1>. QED BY <1>1, <1>2, <1>3, <1>4

\* The loop over the candidates takes them from a page of the projection, and a poll finds
\* none in hand.
LEMMA CandidateCore ==
    ASSUME Types, CoreOK,
           PollOnce \/ CandidateIds \/ ProcessCandidate \/ IssueCandidateAdmission \/ Evaluate
    PROVE  CoreOK'
<1>. USE DEF core, world
<1>0. CoreType /\ KnowsAll /\ CandidateOK BY DEF CoreOK
<1>1. CASE PollOnce
  <2>1. pc' \in {"refresh", "page"} /\ UNCHANGED <<decided, mem, work>> /\ ~At("down")
    BY <1>1, Zenon DEF PollOnce, Goto, At
  <2>2. CoreType' BY <1>0, <2>1 DEF CoreType
  <2>3. KnowsAll' BY <1>0, <2>1 DEF KnowsAll
  <2>. QED BY <2>1, <2>2, <2>3, Between
<1>2. CASE CandidateIds
  <2>1. PICK page \in CandidatePages :
           /\ mem' = [mem EXCEPT !.after = IF Len(page) < Page THEN 0 ELSE page[Page]]
           /\ work' = [work EXCEPT !.page = page]
           /\ GotoCandidate(page)
    BY <1>2, Zenon DEF CandidateIds
  <2>2. UNCHANGED decided /\ ~At("down") BY <1>2 DEF CandidateIds, At
  <2>3. page \in Seq(Candidates) BY DecisionConstants DEF CandidatePages, Listed
  <2>4. DOMAIN work' = DOMAIN BlankWork /\ work'.page = page
    BY <1>0, <2>1 DEF CoreType, BlankWork
  <2>5. DOMAIN mem' = DOMAIN BlankMem /\ mem'.healthy = mem.healthy /\ mem'.known = mem.known
    BY <1>0, <2>1 DEF CoreType, BlankMem
  <2>6. CoreType' BY <1>0, <2>3, <2>4, <2>5 DEF CoreType
  <2>7. KnowsAll' BY <1>0, <2>2, <2>5 DEF KnowsAll
  <2>8. pc' \in {"refresh", "candidate"} /\ (pc' = "candidate" => page # <<>>)
    BY <2>1 DEF GotoCandidate, Goto
  <2>. QED BY <2>4, <2>6, <2>7, <2>8, Between
<1>3. CASE ProcessCandidate
  <2>1. /\ work.page \in Seq(Candidates) /\ work.page # <<>> /\ UNCHANGED <<decided, mem>>
        /\ ~At("down")
    BY <1>0, <1>3 DEF ProcessCandidate, At, CoreType, CandidateOK
  <2>2. Head(work.page) \in Candidates /\ Tail(work.page) \in Seq(Candidates) BY <2>1
  <2>3. KnowsAll' BY <1>0, <2>1 DEF KnowsAll
  <2>4. CASE work' = [work EXCEPT !.page = Tail(@)] /\ GotoCandidate(work'.page)
    <3>1. DOMAIN work' = DOMAIN BlankWork /\ work'.page = Tail(work.page)
      BY <1>0, <2>4 DEF CoreType, BlankWork
    <3>2. CoreType' BY <1>0, <2>1, <2>2, <3>1 DEF CoreType
    <3>3. pc' \in {"refresh", "candidate"} /\ (pc' = "candidate" => work'.page # <<>>)
      BY <2>4 DEF GotoCandidate, Goto
    <3>. QED BY <2>3, <3>2, <3>3, Between
  <2>5. CASE work' = [work EXCEPT !.page = Tail(@), !.cur = Head(work.page)] /\ Goto("issue")
    <3>1. /\ DOMAIN work' = DOMAIN BlankWork /\ work'.page = Tail(work.page)
          /\ work'.cur = Head(work.page) /\ pc' = "issue"
      BY <1>0, <2>5 DEF CoreType, BlankWork, Goto
    <3>2. CoreType' BY <1>0, <2>1, <2>2, <3>1 DEF CoreType
    <3>. QED BY <2>2, <2>3, <3>1, <3>2 DEF CoreOK, CandidateOK, DeliveryOK, At
  <2>. QED BY <1>3, <2>4, <2>5 DEF ProcessCandidate
<1>4. CASE IssueCandidateAdmission
  <2>1. UNCHANGED <<decided, mem>> /\ At("issue") /\ ~At("down")
    BY <1>4 DEF IssueCandidateAdmission, At
  <2>2. CASE Defer BY <1>0, <2>1, <2>2, DeferCore DEF CoreType
  <2>3. CASE pc' = "evaluate" /\ UNCHANGED work
    <3>1. CoreType' /\ KnowsAll' BY <1>0, <2>1, <2>3 DEF CoreType, KnowsAll
    <3>. QED BY <1>0, <2>1, <2>3, <3>1 DEF CoreOK, CandidateOK, DeliveryOK, At
  <2>. QED BY <1>4, <2>2, <2>3 DEF IssueCandidateAdmission, Goto
<1>5. CASE Evaluate
  <2>1. UNCHANGED <<world, decided, mem>> /\ At("evaluate") /\ ~At("down")
    BY <1>5, Zenon DEF Evaluate, At
  <2>2. CASE Defer BY <1>0, <2>1, <2>2, DeferCore DEF CoreType
  <2>3. CASE /\ Age(work.cur) >= 0 /\ pc' = "commit"
             /\ \E effect \in Effects(work.cur) : work' = [work EXCEPT !.effect = effect, !.at = now]
    <3>1. PICK effect \in {"manual", "deny"} : work' = [work EXCEPT !.effect = effect, !.at = now]
      BY <2>3, Zenon DEF Effects
    <3>2. /\ DOMAIN work' = DOMAIN BlankWork /\ work'.page = work.page /\ work'.cur = work.cur
          /\ work'.effect = effect /\ work'.at = now
      BY <1>0, <3>1 DEF CoreType, BlankWork
    <3>3. CoreType' /\ KnowsAll' BY <1>0, <2>1, <3>2 DEF CoreType, KnowsAll
    <3>4. work.cur \in Candidates BY <1>0, <2>1 DEF CandidateOK, At
    <3>5. now \in Int /\ projected[work.cur].created \in Int BY <3>4 DEF Types, WorldType
    <3>6. projected[work.cur].created <= now BY <2>3, <3>5 DEF Age
    <3>. QED BY <2>1, <2>3, <3>2, <3>3, <3>4, <3>5, <3>6 DEF CoreOK, CandidateOK, DeliveryOK, At
  <2>. QED BY <1>5, <2>2, <2>3, Zenon DEF Evaluate, Evaluable, Goto
<1>. QED BY <1>1, <1>2, <1>3, <1>4, <1>5

-----------------------------------------------------------------------------
(* What the actuator does with an intent.                                   *)

\* The record of a manual decision is one of the journal.
LEMMA RecordIs ==
    ASSUME StoreType, NEW c, IsManual(c)
    PROVE  RecordOf(c) \in Decisions /\ RecordOf(c).cand = c /\ c \in Candidates
<1>1. \E k \in DOMAIN decided.records : decided.records[k].cand = c BY DEF IsManual, DecidedSet
<1>2. PICK k \in DOMAIN decided.records :
         decided.records[k].cand = c /\ RecordOf(c) = decided.records[k]
  BY <1>1, Zenon DEF RecordOf
<1>3. decided.records[k] \in Decisions BY DEF StoreType
<1>. QED BY <1>2, <1>3 DEF Decisions

\* A reservation of a decided intent is for its digest: the actuator never finds a conflict.
LEMMA Admitted == ASSUME PlansAreDecided, NEW c PROVE Admits(c)
  BY DEF PlansAreDecided, Admits

\* An entry that a call can add.
Added(c, e) ==
    e \in Entries /\ e.intent = c /\ e.sha = RecordOf(c).at /\ e.state \in {"none", "PREPARED"}

\* A call adds nothing but a reservation and a plan of this intent.
LEMMA ProgressAdds ==
    ASSUME StoreType, NEW c, IsManual(c), NEW done \in Progress(c), alog' = alog \o done
    PROVE  /\ alog' \in Seq(Entries)
           /\ \A k \in DOMAIN alog : k \in DOMAIN alog' /\ alog'[k] = alog[k]
           /\ \A k \in DOMAIN alog' \ DOMAIN alog :
                 Added(c, alog'[k]) /\ (Len(done) < 2 => alog'[k].state = "none")
           /\ Len(done) = 2 => Has(c, "PREPARED")'
<1>1. PICK sha : sha = RecordOf(c).at BY Zenon
<1>2. PICK reserve, plan : reserve = Reserve(c, sha) /\ plan = Action(c, sha, "PREPARED") BY Zenon
<1>3. sha \in Int /\ c \in Candidates BY <1>1, RecordIs DEF Decisions
<1>4. Added(c, reserve) /\ Added(c, plan) /\ reserve.state = "none" /\ plan.state = "PREPARED"
  BY <1>1, <1>2, <1>3 DEF Added, Reserve, Action, Entries
<1>5. done = <<>> \/ done = <<reserve>> \/ done = <<reserve, plan>>
  BY <1>1, <1>2, Zenon DEF Progress
<1>6. reserve \in Entries /\ plan \in Entries BY <1>4 DEF Added
<1>7. /\ done \in Seq(Entries) /\ Len(done) \in 0..2
      /\ Len(done) >= 1 => done[1] = reserve
      /\ Len(done) = 2 => done[2] = plan
  <2>1. CASE done = <<>> BY <2>1
  <2>2. CASE done = <<reserve>> BY <1>6, <2>2
  <2>3. CASE done = <<reserve, plan>> BY <1>6, <2>3
  <2>. QED BY <1>5, <2>1, <2>2, <2>3
<1>8. alog \in Seq(Entries) BY DEF StoreType
<1>9. /\ alog' \in Seq(Entries) /\ Len(alog') = Len(alog) + Len(done)
      /\ \A k \in 1..Len(alog) : alog'[k] = alog[k]
      /\ \A k \in 1..Len(done) : alog'[Len(alog) + k] = done[k]
  BY <1>7, <1>8
<1>10. DOMAIN alog = 1..Len(alog) /\ DOMAIN alog' = 1..Len(alog') /\ Len(alog) \in Nat BY <1>8, <1>9
<1>11. \A k \in DOMAIN alog : k \in DOMAIN alog' /\ alog'[k] = alog[k] BY <1>7, <1>9, <1>10
<1>12. ASSUME NEW k \in DOMAIN alog' \ DOMAIN alog
       PROVE  Added(c, alog'[k]) /\ (Len(done) < 2 => alog'[k].state = "none")
  <2>1. PICK m \in 1..Len(done) : k = Len(alog) + m
    <3>1. k - Len(alog) \in 1..Len(done) BY <1>7, <1>9, <1>10
    <3>. QED BY <1>10, <3>1
  <2>2. alog'[k] = done[m] BY <1>9, <2>1
  <2>3. CASE m = 1 BY <1>4, <1>7, <2>1, <2>2, <2>3
  <2>4. CASE m = 2 BY <1>4, <1>7, <2>1, <2>2, <2>4
  <2>. QED BY <1>7, <2>1, <2>3, <2>4
<1>13. ASSUME Len(done) = 2 PROVE Has(c, "PREPARED")'
  <2>1. PICK k \in Nat : k = Len(alog) + 2 BY <1>10
  <2>2. k \in DOMAIN alog' /\ alog'[k] = plan BY <1>7, <1>9, <1>10, <1>13, <2>1
  <2>. QED BY <1>4, <2>2 DEF Has, Added
<1>. QED BY <1>9, <1>11, <1>12, <1>13

\* A delivery ends, or goes on with a manual decision that has no outcome; the answer it
\* takes to the database is what the actuator did.
LEMMA DeliveryCore ==
    ASSUME Types, CoreOK, JournalReopens, PlansAreDecided, Deliver \/ Prepare \/ Persist
    PROVE  CoreOK'
<1>. USE DEF core, world
<1>0. CoreType /\ KnowsAll /\ DeliveryOK /\ StoreType BY DEF CoreOK, Types
<1>1. ~At("down") BY Zenon DEF Deliver, Prepare, Persist, At
<1>2. ASSUME UNCHANGED decided, Requeue PROVE CoreOK'
  <2>1. PICK m : m = [mem EXCEPT !.queue = Append(@, work.cur)] BY Zenon
  <2>2. DOMAIN m = DOMAIN BlankMem /\ m.healthy = mem.healthy /\ m.known = mem.known
    BY <1>0, <2>1 DEF CoreType, BlankMem
  <2>3. Return(m) BY <1>2, <2>1, Zenon DEF Requeue
  <2>. QED BY <1>0, <1>1, <1>2, <2>2, <2>3, ReturnCore
<1>3. ASSUME UNCHANGED decided, NEW outcome, Settle(outcome) PROVE CoreOK'
  <2>1. PICK m : m = IF outcome = "prepared" THEN [mem EXCEPT !.prepared = @ \cup {work.cur}]
                     ELSE [mem EXCEPT !.quarantined = @ \cup {work.cur}]
    BY Zenon
  <2>2. DOMAIN m = DOMAIN BlankMem /\ m.healthy = mem.healthy /\ m.known = mem.known
    BY <1>0, <2>1 DEF CoreType, BlankMem
  <2>3. Return(m) BY <1>3, <2>1, Zenon DEF Settle
  <2>. QED BY <1>0, <1>1, <1>3, <2>2, <2>3, ReturnCore
<1>4. CASE Deliver
  <2>1. UNCHANGED <<decided, db, alog>> BY <1>4 DEF Deliver
  <2>2. CASE Return(mem) BY <1>0, <1>1, <2>1, <2>2, ReturnCore DEF CoreType
  <2>3. CASE Requeue BY <1>2, <2>1, <2>3
  <2>4. CASE Exit BY <2>4, ExitCore
  <2>5. CASE Settle(db.outcome[work.cur]) BY <1>3, <2>1, <2>5
  <2>6. CASE /\ IsManual(work.cur) /\ db.outcome[work.cur] = "none"
             /\ pc' = "prepare" /\ UNCHANGED <<mem, work>>
    <3>1. CoreType' /\ KnowsAll' BY <1>0, <1>1, <2>1, <2>6 DEF CoreType, KnowsAll, At
    <3>2. IsManual(work.cur)' BY <2>1, <2>6 DEF IsManual, DecidedSet, RecordOf
    <3>3. db'.outcome[work'.cur] = "none" BY <2>1, <2>6
    <3>. QED BY <2>6, <3>1, <3>2, <3>3 DEF CoreOK, CandidateOK, DeliveryOK, At
  <2>. QED BY <1>4, <2>2, <2>3, <2>4, <2>5, <2>6, Zenon DEF Deliver, Goto
<1>5. CASE Prepare
  <2>1. PICK c : c = work.cur BY Zenon
  <2>2. /\ UNCHANGED <<decided, db>> /\ IsManual(c) /\ db.outcome[c] = "none"
        /\ PrepareSucceeds(c) \/ PrepareRejected(c) \/ PrepareUnanswered(c)
    BY <1>0, <1>5, <2>1 DEF Prepare, DeliveryOK, At
  <2>3. ASSUME NEW a, Answer(a), \/ a = "prepared" /\ Has(c, "PREPARED")'
                                 \/ a = "quarantined" /\ ~Has(c, "PREPARED")'
        PROVE  CoreOK'
    <3>1. work' = [work EXCEPT !.answer = a] /\ pc' = "persist" /\ UNCHANGED mem
      BY <2>3 DEF Answer, Goto
    <3>2. /\ DOMAIN work' = DOMAIN BlankWork /\ work'.page = work.page /\ work'.cur = work.cur
          /\ work'.answer = a
      BY <1>0, <3>1 DEF CoreType, BlankWork
    <3>3. CoreType' /\ KnowsAll' BY <1>0, <1>1, <2>2, <3>1, <3>2 DEF CoreType, KnowsAll, At
    <3>4. IsManual(c)' BY <2>2 DEF IsManual, DecidedSet, RecordOf
    <3>5. IsManual(work.cur)' /\ db'.outcome[work'.cur] = "none" BY <2>1, <2>2, <3>2, <3>4
    <3>6. \/ work'.answer = "prepared" /\ Has(work.cur, "PREPARED")'
          \/ work'.answer = "quarantined" /\ ~Has(work.cur, "PREPARED")'
      BY <2>1, <2>3, <3>2
    <3>. QED BY <3>1, <3>3, <3>5, <3>6 DEF CoreOK, CandidateOK, DeliveryOK, At
  <2>4. CASE PrepareSucceeds(c)
    <3>1. PICK done \in Progress(c) :
             (Has(c, "PREPARED") \/ Len(done) = 2) /\ alog' = alog \o done
      BY <2>4 DEF PrepareSucceeds
    <3>2. Has(c, "PREPARED")' BY <1>0, <2>2, <3>1, ProgressAdds DEF Has
    <3>. QED BY <2>3, <2>4, <3>2 DEF PrepareSucceeds
  <2>5. CASE PrepareRejected(c)
    <3>1. PICK done \in Progress(c) : Len(done) < 2 /\ alog' = alog \o done
      BY <2>5 DEF PrepareRejected
    <3>2. ~Has(c, "PREPARED") BY <2>5, Admitted DEF PrepareRejected
    <3>3. ~Has(c, "PREPARED")' BY <1>0, <2>2, <3>1, <3>2, ProgressAdds DEF Has
    <3>. QED BY <2>3, <2>5, <3>3 DEF PrepareRejected
  <2>6. CASE PrepareUnanswered(c)
    <3>1. CASE Requeue BY <1>2, <2>2, <3>1
    <3>2. CASE Exit BY <3>2, ExitCore
    <3>. QED BY <2>6, <3>1, <3>2, Zenon DEF PrepareUnanswered
  <2>. QED BY <2>2, <2>4, <2>5, <2>6
<1>6. CASE Persist
  <2>1. UNCHANGED decided BY <1>6, Zenon DEF Persist
  <2>2. CASE Settle(work.answer) BY <1>3, <2>1, <2>2
  <2>3. CASE Exit BY <2>3, ExitCore
  <2>. QED BY <1>6, <2>2, <2>3, Zenon DEF Persist
<1>. QED BY <1>4, <1>5, <1>6

-----------------------------------------------------------------------------
(* The commit, and the world.                                               *)

\* The step that decides a candidate: its view is reauthenticated, and its record the next
\* of the journal.
Commits ==
    /\ At("commit") /\ Committable(work.cur)
    /\ decided'.records = Append(decided.records, Committed(work.cur))

\* No other step adds a record, and none removes one.
LEMMA RecordsStep ==
    ASSUME Types, [Next]_vars
    PROVE  \/ UNCHANGED decided.records
           \/ Commits /\ CommitPolicyEvaluation /\ UNCHANGED <<now, lease, projected, alog, db>>
<1>. USE DEF core, world
<1>0. decided \in [records : Seq(Decisions), torn : BOOLEAN] BY DEF Types, StoreType
<1>1. CASE CommitPolicyEvaluation
  <2>1. UNCHANGED <<now, lease, projected, alog, db>> BY <1>1 DEF CommitPolicyEvaluation
  <2>2. CASE UNCHANGED decided BY <2>2
  <2>3. CASE decided' = [decided EXCEPT !.torn = TRUE] BY <1>0, <2>3
  <2>4. CASE /\ Committable(work.cur)
             /\ decided' = [decided EXCEPT !.records = Append(@, Committed(work.cur))]
    <3>1. decided'.records = Append(decided.records, Committed(work.cur)) BY <1>0, <2>4
    <3>. QED BY <1>1, <2>1, <2>4, <3>1 DEF Commits, CommitPolicyEvaluation
  <2>. QED BY <1>1, <2>2, <2>3, <2>4, Zenon
           DEF CommitPolicyEvaluation, AppendCommits, AppendUncertain
<1>2. CASE OpenRuntime
  <2>1. decided' = [decided EXCEPT !.torn = FALSE] BY <1>2 DEF OpenRuntime, Repaired
  <2>. QED BY <1>0, <2>1
<1>3. CASE RefreshCommits \/ SyncActuatorFeedback \/ RetryDeliveries \/ Deliver \/ Prepare \/ Persist
  BY <1>3, Zenon DEF RefreshCommits, SyncActuatorFeedback, RetryDeliveries, Deliver, Prepare, Persist
<1>4. CASE PollOnce \/ CandidateIds \/ ProcessCandidate \/ IssueCandidateAdmission \/ Evaluate
  BY <1>4, Zenon DEF PollOnce, CandidateIds, ProcessCandidate, IssueCandidateAdmission, Evaluate
<1>5. CASE \/ ActuatorDecides \/ InitializeDatabaseCut \/ Crash \/ ClockAdvances \/ ClockIsSet
           \/ UNCHANGED vars
  BY <1>5, Zenon DEF ActuatorDecides, InitializeDatabaseCut, Crash, ClockAdvances, ClockIsSet, vars
<1>. QED BY <1>1, <1>2, <1>3, <1>4, <1>5 DEF Next, Core

\* A commit that is certain is remembered; after one that is not, the journal is unhealthy.
LEMMA CommitCore ==
    ASSUME Types, CoreOK, CommitPolicyEvaluation PROVE CoreOK'
<1>. USE DEF core, world
<1>0. CoreType /\ KnowsAll /\ StoreType BY DEF CoreOK, Types
<1>1. ~At("down") BY DEF CommitPolicyEvaluation, At
<1>2. CASE Committable(work.cur) /\ AppendCommits(work.cur)
  <2>1. /\ decided' = [decided EXCEPT !.records = Append(@, Committed(work.cur))]
        /\ mem' = [mem EXCEPT !.commits = @ \cup {work.cur}, !.known = @ + 1]
        /\ work' = [work EXCEPT !.back = "candidate", !.effect = "none", !.at = 0]
        /\ pc' = "deliver" /\ mem.healthy
    BY <1>2 DEF AppendCommits, Goto, Committable, Admissible
  <2>2. DOMAIN work' = DOMAIN BlankWork /\ work'.page = work.page
    BY <1>0, <2>1 DEF CoreType, BlankWork
  <2>3. DOMAIN mem' = DOMAIN BlankMem /\ mem'.healthy = mem.healthy /\ mem'.known = mem.known + 1
    BY <1>0, <2>1, Zenon DEF CoreType, BlankMem
  <2>4. CoreType' BY <1>0, <2>2, <2>3 DEF CoreType
  <2>5. decided.records \in Seq(Decisions) /\ decided'.records = Append(decided.records, Committed(work.cur))
    BY <1>0, <2>1 DEF StoreType
  <2>6. mem.known = Len(decided.records) BY <1>0, <1>1, <2>1 DEF KnowsAll
  <2>7. Len(decided'.records) = Len(decided.records) + 1 BY <2>5
  <2>8. KnowsAll' BY <2>3, <2>6, <2>7 DEF KnowsAll
  <2>. QED BY <2>1, <2>4, <2>8, Between
<1>3. CASE AppendUncertain(work.cur)
  <2>1. mem' = [mem EXCEPT !.healthy = FALSE] /\ Defer BY <1>3 DEF AppendUncertain
  <2>2. DOMAIN mem' = DOMAIN mem /\ mem'.healthy = FALSE
    BY <1>0, <2>1 DEF CoreType, BlankMem
  <2>. QED BY <1>0, <1>1, <2>1, <2>2, DeferCore
<1>4. CASE Defer /\ UNCHANGED <<decided, mem>>
  BY <1>0, <1>1, <1>4, DeferCore DEF CoreType
<1>. QED BY <1>2, <1>3, <1>4 DEF CommitPolicyEvaluation

\* A crash leaves nothing in hand, and the clock, the actuator and the database change
\* nothing of what is.
LEMMA WorldCore ==
    ASSUME Types, CoreOK,
           \/ ActuatorDecides \/ InitializeDatabaseCut \/ Crash \/ ClockAdvances \/ ClockIsSet
           \/ UNCHANGED vars
    PROVE  CoreOK'
<1>. USE DEF core, world
<1>0. CoreType /\ KnowsAll BY DEF CoreOK
<1>1. CASE Crash BY <1>1, ExitCore DEF Crash
<1>2. CASE ActuatorDecides \/ InitializeDatabaseCut
  <2>1. UNCHANGED <<core, decided>> /\ pc \in {"sync", "down"}
    BY <1>2, Zenon DEF ActuatorDecides, InitializeDatabaseCut, At
  <2>2. CoreType' /\ KnowsAll' BY <1>0, <2>1 DEF CoreType, KnowsAll, At
  <2>. QED BY <2>1, <2>2, Between
<1>3. CASE ClockAdvances \/ ClockIsSet \/ UNCHANGED vars
  <2>1. UNCHANGED <<pc, work, decided, projected, alog, db>>
    BY <1>3, Zenon DEF ClockAdvances, ClockIsSet, vars
  <2>2. UNCHANGED mem \/ \E n : mem' = [mem EXCEPT !.drift = n]
    BY <1>3, Zenon DEF ClockAdvances, ClockIsSet, vars
  <2>3. DOMAIN mem' = DOMAIN mem /\ mem'.healthy = mem.healthy /\ mem'.known = mem.known
    BY <1>0, <2>2 DEF CoreType, BlankMem
  <2>4. CoreType' /\ KnowsAll' BY <1>0, <2>1, <2>3 DEF CoreType, KnowsAll, At
  <2>5. CandidateOK' BY <2>1 DEF CoreOK, CandidateOK, At
  <2>6. DeliveryOK' BY Zenon, <2>1 DEF CoreOK, DeliveryOK, At, Has, IsManual, DecidedSet, RecordOf
  <2>. QED BY <2>4, <2>5, <2>6 DEF CoreOK
<1>. QED BY <1>1, <1>2, <1>3

-----------------------------------------------------------------------------
(* The stores.                                                              *)

\* The record of a commit is one that the journal can be opened with again: it is of a new
\* candidate, and not earlier than the last.
LEMMA CommitReopens ==
    ASSUME Types, KnowsAll, CandidateOK, JournalReopens, Commits
    PROVE  Committed(work.cur) \in Decisions /\ Recoverable(decided'.records)
<1>1. PICK r, s : r = Committed(work.cur) /\ s = decided.records BY Zenon
<1>2. mem.healthy /\ ~At("down") /\ work.cur \notin KnownSet /\ now >= LastCommitted
  BY DEF Commits, Committable, Admissible, At
<1>3. r \in Decisions /\ r.cand = work.cur /\ r.at = now
  BY <1>1 DEF Committed, Decisions, Commits, CandidateOK, At, Types, WorldType
<1>4. s \in Seq(Decisions) /\ decided'.records = Append(s, r)
  BY <1>1 DEF Types, StoreType, Commits
<1>5. \A k \in DOMAIN s : s[k].cand # r.cand
  BY <1>1, <1>2, <1>3, Remembered DEF DecidedSet
<1>6. \A k \in DOMAIN s : s[k].at \in Int /\ s[k].at <= r.at
  <2>1. \A k \in DOMAIN s : s[k].at <= LastCommitted BY <1>1, <1>2, Remembered
  <2>2. \A k \in DOMAIN s : s[k] \in Decisions BY <1>4
  <2>3. \A k \in DOMAIN s : s[k].at \in Int BY <2>2 DEF Decisions
  <2>4. LastCommitted \in Int \/ s = <<>>
    <3>1. Known = s
      BY <1>1, <1>2, <1>4 DEF Known, KnowsAll
    <3>2. ASSUME s # <<>> PROVE Len(s) \in DOMAIN s BY <1>4, <3>2
    <3>. QED BY <2>3, <3>1, <3>2 DEF LastCommitted
  <2>5. CASE s = <<>> BY <2>5
  <2>6. CASE LastCommitted \in Int
    <3>1. now \in Int BY DEF Types, WorldType
    <3>. QED BY <1>2, <1>3, <2>1, <2>3, <2>6, <3>1
  <2>. QED BY <2>4, <2>5, <2>6
<1>7. PICK n \in Nat : n = Len(s) BY <1>4
<1>8. PICK u : u = Append(s, r) BY Zenon
<1>9. /\ DOMAIN s = 1..n /\ DOMAIN u = 1..(n + 1) /\ u[n + 1] = r
      /\ \A k \in 1..n : u[k] = s[k]
  BY <1>3, <1>4, <1>7, <1>8
<1>10. ASSUME NEW j \in DOMAIN u, NEW k \in DOMAIN u, j < k
       PROVE  u[j].cand # u[k].cand /\ u[j].at <= u[k].at
  <2>1. j \in 1..n /\ u[j] = s[j] BY <1>9, <1>10
  <2>2. CASE k = n + 1 BY <1>5, <1>6, <1>9, <2>1, <2>2
  <2>3. CASE k # n + 1
    <3>1. k \in 1..n /\ u[k] = s[k] BY <1>9, <2>3
    <3>2. Recoverable(s) BY <1>1 DEF JournalReopens
    <3>. QED BY <1>9, <1>10, <2>1, <3>1, <3>2 DEF Recoverable
  <2>. QED BY <2>2, <2>3
<1>11. Recoverable(u) BY <1>10 DEF Recoverable
<1>. QED BY <1>1, <1>3, <1>4, <1>8, <1>11

\* A decision stays what it is.
LEMMA DecisionsStay ==
    ASSUME Types, StoreType', JournalReopens, JournalReopens', [Next]_vars, NEW c, c \in DecidedSet
    PROVE  (c \in DecidedSet)' /\ RecordOf(c)' = RecordOf(c) /\ (IsManual(c)' <=> IsManual(c))
<1>1. PICK s, u : s = decided.records /\ u = decided'.records BY Zenon
<1>2. s \in Seq(Decisions) /\ u \in Seq(Decisions) BY <1>1 DEF Types, StoreType
<1>3. Recoverable(s) /\ Recoverable(u) BY <1>1 DEF JournalReopens
<1>4. PICK k \in DOMAIN s : s[k].cand = c BY <1>1 DEF DecidedSet
<1>5. k \in DOMAIN u /\ u[k] = s[k]
  <2>1. CASE u = s BY <2>1
  <2>2. CASE u = Append(s, Committed(work.cur)) BY <1>2, <2>2
  <2>. QED BY <1>1, <2>1, <2>2, RecordsStep DEF Commits
<1>6. RecordOf(c) = s[k] BY <1>1, <1>2, <1>3, <1>4, TheRecord DEF RecordOf
<1>7. u[k].cand = c BY <1>4, <1>5
<1>8. u[CHOOSE j \in DOMAIN u : u[j].cand = c] = u[k] BY <1>2, <1>3, <1>5, <1>7, TheRecord
<1>9. RecordOf(c)' = u[k] BY <1>1, <1>8 DEF RecordOf
<1>10. (c \in DecidedSet)' BY <1>1, <1>5, <1>7 DEF DecidedSet
<1>. QED BY <1>5, <1>6, <1>9, <1>10 DEF IsManual

\* Who changes the actuator's journal and the outcomes.
LEMMA StoresStep ==
    ASSUME Types, [Next]_vars
    PROVE  /\ \/ UNCHANGED alog
              \/ ActuatorDecides
              \/ At("prepare") /\ \E done \in Progress(work.cur) : alog' = alog \o done
           /\ \/ UNCHANGED db.outcome
              \/ /\ At("persist") /\ UNCHANGED alog
                 /\ db'.outcome = [db.outcome EXCEPT ![work.cur] = work.answer]
<1>. USE DEF core, world
<1>0. db \in [phase : {"absent", "partial", "ready"}, readOnly : BOOLEAN,
              outcome : [Candidates -> {"none", "prepared", "quarantined"}]]
  BY DEF Types, StoreType
<1>1. CASE Persist
  <2>1. At("persist") /\ UNCHANGED alog BY <1>1 DEF Persist
  <2>2. PICK stored : stored = [db EXCEPT !.outcome[work.cur] = work.answer] BY Zenon
  <2>3. /\ stored.outcome = [db.outcome EXCEPT ![work.cur] = work.answer]
        /\ \A latch : [stored EXCEPT !.readOnly = latch].outcome = stored.outcome
        /\ \A latch : [db EXCEPT !.readOnly = latch].outcome = db.outcome
    BY <1>0, <2>2
  <2>4. \/ db' = stored
        \/ \E after \in {db, stored}, latch \in BOOLEAN : db' = [after EXCEPT !.readOnly = latch]
    BY <1>1, <2>2, Zenon DEF Persist
  <2>5. db'.outcome = stored.outcome \/ db'.outcome = db.outcome
    <3>1. CASE db' = stored BY <3>1
    <3>2. ASSUME NEW after \in {db, stored}, NEW latch \in BOOLEAN, db' = [after EXCEPT !.readOnly = latch]
          PROVE  db'.outcome = stored.outcome \/ db'.outcome = db.outcome
      <4>1. CASE after = db BY <2>3, <3>2, <4>1, Zenon
      <4>2. CASE after = stored BY <2>3, <3>2, <4>2, Zenon
      <4>. QED BY <4>1, <4>2
    <3>. QED BY <2>4, <3>1, <3>2
  <2>. QED BY <2>1, <2>3, <2>5
<1>2. CASE OpenRuntime \/ InitializeDatabaseCut
  <2>1. UNCHANGED alog /\ \E phase : db' = [db EXCEPT !.phase = phase]
    BY <1>2, Zenon DEF OpenRuntime, InitializeDatabaseCut
  <2>. QED BY <1>0, <2>1
<1>3. CASE Prepare
  BY <1>3, Zenon DEF Prepare, PrepareSucceeds, PrepareRejected, PrepareUnanswered
<1>4. CASE RefreshCommits \/ SyncActuatorFeedback \/ RetryDeliveries \/ Deliver \/ CommitPolicyEvaluation
  BY <1>4, Zenon DEF RefreshCommits, SyncActuatorFeedback, RetryDeliveries, Deliver, CommitPolicyEvaluation
<1>5. CASE PollOnce \/ CandidateIds \/ ProcessCandidate \/ IssueCandidateAdmission \/ Evaluate
  BY <1>5, Zenon DEF PollOnce, CandidateIds, ProcessCandidate, IssueCandidateAdmission, Evaluate
<1>6. CASE ActuatorDecides BY <1>6, Zenon DEF ActuatorDecides
<1>7. CASE Crash \/ ClockAdvances \/ ClockIsSet \/ UNCHANGED vars
  BY <1>7, Zenon DEF Crash, ClockAdvances, ClockIsSet, vars
<1>. QED BY Zenon, <1>1, <1>2, <1>3, <1>4, <1>5, <1>6, <1>7 DEF Next, Core

\* A decision of the actuator is of a plan that it has.
LEMMA DecidesAdds ==
    ASSUME StoreType, ActuatorDecides
    PROVE  /\ alog' \in Seq(Entries)
           /\ \A k \in DOMAIN alog : k \in DOMAIN alog' /\ alog'[k] = alog[k]
           /\ \A k \in DOMAIN alog' \ DOMAIN alog :
                 /\ alog'[k].type = "action" /\ alog'[k].state = "APPROVED"
                 /\ \E j \in DOMAIN alog : alog[j].intent = alog'[k].intent
<1>1. PICK c \in Candidates : Has(c, "PREPARED") /\ alog' = Append(alog, Action(c, 0, "APPROVED"))
  BY DEF ActuatorDecides
<1>2. PICK e : e = Action(c, 0, "APPROVED") BY Zenon
<1>3. e \in Entries /\ e.type = "action" /\ e.state = "APPROVED" /\ e.intent = c
  BY <1>2 DEF Action, Entries
<1>4. alog \in Seq(Entries) BY DEF StoreType
<1>5. PICK n \in Nat : n = Len(alog) BY <1>4
<1>6. /\ alog' \in Seq(Entries) /\ DOMAIN alog = 1..n /\ DOMAIN alog' = 1..(n + 1)
      /\ alog'[n + 1] = e /\ \A k \in 1..n : alog'[k] = alog[k]
  BY <1>1, <1>2, <1>3, <1>4, <1>5
<1>7. \E j \in DOMAIN alog : alog[j].intent = c BY <1>1 DEF Has
<1>8. ASSUME NEW k \in DOMAIN alog' \ DOMAIN alog PROVE alog'[k] = e BY <1>6
<1>. QED BY <1>3, <1>6, <1>7, <1>8

\* The stores keep their types.
LEMMA TypeStep ==
    ASSUME Types, CoreOK, JournalReopens, [Next]_vars
    PROVE  WorldType' /\ StoreType'
<1>. USE DEF core, world
<1>0. WorldType /\ StoreType /\ CandidateOK /\ DeliveryOK /\ KnowsAll BY DEF Types, CoreOK
<1>1. now' \in Int
  <2>1. CASE ClockAdvances \/ ClockIsSet
    BY <1>0, <2>1 DEF ClockAdvances, ClockIsSet, WorldType
  <2>2. CASE Core
    <3>1. UNCHANGED now
      BY <2>2, Zenon DEF Core, OpenRuntime, RefreshCommits, SyncActuatorFeedback, RetryDeliveries, Deliver,
                  Prepare, Persist, PollOnce, CandidateIds, ProcessCandidate,
                  IssueCandidateAdmission, Evaluate, CommitPolicyEvaluation
    <3>. QED BY <1>0, <3>1 DEF WorldType
  <2>3. CASE ActuatorDecides \/ InitializeDatabaseCut \/ Crash \/ UNCHANGED vars
    BY <1>0, <2>3, Zenon DEF ActuatorDecides, InitializeDatabaseCut, Crash, vars, WorldType
  <2>. QED BY <2>1, <2>2, <2>3 DEF Next
<1>2. projected' \in [Candidates -> [status : {"absent", "standing", "invalidated"}, created : Int]]
  <2>1. CASE PollOnce
    <3>1. CASE UNCHANGED projected BY <1>0, <3>1 DEF WorldType
    <3>2. CASE \E c \in Candidates :
                  projected' = [projected EXCEPT ![c] = [status |-> "standing", created |-> now]]
      BY <1>0, <3>2 DEF WorldType
    <3>3. CASE \E c \in Candidates :
                  projected' = [projected EXCEPT ![c] = [status |-> "invalidated", created |-> 0]]
      BY <1>0, <3>3 DEF WorldType
    <3>. QED BY <2>1, <3>1, <3>2, <3>3, Zenon DEF PollOnce
  <2>2. CASE \/ OpenRuntime \/ RefreshCommits \/ SyncActuatorFeedback \/ RetryDeliveries
             \/ Deliver \/ Prepare \/ Persist \/ CandidateIds \/ ProcessCandidate
             \/ IssueCandidateAdmission \/ Evaluate \/ CommitPolicyEvaluation
    <3>1. UNCHANGED projected
      BY <2>2, Zenon DEF OpenRuntime, RefreshCommits, SyncActuatorFeedback, RetryDeliveries, Deliver,
                  Prepare, Persist, CandidateIds, ProcessCandidate,
                  IssueCandidateAdmission, Evaluate, CommitPolicyEvaluation
    <3>. QED BY <1>0, <3>1 DEF WorldType
  <2>3. CASE \/ ActuatorDecides \/ InitializeDatabaseCut \/ Crash \/ ClockAdvances \/ ClockIsSet
             \/ UNCHANGED vars
    BY <1>0, <2>3, Zenon DEF ActuatorDecides, InitializeDatabaseCut, Crash, ClockAdvances, ClockIsSet,
                      vars, WorldType
  <2>. QED BY <2>1, <2>2, <2>3 DEF Next, Core
<1>3. alog' \in Seq(Entries)
  <2>1. CASE UNCHANGED alog BY <1>0, <2>1 DEF StoreType
  <2>2. CASE ActuatorDecides BY <1>0, <2>2, DecidesAdds
  <2>3. CASE At("prepare") /\ \E done \in Progress(work.cur) : alog' = alog \o done
    <3>1. IsManual(work.cur) BY <1>0, <2>3 DEF DeliveryOK, At
    <3>. QED BY Zenon, <1>0, <2>3, <3>1, ProgressAdds
  <2>. QED BY Zenon, <2>1, <2>2, <2>3, StoresStep
<1>4. decided' \in [records : Seq(Decisions), torn : BOOLEAN]
  <2>1. \/ UNCHANGED decided
        \/ \E torn \in BOOLEAN : decided' = [decided EXCEPT !.torn = torn]
        \/ decided' = [decided EXCEPT !.records = Append(@, Committed(work.cur))]
    <3>1. CASE CommitPolicyEvaluation
      BY <3>1, Zenon DEF CommitPolicyEvaluation, AppendCommits, AppendUncertain
    <3>2. CASE OpenRuntime BY <3>2, Zenon DEF OpenRuntime, Repaired
    <3>3. CASE \/ RefreshCommits \/ SyncActuatorFeedback \/ RetryDeliveries \/ Deliver \/ Prepare
               \/ Persist \/ PollOnce \/ CandidateIds \/ ProcessCandidate
               \/ IssueCandidateAdmission \/ Evaluate
      BY <3>3, Zenon DEF RefreshCommits, SyncActuatorFeedback, RetryDeliveries, Deliver, Prepare,
                  Persist, PollOnce, CandidateIds, ProcessCandidate, IssueCandidateAdmission, Evaluate
    <3>4. CASE \/ ActuatorDecides \/ InitializeDatabaseCut \/ Crash \/ ClockAdvances \/ ClockIsSet
               \/ UNCHANGED vars
      BY <3>4, Zenon DEF ActuatorDecides, InitializeDatabaseCut, Crash, ClockAdvances, ClockIsSet, vars
    <3>. QED BY <3>1, <3>2, <3>3, <3>4 DEF Next, Core
  <2>2. CASE decided' = [decided EXCEPT !.records = Append(@, Committed(work.cur))]
    <3>1. decided \in [records : Seq(Decisions), torn : BOOLEAN] BY <1>0 DEF StoreType
    <3>2. PICK r : r = Committed(work.cur) BY Zenon
    <3>3. decided'.records = Append(decided.records, r) /\ decided'.torn = decided.torn
          /\ Append(decided.records, r) # decided.records
      BY <2>2, <3>1, <3>2
    <3>4. r \in Decisions BY <1>0, <3>2, <3>3, RecordsStep, CommitReopens
    <3>5. Append(decided.records, r) \in Seq(Decisions) BY <3>1, <3>4
    <3>. QED BY Zenon, <2>2, <3>1, <3>2, <3>5
  <2>. QED BY <1>0, <2>1, <2>2 DEF StoreType
<1>5. db' \in [phase : {"absent", "partial", "ready"}, readOnly : BOOLEAN,
               outcome : [Candidates -> {"none", "prepared", "quarantined"}]]
  <2>0. db \in [phase : {"absent", "partial", "ready"}, readOnly : BOOLEAN,
                outcome : [Candidates -> {"none", "prepared", "quarantined"}]]
    BY <1>0 DEF StoreType
  <2>1. CASE Persist
    <3>1. PICK stored : stored = [db EXCEPT !.outcome[work.cur] = work.answer] BY Zenon
    <3>2. work.answer \in {"prepared", "quarantined"} BY <1>0, <2>1 DEF DeliveryOK, Persist, At
    <3>3. stored \in [phase : {"absent", "partial", "ready"}, readOnly : BOOLEAN,
                      outcome : [Candidates -> {"none", "prepared", "quarantined"}]]
      BY <2>0, <3>1, <3>2
    <3>4. \/ db' = stored
          \/ \E after \in {db, stored}, latch \in BOOLEAN : db' = [after EXCEPT !.readOnly = latch]
      BY <2>1, <3>1, Zenon DEF Persist
    <3>. QED BY <2>0, <3>3, <3>4
  <2>2. CASE OpenRuntime \/ InitializeDatabaseCut
    BY <2>0, <2>2 DEF OpenRuntime, InitializeDatabaseCut
  <2>3. CASE \/ RefreshCommits \/ SyncActuatorFeedback \/ RetryDeliveries \/ Deliver \/ Prepare
             \/ PollOnce \/ CandidateIds \/ ProcessCandidate
             \/ IssueCandidateAdmission \/ Evaluate \/ CommitPolicyEvaluation
    <3>1. UNCHANGED db
      BY <2>3, Zenon DEF RefreshCommits, SyncActuatorFeedback, RetryDeliveries, Deliver, Prepare,
                  PollOnce, CandidateIds, ProcessCandidate, IssueCandidateAdmission, Evaluate,
                  CommitPolicyEvaluation
    <3>. QED BY <2>0, <3>1
  <2>4. CASE ActuatorDecides \/ Crash \/ ClockAdvances \/ ClockIsSet \/ UNCHANGED vars
    BY <2>0, <2>4, Zenon DEF ActuatorDecides, Crash, ClockAdvances, ClockIsSet, vars
  <2>. QED BY <2>1, <2>2, <2>3, <2>4 DEF Next, Core
<1>. QED BY <1>1, <1>2, <1>3, <1>4, <1>5 DEF WorldType, StoreType

\* What PlansAreDecided says of one entry.
Held(e) ==
    /\ IsManual(e.intent)
    /\ e.type = "reserve" \/ e.state = "PREPARED" => e.sha = RecordOf(e.intent).at

\* What the actuator holds stays decided, and what it gets is.
LEMMA PlansStep ==
    ASSUME Types, StoreType', CoreOK, JournalReopens, JournalReopens', PlansAreDecided, [Next]_vars
    PROVE  PlansAreDecided'
<1>1. StoreType /\ DeliveryOK BY DEF Types, CoreOK
<1>2. ASSUME NEW c, IsManual(c) PROVE IsManual(c)' /\ RecordOf(c)' = RecordOf(c)
  BY <1>2, DecisionsStay DEF IsManual
<1>3. ASSUME NEW e, Held(e) PROVE Held(e)'
  <2>1. PICK c : c = e.intent BY Zenon
  <2>2. IsManual(c) /\ (e.type = "reserve" \/ e.state = "PREPARED" => e.sha = RecordOf(c).at)
    BY <1>3, <2>1 DEF Held
  <2>3. IsManual(c)' /\ RecordOf(c)' = RecordOf(c) BY <1>2, <2>2
  <2>. QED BY <2>1, <2>2, <2>3 DEF Held
<1>4. \A k \in DOMAIN alog : Held(alog[k]) BY Zenon DEF PlansAreDecided, Held
<1>5. ASSUME NEW k \in DOMAIN alog' PROVE Held(alog[k])'
  <2>1. PICK e : e = alog'[k] BY Zenon
  <2>2. Held(e)
    <3>1. CASE UNCHANGED alog BY <1>4, <2>1, <3>1
    <3>2. CASE ActuatorDecides
      <4>1. CASE k \in DOMAIN alog BY <1>1, <1>4, <2>1, <3>2, <4>1, DecidesAdds
      <4>2. CASE k \notin DOMAIN alog
        <5>1. e.type = "action" /\ e.state = "APPROVED" /\ \E j \in DOMAIN alog : alog[j].intent = e.intent
          BY <1>1, <2>1, <3>2, <4>2, DecidesAdds
        <5>2. IsManual(e.intent) BY <1>4, <5>1 DEF Held
        <5>. QED BY <5>1, <5>2 DEF Held
      <4>. QED BY <4>1, <4>2
    <3>3. CASE At("prepare") /\ \E done \in Progress(work.cur) : alog' = alog \o done
      <4>1. PICK c : c = work.cur BY Zenon
      <4>2. IsManual(c) BY <1>1, <3>3, <4>1 DEF DeliveryOK, At
      <4>3. PICK done \in Progress(c) : alog' = alog \o done BY Zenon, <3>3, <4>1
      <4>4. CASE k \in DOMAIN alog BY Zenon, <1>1, <1>4, <2>1, <4>2, <4>3, <4>4, ProgressAdds
      <4>5. CASE k \notin DOMAIN alog
        <5>1. Added(c, e) BY Zenon, <1>1, <2>1, <4>2, <4>3, <4>5, ProgressAdds
        <5>. QED BY Zenon, <4>2, <5>1 DEF Added, Held
      <4>. QED BY <4>4, <4>5
    <3>. QED BY Zenon, <3>1, <3>2, <3>3, StoresStep
  <2>3. Held(e)' BY <1>3, <2>2
  <2>. QED BY <2>1, <2>3 DEF Held
<1>. QED BY <1>5, Zenon DEF PlansAreDecided, Held

\* A plan comes before its receipt, and no plan comes after a quarantine.
LEMMA ReceiptsStep ==
    ASSUME Types, CoreOK, ReceiptsMatchPlans, [Next]_vars
    PROVE  ReceiptsMatchPlans'
<1>1. StoreType /\ DeliveryOK BY DEF Types, CoreOK
<1>2. CASE UNCHANGED alog /\ UNCHANGED db.outcome BY Zenon, <1>2 DEF ReceiptsMatchPlans, Has
<1>3. CASE /\ At("persist") /\ UNCHANGED alog
           /\ db'.outcome = [db.outcome EXCEPT ![work.cur] = work.answer]
  <2>1. \A c : Has(c, "PREPARED")' <=> Has(c, "PREPARED") BY Zenon, <1>3 DEF Has
  <2>2. \A c \in Candidates : c # work.cur => db'.outcome[c] = db.outcome[c]
    BY Zenon, <1>1, <1>3 DEF StoreType
  <2>3. work.cur \in Candidates => db'.outcome[work.cur] = work.answer
    BY <1>1, <1>3 DEF StoreType
  <2>4. \/ work.answer = "prepared" /\ Has(work.cur, "PREPARED")
        \/ work.answer = "quarantined" /\ ~Has(work.cur, "PREPARED")
    BY Zenon, <1>1, <1>3 DEF DeliveryOK
  <2>5. ASSUME NEW c \in Candidates
        PROVE  /\ db'.outcome[c] = "prepared" => Has(c, "PREPARED")'
               /\ db'.outcome[c] = "quarantined" => ~Has(c, "PREPARED")'
    <3>1. CASE c = work.cur BY <2>1, <2>3, <2>4, <3>1
    <3>2. CASE c # work.cur BY Zenon, <2>1, <2>2, <3>2 DEF ReceiptsMatchPlans
    <3>. QED BY <3>1, <3>2
  <2>. QED BY Zenon, <2>5 DEF ReceiptsMatchPlans
<1>4. ASSUME UNCHANGED db.outcome,
             \A c \in Candidates : db.outcome[c] # "none" => (Has(c, "PREPARED")' <=> Has(c, "PREPARED"))
      PROVE  ReceiptsMatchPlans'
  BY Zenon, <1>4 DEF ReceiptsMatchPlans
<1>5. CASE ActuatorDecides
  <2>1. ASSUME NEW c \in Candidates PROVE Has(c, "PREPARED")' <=> Has(c, "PREPARED")
    BY <1>1, <1>5, DecidesAdds DEF Has
  <2>2. UNCHANGED db.outcome BY <1>5 DEF ActuatorDecides
  <2>. QED BY <1>4, <2>1, <2>2
<1>6. CASE At("prepare") /\ \E done \in Progress(work.cur) : alog' = alog \o done
  <2>1. PICK c : c = work.cur BY Zenon
  <2>2. IsManual(c) /\ db.outcome[c] = "none" BY Zenon, <1>1, <1>6, <2>1 DEF DeliveryOK, At
  <2>3. PICK done \in Progress(c) : alog' = alog \o done BY <1>6, <2>1
  <2>4. ASSUME NEW d \in Candidates, db.outcome[d] # "none"
        PROVE  Has(d, "PREPARED")' <=> Has(d, "PREPARED")
    <3>1. d # c BY <2>2, <2>4
    <3>2. /\ \A k \in DOMAIN alog : k \in DOMAIN alog' /\ alog'[k] = alog[k]
          /\ \A k \in DOMAIN alog' \ DOMAIN alog : alog'[k].intent = c
      <4>1. /\ \A k \in DOMAIN alog : k \in DOMAIN alog' /\ alog'[k] = alog[k]
            /\ \A k \in DOMAIN alog' \ DOMAIN alog : Added(c, alog'[k])
        BY Zenon, <1>1, <2>2, <2>3, ProgressAdds
      <4>2. \A e : Added(c, e) => e.intent = c BY DEF Added
      <4>. QED BY Zenon, <4>1, <4>2
    <3>. QED BY Zenon, <3>1, <3>2 DEF Has
  <2>5. UNCHANGED db.outcome BY Zenon, <1>6, StoresStep DEF At
  <2>. QED BY <1>4, <2>4, <2>5
<1>. QED BY Zenon, <1>2, <1>3, <1>5, <1>6, StoresStep

-----------------------------------------------------------------------------
(* The theorems.                                                            *)

\* The invariant holds of a fresh state directory,
LEMMA InitInvariant == Init => IInv
<1>. SUFFICES ASSUME Init PROVE IInv OBVIOUS
<1>1. WorldType BY DEF Init, WorldType
<1>2. StoreType
  <2>1. <<>> \in Seq(Decisions) /\ <<>> \in Seq(Entries) OBVIOUS
  <2>. QED BY Zenon, <2>1 DEF Init, StoreType
<1>3. CoreType
  <2>1. <<>> \in Seq(Candidates) OBVIOUS
  <2>. QED BY Zenon, <2>1 DEF Init, CoreType, BlankMem, BlankWork
<1>4. KnowsAll /\ CandidateOK /\ DeliveryOK BY Zenon DEF Init, KnowsAll, CandidateOK, DeliveryOK, At
<1>5. JournalReopens BY DEF Init, JournalReopens, Recoverable
<1>6. PlansAreDecided BY DEF Init, PlansAreDecided
<1>7. ReceiptsMatchPlans BY Zenon DEF Init, ReceiptsMatchPlans
<1>. QED BY <1>1, <1>2, <1>3, <1>4, <1>5, <1>6, <1>7 DEF IInv, Types

\* and every step keeps it.
LEMMA StepInvariant == IInv /\ [Next]_vars => IInv'
<1>. SUFFICES ASSUME IInv, [Next]_vars PROVE IInv' OBVIOUS
<1>1. Types /\ CoreOK /\ JournalReopens /\ PlansAreDecided /\ ReceiptsMatchPlans
  BY Zenon DEF IInv, Types, CoreOK
<1>2. CoreOK'
  <2>1. CASE Core
    BY <1>1, <2>1, TickCore, CandidateCore, DeliveryCore, CommitCore DEF Core
  <2>. QED BY <1>1, <2>1, WorldCore DEF Next
<1>3. WorldType' /\ StoreType' BY <1>1, TypeStep
<1>4. JournalReopens'
  <2>1. CASE UNCHANGED decided.records BY <1>1, <2>1 DEF JournalReopens
  <2>2. CASE Commits BY Zenon, <1>1, <2>2, CommitReopens DEF CoreOK, JournalReopens
  <2>. QED BY <1>1, <2>1, <2>2, RecordsStep
<1>5. PlansAreDecided' BY <1>1, <1>3, <1>4, PlansStep
<1>6. ReceiptsMatchPlans' BY <1>1, ReceiptsStep
<1>. QED BY <1>2, <1>3, <1>4, <1>5, <1>6, Zenon DEF IInv, Types, CoreOK

\* The invariant holds in every state of every behaviour.
THEOREM Invariant == Spec => []IInv
<1>1. Init => IInv BY InitInvariant
<1>2. IInv /\ [Next]_vars => IInv' BY StepInvariant
<1>. QED BY <1>1, <1>2, PTL DEF Spec

\* DecisionIntentJournal._recover accepts the journal at every start, whatever failed
\* appends, crashes and steps of the wall clock came before.
THEOREM Reopens == Spec => []JournalReopens
<1>1. IInv => JournalReopens BY DEF IInv
<1>. QED BY <1>1, Invariant, PTL

\* The actuator never holds an intent that is not a durable manual decision, nor one under
\* another digest than its record's.
THEOREM OnlyDecided == Spec => []PlansAreDecided
<1>1. IInv => PlansAreDecided BY DEF IInv
<1>. QED BY <1>1, Invariant, PTL

\* A receipt of the delivery database stands for a plan that exists, and a quarantined
\* intent never has one.
THEOREM Receipts == Spec => []ReceiptsMatchPlans
<1>1. IInv => ReceiptsMatchPlans BY DEF IInv
<1>. QED BY <1>1, Invariant, PTL

\* A candidate is decided only while it stands and coverage is ready, and manually only
\* while its evidence is fresh, at the moment of the commit.
THEOREM Current == Spec => CommitsAreCurrent
<1>1. IInv /\ IInv' /\ [Next]_vars =>
         [\A c \in DecidedSet' \ DecidedSet :
             /\ projected[c].status = "standing" /\ Ready
             /\ IsManual(c)' => Age(c) \in 0..FreshFor]_vars
  <2>. SUFFICES ASSUME IInv, IInv', [Next]_vars, NEW c \in DecidedSet' \ DecidedSet
       PROVE /\ projected[c].status = "standing" /\ Ready
             /\ IsManual(c)' => Age(c) \in 0..FreshFor
    BY Zenon
  <2>1. Types /\ CandidateOK BY DEF IInv
  <2>2. PICK s, u, r : s = decided.records /\ u = decided'.records /\ r = Committed(work.cur) BY Zenon
  <2>3. s \in Seq(Decisions) BY <2>1, <2>2 DEF Types, StoreType
  <2>4. u # s BY Zenon, <2>2 DEF DecidedSet
  <2>5. Commits /\ u = Append(s, r) BY Zenon, <2>1, <2>2, <2>4, RecordsStep DEF Commits
  <2>6. PICK k \in DOMAIN u : u[k].cand = c BY Zenon, <2>2 DEF DecidedSet
  <2>7. k = Len(s) + 1 /\ u[k] = r
    <3>1. k \in 1..Len(s) => u[k] = s[k] /\ k \in DOMAIN s BY <2>3, <2>5
    <3>2. k \notin 1..Len(s) BY <2>2, <2>6, <3>1 DEF DecidedSet
    <3>. QED BY <2>3, <2>5, <2>6, <3>2
  <2>8. c = work.cur BY <2>2, <2>6, <2>7 DEF Committed
  <2>9. Admissible(c) /\ work.at <= now /\ (work.effect = "manual" => Age(c) <= FreshFor)
    BY <2>5, <2>8 DEF Commits, Committable
  <2>10. ASSUME IsManual(c)' PROVE Age(c) \in 0..FreshFor
    <3>1. u \in Seq(Decisions) /\ Recoverable(u)
      BY <2>2 DEF IInv, Types, StoreType, JournalReopens
    <3>2. RecordOf(c)' = r
      <4>1. u[CHOOSE j \in DOMAIN u : u[j].cand = c] = u[k] BY <2>6, <3>1, TheRecord
      <4>. QED BY <2>2, <2>7, <4>1 DEF RecordOf
    <3>3. work.effect = "manual" BY <2>2, <2>10, <3>2 DEF IsManual, Committed
    <3>4. /\ work.at \in Int /\ now \in Int /\ projected[c].created \in Int
          /\ projected[c].created <= work.at
      BY Zenon, <2>1, <2>5, <2>8 DEF CandidateOK, Commits, At, Types, WorldType
    <3>. QED BY <2>9, <3>3, <3>4, DecisionConstants DEF Age
  <2>. QED BY Zenon, <2>9, <2>10 DEF Admissible
<1>. QED BY <1>1, Invariant, PTL DEF Spec, CommitsAreCurrent
=============================================================================
