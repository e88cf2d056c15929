------------------------ MODULE RetentionInvariant -------------------------
(***************************************************************************)
(* The inductive invariant of evidence retention, and the proof that the   *)
(* observer, ordinary delivery, the selection and the delivery of a        *)
(* request keep it, from three facts about the operators of the selection. *)
(* RetentionProofs proves those facts and the rest.                        *)
(***************************************************************************)
EXTENDS Retention, TLAPS

\* SMT, then Zenon, with time to spare on a slow machine.
USE SMTT(30), ZenonT(20)

-----------------------------------------------------------------------------
(* The inductive invariant. *)

Requests ==
  [op : {"none", "tombstone", "blocked"}, id : Nat, lo : Nat, hi : Nat, h0 : Nat, next : Nat,
   bytes : Int, reason : {"none", "age", "size", "age_and_size"}, routine : Int, protected : Int]

EventKinds == {"routine", "kept", "protected", "tombstone", "blocked"}

Phases == {"none", "selected", "target_bound", "evidence_appended", "unlink_in_progress",
           "commit_uncertain", "completed"}

Places == {"idle", "deliver", "answer", "accept", "settle", "unlink", "unlinking", "resume",
           "recache", "rebuild", "boundary", "clear", "down", "fenced", "failed"}

Events == [kind : EventKinds, req : Requests]

Facts == [kind : EventKinds, req : Requests, bytes : Int, closed : Nat]

(* Types.                                                                  *)
Types ==
  /\ spool \in Seq(Events) /\ chain \in Seq(Facts)
  /\ ack \in [confirmed : Nat, pending : Nat]
  /\ file = [phase |-> file.phase, req |-> file.req, target |-> file.target, witness |-> file.witness]
  /\ file.phase \in Phases /\ file.req \in Requests /\ file.target \in Nat
  /\ run \in [pc : Places, target : Nat]
  /\ now \in Nat
  /\ used \in [events : Nat, requests : Nat, faults : Nat]

(* The evidence is a prefix of the stream, in which only a control event   *)
(* carries a request.                                                      *)
StreamOK ==
  /\ Len(chain) <= Len(spool)
  /\ \A i \in 1..Len(chain) : chain[i].kind = spool[i].kind /\ chain[i].req = spool[i].req
  /\ \A i \in 1..Len(spool) :
       IF spool[i].kind \in {"tombstone", "blocked"} THEN spool[i].req.op = spool[i].kind
       ELSE spool[i].req = NoRequest

(* A tombstone's run is routine evidence of the size it states, in the     *)
(* prefix it was chosen from.                                              *)
Exact(req) ==
  /\ 1 <= req.lo /\ req.lo <= req.hi /\ req.hi <= req.h0 /\ req.h0 <= Len(chain)
  /\ req.next = Successor(req, req.h0)
  /\ \A p \in RunOf(req) : chain[p].kind = "routine"
  /\ req.bytes = Bytes(chain, RunOf(req))

(* The stream holds at most one tombstone: that of the durable request, or *)
(* one that has been carried out.                                          *)
TombstonesOK(req) ==
  /\ req.op = "tombstone" => Exact(req)
  /\ \A i \in Tombstones(spool) :
       /\ Exact(spool[i].req) /\ spool[i].req.h0 < i
       /\ IF req.op = "tombstone" THEN spool[i].req = req ELSE i <= Len(chain)
  /\ \A i, j \in Tombstones(spool) : i = j

(* What the phase on disk says of the request and its target.              *)
PhaseOK(state) ==
  /\ state.phase = "none" => state = NoFile
  /\ state.phase # "none" => state.req.op \in {"tombstone", "blocked"}
  /\ state.req.op # "tombstone" => RunOf(state.req) = {}
  /\ state.phase = "selected" => state.target = 0
  /\ state.phase = "target_bound" =>
       state.target \in 1..Len(spool) /\ spool[state.target].req = state.req
  /\ state.phase \in {"evidence_appended", "completed"} \union UnlinkPhases =>
       state.target \in 1..Len(chain) /\ spool[state.target].req = state.req
  /\ state.phase \in {"completed"} \union UnlinkPhases => state.req.op = "tombstone"

(* The phase at each step of the transaction and of recovery.              *)
PlaceOK ==
  /\ run.pc \in {"idle", "recache"} => file.phase \notin UnlinkPhases
  /\ At("idle") => file.phase # "completed"
  /\ At("deliver") => file.phase \in OpenPhases
  /\ At("answer") => file.phase \in {"selected", "target_bound"} /\ run.target \in 1..Len(spool)
  /\ At("accept") => file.phase = "target_bound" /\ file.target = run.target /\ Len(chain) <= run.target
  /\ run.pc \in {"settle", "unlink"} => file.phase = "evidence_appended"
  /\ At("unlink") => file.req.op = "tombstone"
  /\ At("unlinking") => file.phase = "unlink_in_progress"
  /\ At("resume") => file.phase \in UnlinkPhases
  /\ run.pc \in {"rebuild", "boundary", "clear"} => file.phase = "completed"

(* What is missing, by phase, and how far the ACK journal is.              *)
RemovedOK(state) ==
  /\ ack.pending \in {0, ack.confirmed + 1}
  /\ \A i \in Missing : ack.confirmed > i
  /\ state.req.op # "tombstone" => Missing = Covered(chain)
  /\ state.req.op = "tombstone" /\ state.phase \in OpenPhases => Missing = {}
  /\ state.phase \in {"completed"} \union UnlinkPhases =>
       Missing \subseteq RunOf(state.req) /\ ack.confirmed > state.req.hi
  /\ state.phase \in UnlinkPhases => ack.pending = 0
  /\ state.phase = "completed" => RunOf(state.req) \subseteq Missing

FileOK(state) == TombstonesOK(state.req) /\ PhaseOK(state) /\ RemovedOK(state)

IInv == Types /\ StreamOK /\ FileOK(file) /\ PlaceOK /\ FencedIsStranded

(* What the proof needs of the operators: a set of positions has a least   *)
(* member, ...                                                             *)
LeastExists == \A n \in Nat : \A T \in SUBSET (1..n) : T # {} => Min(T) \in T

(* ... the size of a set of positions depends on those positions only, ... *)
SizeIsLocal ==
  \A f, g : \A positions \in SUBSET (1..Len(f)) :
    /\ Len(f) \in Nat /\ Len(g) \in Nat /\ Len(f) <= Len(g)
    /\ \A i \in 1..Len(f) : f[i].bytes \in Int /\ g[i].bytes = f[i].bytes
    => Bytes(g, positions) = Bytes(f, positions)

(* ... and a decision is a request, whose run is routine evidence of the   *)
(* prefix it was chosen from if it is a tombstone, and is empty if not.    *)
DecisionOK(facts, req) ==
  /\ req \in Requests
  /\ req.op = "tombstone" =>
       /\ 1 <= req.lo /\ req.lo <= req.hi /\ req.hi <= req.h0 /\ req.h0 = Len(facts)
       /\ \A p \in req.lo..req.hi : facts[p].kind = "routine"
  /\ req.op # "tombstone" => RunOf(req) = {}

DecisionsFit ==
  \A facts \in Seq(Facts), id \in Nat : \A clock : DecisionOK(facts, Decision(facts, clock, id))

Operators == LeastExists /\ SizeIsLocal /\ DecisionsFit

-----------------------------------------------------------------------------
(* What a step does to the stream and the evidence. *)

(* The evidence after a step is the evidence before it, perhaps longer.    *)
Grown ==
  /\ chain' \in Seq(Facts) /\ Len(chain) <= Len(chain')
  /\ \A i \in 1..Len(chain) : /\ chain'[i].kind = chain[i].kind /\ chain'[i].req = chain[i].req
                              /\ chain'[i].bytes = chain[i].bytes

LEMMA Fields ==
    ASSUME Types
    PROVE  /\ Len(spool) \in Nat /\ DOMAIN spool = 1..Len(spool)
           /\ \A i \in 1..Len(spool) : spool[i] \in Events
           /\ Len(chain) \in Nat /\ DOMAIN chain = 1..Len(chain)
           /\ \A i \in 1..Len(chain) : chain[i] \in Facts
<1>1. spool \in Seq(Events) /\ chain \in Seq(Facts) BY Zenon DEF Types
<1> QED BY <1>1

(* The run of an exact request is in the evidence, before its prefix ends.  *)
LEMMA ExactRun ==
    ASSUME Types, NEW req \in Requests, Exact(req)
    PROVE  req.lo \in RunOf(req) /\ RunOf(req) \subseteq 1..Len(chain) /\ \A p \in RunOf(req) : p <= req.h0
<1>1. Len(chain) \in Nat BY Zenon, Fields
<1>2. req.lo \in Nat /\ req.hi \in Nat /\ req.h0 \in Nat BY Zenon DEF Requests
<1>3. 1 <= req.lo /\ req.lo <= req.hi /\ req.hi <= req.h0 /\ req.h0 <= Len(chain) BY Zenon DEF Exact
<1>4. RunOf(req) = req.lo..req.hi BY Zenon DEF RunOf
<1> QED BY <1>1, <1>2, <1>3, <1>4

(* A sealed fact.                                                          *)
LEMMA FactClosed ==
    ASSUME NEW fact \in Facts, NEW t \in Nat, NEW c,
           c = IF fact.closed = 0 THEN [fact EXCEPT !.closed = t] ELSE fact
    PROVE  c \in Facts /\ c.kind = fact.kind /\ c.req = fact.req /\ c.bytes = fact.bytes
  BY DEF Facts

(* Sealing the active segment.                                             *)
LEMMA FlushedFacts ==
    ASSUME Types, NEW c, c = Flushed(chain)
    PROVE  /\ c \in Seq(Facts) /\ Len(c) = Len(chain)
           /\ \A i \in 1..Len(chain) : /\ c[i].kind = chain[i].kind /\ c[i].req = chain[i].req
                                       /\ c[i].bytes = chain[i].bytes
<1> DEFINE n == Len(chain)
<1>1. c = [i \in 1..n |-> IF chain[i].closed = 0 THEN [chain[i] EXCEPT !.closed = now] ELSE chain[i]]
  BY Fields DEF Flushed
<1>2. \A i \in 1..n : /\ c[i] \in Facts /\ c[i].kind = chain[i].kind /\ c[i].req = chain[i].req
                      /\ c[i].bytes = chain[i].bytes
  <2> SUFFICES ASSUME NEW i \in 1..n
               PROVE  /\ c[i] \in Facts /\ c[i].kind = chain[i].kind /\ c[i].req = chain[i].req
                      /\ c[i].bytes = chain[i].bytes
    OBVIOUS
  <2>1. chain[i] \in Facts /\ now \in Nat BY Fields DEF Types
  <2>2. c[i] = IF chain[i].closed = 0 THEN [chain[i] EXCEPT !.closed = now] ELSE chain[i] BY <1>1
  <2> QED BY <2>1, <2>2, FactClosed
<1>3. n \in Nat BY Fields
<1>4. c \in [1..n -> Facts] BY <1>1, <1>2
<1>5. c \in Seq(Facts) /\ Len(c) = n BY <1>3, <1>4
<1> QED BY <1>2, <1>5

LEMMA FlushedGrown ==
    ASSUME Types, chain' = Flushed(chain)
    PROVE  Grown /\ Len(chain') = Len(chain)
<1>1. PICK c : c = Flushed(chain) OBVIOUS
<1>2. Len(chain) \in Nat BY Fields
<1> QED BY <1>1, <1>2, FlushedFacts DEF Grown

LEMMA AcceptedGrown ==
    ASSUME Types, Len(chain) < Len(spool), chain' = Accepted
    PROVE  /\ Grown /\ Len(chain') = Len(chain) + 1
           /\ chain'[Len(chain) + 1].kind = spool[Len(chain) + 1].kind
           /\ chain'[Len(chain) + 1].req = spool[Len(chain) + 1].req
<1>1. PICK c : c = Flushed(chain) OBVIOUS
<1>2. PICK e : e = spool[Len(chain) + 1] OBVIOUS
<1>3. e \in Events BY <1>2, Fields
<1>4. PICK f : f = Fact(e) OBVIOUS
<1>5. f \in Facts /\ f.kind = e.kind /\ f.req = e.req
  BY <1>3, <1>4 DEF Fact, Events, Facts, SizeOf
<1>6. /\ c \in Seq(Facts) /\ Len(c) = Len(chain) /\ Len(chain) \in Nat
      /\ \A i \in 1..Len(chain) : /\ c[i].kind = chain[i].kind /\ c[i].req = chain[i].req
                                  /\ c[i].bytes = chain[i].bytes
  BY <1>1, FlushedFacts, Fields
<1>7. chain' = Append(c, f) BY <1>1, <1>2, <1>4 DEF Accepted
<1>8. /\ chain' \in Seq(Facts) /\ Len(chain') = Len(c) + 1 /\ chain'[Len(c) + 1] = f
      /\ \A i \in 1..Len(c) : chain'[i] = c[i]
  BY <1>5, <1>6, <1>7
<1>9. Len(chain) <= Len(chain') /\ \A i \in 1..Len(chain) : chain'[i] = c[i] BY <1>6, <1>8
<1> QED BY <1>2, <1>5, <1>6, <1>8, <1>9, Zenon DEF Grown

(* A tombstone stays exact while the evidence grows.                       *)
LEMMA ExactKept ==
    ASSUME Operators, Types, Grown, NEW req \in Requests, Exact(req)
    PROVE  Exact(req)'
<1>1. req.lo \in Nat /\ req.hi \in Nat /\ req.h0 \in Nat BY DEF Requests
<1>2. RunOf(req) \in SUBSET (1..Len(chain))
  BY <1>1, Fields DEF Exact, RunOf
<1>3. Len(chain) \in Nat /\ Len(chain') \in Nat /\ Len(chain) <= Len(chain')
  BY Fields DEF Grown
<1>4. \A i \in 1..Len(chain) : chain[i].bytes \in Int /\ chain'[i].bytes = chain[i].bytes
  BY Fields DEF Grown, Facts
<1>5. PICK f, g : f = chain /\ g = chain' OBVIOUS
<1>6. Bytes(g, RunOf(req)) = Bytes(f, RunOf(req))
  BY <1>2, <1>3, <1>4, <1>5 DEF Operators, SizeIsLocal
<1>7. \A p \in RunOf(req) : chain'[p].kind = "routine"
  BY <1>2 DEF Grown, Exact
<1>8. req.h0 <= Len(chain') BY <1>1, <1>3 DEF Exact
<1> QED BY <1>5, <1>6, <1>7, <1>8 DEF Exact

(* What holds of a state of the file holds on while the evidence grows.    *)
LEMMA Growth ==
    ASSUME Operators, Types, StreamOK, Grown, UNCHANGED <<spool, ack>>, Missing' = Missing,
           Len(chain') <= Len(spool),
           \A i \in 1..Len(chain') : chain'[i].kind = spool[i].kind /\ chain'[i].req = spool[i].req,
           NEW f, f.req \in Requests, FileOK(f)
    PROVE  StreamOK' /\ FileOK(f)'
<1>1. StreamOK' BY DEF StreamOK
<1>2. Len(chain) \in Nat /\ Len(chain') \in Nat /\ Len(spool) \in Nat /\ Len(chain) <= Len(chain')
  BY Fields DEF Grown
<1>3. TombstonesOK(f.req)'
  <2>1. f.req.op = "tombstone" => Exact(f.req)' BY Zenon, ExactKept DEF FileOK, TombstonesOK
  <2>2. ASSUME NEW i \in Tombstones(spool)
        PROVE  /\ Exact(spool[i].req)' /\ spool[i].req.h0 < i
               /\ IF f.req.op = "tombstone" THEN spool[i].req = f.req ELSE i <= Len(chain')
    <3>1. i \in 1..Len(spool) /\ spool[i] \in Events BY Fields DEF Tombstones
    <3>2. PICK r : r = spool[i].req OBVIOUS
    <3>3. r \in Requests BY <3>1, <3>2 DEF Events
    <3>4. /\ Exact(r) /\ r.h0 < i
          /\ IF f.req.op = "tombstone" THEN r = f.req ELSE i <= Len(chain)
      BY <3>2 DEF FileOK, TombstonesOK
    <3>5. Exact(r)' BY <3>3, <3>4, ExactKept
    <3>6. spool' = spool OBVIOUS
    <3>7. Exact(spool[i].req)' BY <3>2, <3>5, <3>6
    <3> QED BY <3>1, <3>2, <3>4, <3>7, <1>2
  <2>3. \A i, j \in Tombstones(spool) : i = j BY DEF FileOK, TombstonesOK
  <2> QED BY Zenon, <2>1, <2>2, <2>3 DEF TombstonesOK
<1>4. PhaseOK(f)'
  BY <1>2 DEF FileOK, PhaseOK
<1>5. RemovedOK(f)'
  <2>1. ASSUME f.req.op # "tombstone" PROVE Covered(chain') = Covered(chain)
    <3>1. DOMAIN chain' = 1..Len(chain') /\ DOMAIN chain = 1..Len(chain) /\ DOMAIN spool = 1..Len(spool)
      BY Fields DEF Grown
    <3>2. \A i \in Tombstones(spool) : i <= Len(chain) BY <2>1 DEF FileOK, TombstonesOK
    <3>3. \A i \in 1..Len(chain) : chain'[i].kind = chain[i].kind /\ chain'[i].req = chain[i].req
      BY Zenon DEF Grown
    <3>4. Tombstones(chain') = Tombstones(chain)
      <4>1. \A i \in 1..Len(chain') : chain'[i].kind = "tombstone" => i \in 1..Len(chain)
        BY <3>1, <3>2, <1>2 DEF Tombstones
      <4>2. \A i \in 1..Len(chain) : i \in 1..Len(chain') BY <1>2
      <4> QED BY <3>1, <3>3, <4>1, <4>2 DEF Tombstones
    <3>5. \A i \in Tombstones(chain) : chain'[i].req = chain[i].req BY <3>1, <3>3 DEF Tombstones
    <3> QED BY Zenon, <3>4, <3>5 DEF Covered
  <2> QED BY Zenon, <2>1 DEF FileOK, RemovedOK
<1> QED BY <1>1, <1>3, <1>4, <1>5 DEF FileOK

(* The same when the stream grows, where a new tombstone is the request's. *)
LEMMA Emission ==
    ASSUME Types, StreamOK, UNCHANGED <<chain, payload, ack>>,
           NEW e \in Events, spool' = Append(spool, e),
           IF e.kind \in {"tombstone", "blocked"} THEN e.req.op = e.kind ELSE e.req = NoRequest,
           NEW f, f.req \in Requests, FileOK(f),
           e.kind = "tombstone" => f.req = e.req /\ Tombstones(spool) = {}
    PROVE  StreamOK' /\ FileOK(f)'
<1> PICK n : n = Len(spool) + 1 OBVIOUS
<1>1. /\ Len(spool) \in Nat /\ Len(spool') = n /\ DOMAIN spool' = 1..n /\ spool'[n] = e
      /\ \A i \in 1..Len(spool) : spool'[i] = spool[i]
  BY Fields DEF Types
<1>2. Len(chain) \in Nat /\ DOMAIN spool = 1..Len(spool) /\ chain' = chain BY Fields
<1>3. StreamOK' BY <1>1, <1>2 DEF StreamOK
<1>4. Tombstones(spool') = Tombstones(spool) \union (IF e.kind = "tombstone" THEN {n} ELSE {})
  BY <1>1, <1>2 DEF Tombstones
<1>5. \A i \in Tombstones(spool) : spool'[i] = spool[i] BY <1>1, <1>2 DEF Tombstones
<1>6. \A r : Exact(r)' <=> Exact(r) BY <1>2 DEF Exact
<1>7. TombstonesOK(f.req)'
  <2> PICK s : s = spool' OBVIOUS
  <2>1. f.req.op = "tombstone" => Exact(f.req)' BY <1>6 DEF FileOK, TombstonesOK
  <2>2. ASSUME NEW i \in Tombstones(spool)
        PROVE  /\ Exact(s[i].req)' /\ s[i].req.h0 < i
               /\ IF f.req.op = "tombstone" THEN s[i].req = f.req ELSE i <= Len(chain')
    <3>1. PICK r : r = spool[i].req OBVIOUS
    <3>2. Exact(r)' /\ r.h0 < i /\ IF f.req.op = "tombstone" THEN r = f.req ELSE i <= Len(chain)
      BY Zenon, <3>1, <1>6 DEF FileOK, TombstonesOK
    <3> QED BY Zenon, <3>1, <3>2, <1>5, <1>2
  <2>3. ASSUME e.kind = "tombstone"
        PROVE  /\ Exact(s[n].req)' /\ s[n].req.h0 < n
               /\ IF f.req.op = "tombstone" THEN s[n].req = f.req ELSE n <= Len(chain')
    <3>1. e.req = f.req /\ f.req.op = "tombstone" BY <2>3
    <3>2. Exact(e.req) BY Zenon, <3>1 DEF FileOK, TombstonesOK
    <3>3. e.req.h0 <= Len(chain) /\ e.req.h0 \in Nat BY Zenon, <3>1, <3>2 DEF Exact, Requests
    <3>4. e.req.h0 < n BY <3>3, <1>1, <1>2 DEF StreamOK
    <3>5. PICK r : r = e.req OBVIOUS
    <3>6. Exact(r)' BY <3>2, <3>5, <1>6
    <3>7. s[n].req = r BY <3>5, <1>1
    <3> QED BY Zenon, <3>1, <3>4, <3>5, <3>6, <3>7
  <2>4. \A i, j \in Tombstones(spool') : i = j BY <1>4 DEF FileOK, TombstonesOK
  <2> QED BY Zenon, <2>1, <2>2, <2>3, <2>4, <1>4 DEF TombstonesOK
<1>8. PhaseOK(f)'
  <2>1. \A i \in 1..Len(spool) : i \in 1..n BY <1>1
  <2>2. \A i \in 1..Len(chain) : i \in 1..Len(spool) BY <1>1, <1>2 DEF StreamOK
  <2> QED BY Zenon, <1>1, <1>2, <2>1, <2>2 DEF FileOK, PhaseOK
<1>9. RemovedOK(f)' BY Zenon, <1>2 DEF FileOK, RemovedOK, Missing
<1> QED BY <1>3, <1>7, <1>8, <1>9 DEF FileOK

-----------------------------------------------------------------------------
(* The invariant after a step, from its parts. *)

LEMMA Together ==
    ASSUME NEW f, f = file', FileOK(f)', StreamOK', Types', PlaceOK', FencedIsStranded'
    PROVE  IInv'
<1>1. FileOK(file)' BY Zenon DEF FileOK, TombstonesOK, PhaseOK, RemovedOK
<1> QED BY <1>1 DEF IInv

(* A step of the state file, or of the process alone.                      *)
LEMMA Apart ==
    ASSUME Operators, IInv, UNCHANGED <<spool, chain, payload, ack>>, NEW f, f = file', FileOK(f),
           Types', PlaceOK', FencedIsStranded'
    PROVE  IInv'
<1>1. StreamOK' BY Zenon DEF IInv, StreamOK
<1>2. TombstonesOK(f.req)' BY Zenon DEF FileOK, TombstonesOK, Exact
<1>3. PhaseOK(f)' BY Zenon DEF FileOK, PhaseOK
<1>4. RemovedOK(f)' BY Zenon DEF FileOK, RemovedOK, Missing
<1>5. FileOK(f)' BY <1>2, <1>3, <1>4 DEF FileOK
<1> QED BY <1>1, <1>5, Together

(* A step that seals the active segment.                                   *)
LEMMA Sealed ==
    ASSUME Operators, IInv, chain' \in {chain, Flushed(chain)}, UNCHANGED <<spool, payload, ack>>,
           NEW f, f = file', f.req \in Requests, FileOK(f), Types', PlaceOK', FencedIsStranded'
    PROVE  IInv'
<1>1. CASE chain' = chain BY <1>1, Apart
<1>2. CASE chain' = Flushed(chain)
  <2>1. Types /\ StreamOK BY DEF IInv
  <2>2. Grown /\ Len(chain') = Len(chain) BY <1>2, <2>1, FlushedGrown
  <2>3. DOMAIN chain' = 1..Len(chain') /\ DOMAIN chain = 1..Len(chain)
    BY <2>1, <2>2, Fields DEF Grown
  <2>4. Missing' = Missing BY <2>2, <2>3 DEF Missing
  <2>5. \A i \in 1..Len(chain') : chain'[i].kind = spool[i].kind /\ chain'[i].req = spool[i].req
    BY Zenon, <2>1, <2>2 DEF Grown, StreamOK
  <2>6. Len(chain') <= Len(spool) BY Zenon, <2>1, <2>2 DEF StreamOK
  <2>7. StreamOK' /\ FileOK(f)' BY Zenon, <2>1, <2>2, <2>4, <2>5, <2>6, Growth
  <2> QED BY <2>7, Together
<1> QED BY <1>1, <1>2

(* A step that accepts the next event.                                     *)
LEMMA Taken ==
    ASSUME Operators, IInv, Len(chain) < Len(spool), chain' = Accepted,
           payload' = payload \union {Len(chain) + 1}, UNCHANGED <<spool, ack, file>>,
           Types', PlaceOK', FencedIsStranded'
    PROVE  IInv'
<1>1. Types /\ StreamOK /\ FileOK(file) /\ file.req \in Requests BY Zenon DEF IInv, Types
<1>2. /\ Grown /\ Len(chain') = Len(chain) + 1
      /\ chain'[Len(chain) + 1].kind = spool[Len(chain) + 1].kind
      /\ chain'[Len(chain) + 1].req = spool[Len(chain) + 1].req
  BY Zenon, <1>1, AcceptedGrown
<1>3. /\ DOMAIN chain' = 1..Len(chain') /\ DOMAIN chain = 1..Len(chain)
      /\ Len(chain) \in Nat /\ Len(spool) \in Nat
  BY <1>1, <1>2, Fields DEF Grown
<1>4. Missing' = Missing BY <1>2, <1>3 DEF Missing
<1>5. \A i \in 1..Len(chain') : chain'[i].kind = spool[i].kind /\ chain'[i].req = spool[i].req
  BY <1>1, <1>2, <1>3 DEF Grown, StreamOK
<1>6. Len(chain') <= Len(spool) BY <1>2, <1>3
<1>7. PICK f : f = file OBVIOUS
<1>8. f.req \in Requests /\ FileOK(f) BY <1>1, <1>7
<1>9. StreamOK' /\ FileOK(f)' BY Zenon, <1>1, <1>2, <1>4, <1>5, <1>6, <1>8, Growth
<1> QED BY Zenon, <1>7, <1>9, Together

(* A step of the observer.                                                 *)
LEMMA Emitted ==
    ASSUME Operators, IInv, NEW e \in Events, spool' = Append(spool, e), UNCHANGED <<chain, payload, ack, file>>,
           IF e.kind \in {"tombstone", "blocked"} THEN e.req.op = e.kind ELSE e.req = NoRequest,
           e.kind = "tombstone" => file.req = e.req /\ Tombstones(spool) = {},
           Types', PlaceOK', FencedIsStranded'
    PROVE  IInv'
<1>1. PICK f : f = file OBVIOUS
<1>2. Types /\ StreamOK /\ FileOK(f) /\ f.req \in Requests BY Zenon, <1>1 DEF IInv, Types
<1>3. StreamOK' /\ FileOK(f)' BY Zenon, <1>1, <1>2, Emission
<1> QED BY Zenon, <1>1, <1>3, Together

(* Where the process goes.                                                 *)
LEMMA GoesTo ==
    ASSUME Types, NEW pc \in Places, Goto(pc)
    PROVE  run' \in [pc : Places, target : Nat] /\ run'.pc = pc /\ run'.target = run.target
  BY Zenon DEF Types, Goto

LEMMA Exits ==
    ASSUME Exit
    PROVE  run' \in [pc : Places, target : Nat] /\ run'.pc = "down" /\ run'.target = 0
  BY DEF Exit, Places

LEMMA Counted ==
    ASSUME Types
    PROVE  /\ [used EXCEPT !.events = @ + 1] \in [events : Nat, requests : Nat, faults : Nat]
           /\ [used EXCEPT !.requests = @ + 1] \in [events : Nat, requests : Nat, faults : Nat]
           /\ [used EXCEPT !.faults = @ + 1] \in [events : Nat, requests : Nat, faults : Nat]
<1>1. used \in [events : Nat, requests : Nat, faults : Nat] BY DEF Types
<1>2. used.events + 1 \in Nat /\ used.requests + 1 \in Nat /\ used.faults + 1 \in Nat BY <1>1
<1>3. [used EXCEPT !.events = @ + 1] \in [events : Nat, requests : Nat, faults : Nat] BY <1>1, <1>2
<1>4. [used EXCEPT !.requests = @ + 1] \in [events : Nat, requests : Nat, faults : Nat] BY <1>1, <1>2
<1>5. [used EXCEPT !.faults = @ + 1] \in [events : Nat, requests : Nat, faults : Nat] BY <1>1, <1>2
<1> QED BY <1>3, <1>4, <1>5

(* The state file moves to a legal next phase, or stays.                   *)
LEMMA Advances ==
    ASSUME Types, NEW phase \in Phases, NEW target \in Nat, NEW f, f = Advance(file, phase, target)
    PROVE  f = IF /\ file.target \in {0, target} /\ target # 0
                  /\ phase \in NextPhases(file.phase, file.req.op)
               THEN [phase |-> phase, req |-> file.req, target |-> target, witness |-> file.witness]
               ELSE file
  BY DEF Advance, LegalTransition

LEMMA Transitions ==
    ASSUME NEW op
    PROVE  /\ "target_bound" \in NextPhases("selected", op)
           /\ "evidence_appended" \in NextPhases("target_bound", op)
           /\ "evidence_appended" \notin NextPhases("evidence_appended", op)
           /\ "unlink_in_progress" \in NextPhases("evidence_appended", "tombstone")
           /\ "commit_uncertain" \in NextPhases("unlink_in_progress", op)
           /\ "completed" \in NextPhases("unlink_in_progress", op)
           /\ "completed" \in NextPhases("commit_uncertain", op)
           /\ \A phase : "commit_uncertain" \in NextPhases(phase, op) => phase = "unlink_in_progress"
           /\ "target_bound" \notin NextPhases("target_bound", op)
  BY DEF NextPhases

-----------------------------------------------------------------------------
(* The observer, the clock, and ordinary delivery. *)

LEMMA EmitStep == ASSUME Operators, IInv, NEW kind \in Kinds, Emit(kind) PROVE IInv'
<1> DEFINE e == [kind |-> kind, req |-> NoRequest]
<1>1. Types /\ StreamOK /\ PlaceOK /\ FencedIsStranded BY DEF IInv
<1>2. kind \in {"routine", "kept", "protected"} BY RetentionAssumption
<1>3. NoRequest \in Requests BY DEF NoRequest, Requests
<1>4. e \in Events BY Zenon, <1>2, <1>3 DEF Events, EventKinds
<1>5. /\ spool' = Append(spool, e) /\ used' = [used EXCEPT !.events = @ + 1]
      /\ UNCHANGED <<chain, payload, ack, file, run, now>>
  BY DEF Emit
<1>6. spool' \in Seq(Events) /\ Len(spool') = Len(spool) + 1 /\ Len(spool) \in Nat
  BY <1>1, <1>4, <1>5 DEF Types
<1>7. used' \in [events : Nat, requests : Nat, faults : Nat] BY <1>1, <1>5, Counted
<1>8. Types' BY Zenon, <1>1, <1>5, <1>6, <1>7 DEF Types
<1>9. PlaceOK' BY <1>1, <1>5, <1>6 DEF PlaceOK, At
<1>10. FencedIsStranded' BY <1>1, <1>5 DEF FencedIsStranded, Stranded, At
<1>11. e.kind \notin {"tombstone", "blocked"} /\ e.req = NoRequest BY <1>2
<1> HIDE DEF e
<1> QED BY <1>4, <1>5, <1>8, <1>9, <1>10, <1>11, Emitted

LEMMA TickStep == ASSUME Operators, IInv, Tick \/ StepBack PROVE IInv'
<1>1. Types /\ PlaceOK /\ FencedIsStranded BY DEF IInv
<1>2. UNCHANGED <<spool, chain, payload, ack, file, run>> BY DEF Tick, StepBack
<1>3. now' \in Nat
  <2>1. now \in Nat BY <1>1, Zenon DEF Types
  <2>2. now' = now + 1 \/ (now > 1 /\ now' = now - 1) BY Zenon DEF Tick, StepBack
  <2> QED BY <2>1, <2>2
<1>4. used' \in [events : Nat, requests : Nat, faults : Nat]
  BY Zenon, <1>1, Counted DEF Tick, StepBack, Types
<1>5. Types' BY Zenon, <1>1, <1>2, <1>3, <1>4 DEF Types
<1>6. PlaceOK' BY Zenon, <1>1, <1>2 DEF PlaceOK, At
<1>7. FencedIsStranded' BY <1>1, <1>2 DEF FencedIsStranded, Stranded, At
<1>8. FileOK(file) BY DEF IInv
<1> QED BY <1>2, <1>5, <1>6, <1>7, <1>8, Apart

LEMMA PollStep == ASSUME Operators, IInv, Poll PROVE IInv'
<1>1. Types /\ PlaceOK BY DEF IInv
<1>2. /\ run.pc = "idle" /\ Len(chain) < Len(spool) /\ chain' = Accepted
      /\ payload' = payload \union {Len(chain) + 1}
      /\ UNCHANGED <<spool, ack, file, run, now, used>>
  BY DEF Poll, At
<1>3. chain' \in Seq(Facts) BY Zenon, <1>1, <1>2, AcceptedGrown DEF Grown
<1>4. Types' BY Zenon, <1>1, <1>2, <1>3 DEF Types
<1>5. PlaceOK' BY Zenon, <1>1, <1>2 DEF PlaceOK, At
<1>6. FencedIsStranded' BY <1>2 DEF FencedIsStranded, At
<1> QED BY Zenon, <1>2, <1>4, <1>5, <1>6, Taken

(* An ACK is prepared and confirmed while no unlink is under way.          *)
LEMMA AckStep == ASSUME Operators, IInv, PrepareAck \/ ConfirmAck PROVE IInv'
<1>1. Types /\ StreamOK /\ FileOK(file) /\ PlaceOK BY DEF IInv
<1>2. run.pc = "idle" /\ UNCHANGED <<spool, chain, payload, file, run, now, used>>
  BY DEF PrepareAck, ConfirmAck, At
<1>3. file.phase \notin UnlinkPhases /\ file.phase # "completed" BY Zenon, <1>1, <1>2 DEF PlaceOK, At
<1>4. ack.confirmed \in Nat /\ ack.pending \in Nat /\ ack \in [confirmed : Nat, pending : Nat]
  BY Zenon, <1>1 DEF Types
<1>5. ack.pending \in {0, ack.confirmed + 1} BY Zenon, <1>1 DEF FileOK, RemovedOK
<1>6. /\ ack' \in [confirmed : Nat, pending : Nat] /\ ack'.confirmed >= ack.confirmed
      /\ ack'.pending \in {0, ack'.confirmed + 1}
  <2>1. CASE PrepareAck BY <2>1, <1>4 DEF PrepareAck
  <2>2. CASE ConfirmAck BY <2>2, <1>4, <1>5 DEF ConfirmAck
  <2> QED BY <2>1, <2>2
<1>7. Types' BY Zenon, <1>1, <1>2, <1>6 DEF Types
<1>8. PlaceOK' BY Zenon, <1>1, <1>2 DEF PlaceOK, At
<1>9. FencedIsStranded' BY <1>2 DEF FencedIsStranded, At
<1>10. StreamOK' BY Zenon, <1>1, <1>2 DEF StreamOK
<1>11. PICK f : f = file OBVIOUS
<1>12. TombstonesOK(f.req)' BY Zenon, <1>1, <1>2, <1>11 DEF FileOK, TombstonesOK, Exact
<1>13. PhaseOK(f)' BY Zenon, <1>1, <1>2, <1>11 DEF FileOK, PhaseOK
<1>14. \A i \in Missing : i \in Nat /\ ack.confirmed > i
  <2>1. \A i \in Missing : ack.confirmed > i BY <1>1, Zenon DEF FileOK, RemovedOK
  <2>2. Missing \subseteq 1..Len(chain) BY <1>1, Fields, Zenon DEF Missing
  <2>3. Len(chain) \in Nat BY <1>1, Fields, Zenon
  <2> QED BY <2>1, <2>2, <2>3
<1>15. RemovedOK(f)'
  <2>1. Missing' = Missing BY <1>2 DEF Missing
  <2>2. \A i \in Missing : ack'.confirmed > i BY <1>4, <1>6, <1>14
  <2>3. f.phase \notin UnlinkPhases /\ f.phase # "completed" BY <1>3, <1>11
  <2>4. /\ f.req.op # "tombstone" => Missing = Covered(chain)
        /\ f.req.op = "tombstone" /\ f.phase \in OpenPhases => Missing = {}
    BY Zenon, <1>1, <1>11 DEF FileOK, RemovedOK
  <2> QED BY Zenon, <2>1, <2>2, <2>3, <2>4, <1>2, <1>6 DEF RemovedOK
<1>16. FileOK(f)' BY <1>12, <1>13, <1>15 DEF FileOK
<1> QED BY <1>2, <1>7, <1>8, <1>9, <1>10, <1>11, <1>16, Together

-----------------------------------------------------------------------------
(* Delivery of the request. *)

(* A durable request is delivered, waits for its ACKs, or ends the process. *)
LEMMA Continues ==
    ASSUME Types, NEW f, WithState(f)
    PROVE  /\ run' \in [pc : Places, target : Nat]
           /\ run'.pc \in {"down", "idle", "deliver"}
           /\ run'.pc # "down" => f.phase \in OpenPhases
<1>1. CASE Exit /\ f.phase \notin OpenPhases BY <1>1, Exits
<1>2. CASE Goto("idle") /\ f.phase \in OpenPhases BY Zenon, <1>2, GoesTo DEF Places
<1>3. CASE Goto("deliver") /\ f.phase \in OpenPhases BY <1>3, GoesTo DEF Places
<1> QED BY <1>1, <1>2, <1>3 DEF WithState

LEMMA ResumeStep == ASSUME Operators, IInv, ResumeRetention PROVE IInv'
<1>1. Types /\ PlaceOK /\ FileOK(file) BY DEF IInv
<1>2. UNCHANGED <<spool, chain, payload, ack, file, now, used>> /\ WithState(file)
  BY Zenon DEF ResumeRetention
<1>3. /\ run' \in [pc : Places, target : Nat] /\ run'.pc \in {"down", "idle", "deliver"}
      /\ run'.pc # "down" => file.phase \in OpenPhases
  BY Zenon, <1>1, <1>2, Continues
<1>4. Types' BY Zenon, <1>1, <1>2, <1>3 DEF Types
<1>5. PlaceOK' BY Zenon, <1>2, <1>3 DEF PlaceOK, At, OpenPhases, UnlinkPhases
<1>6. FencedIsStranded' BY <1>3 DEF FencedIsStranded, At
<1> QED BY Zenon, <1>1, <1>2, <1>4, <1>5, <1>6, Apart

(* What the observer has for the request, and the event it answers with.   *)
LEMMA PublishedStream ==
    ASSUME Operators, IInv, Future, spool' = Published(file.req), UNCHANGED <<chain, payload, ack, file>>,
           Types', PlaceOK', FencedIsStranded'
    PROVE  IInv'
<1>1. Types /\ StreamOK /\ PlaceOK /\ FileOK(file) BY DEF IInv
<1> PICK r : r = file.req OBVIOUS
<1>2. r \in Requests /\ r.op \in {"tombstone", "blocked"}
  BY Zenon, <1>1 DEF Types, Future, PlaceOK, FileOK, PhaseOK, OpenPhases
<1>3. CASE Issued(r) # {}
  <2>1. spool' = spool BY <1>3 DEF Published
  <2> QED BY <2>1, <1>1, Apart
<1>4. CASE Issued(r) = {}
  <2> DEFINE e == [kind |-> r.op, req |-> r]
  <2>1. spool' = Append(spool, e) BY <1>4 DEF Published
  <2>2. e \in Events BY Zenon, <1>2 DEF Events, EventKinds
  <2>3. e.kind = r.op /\ e.req = r /\ e.req.op = e.kind /\ e.kind \in {"tombstone", "blocked"}
    BY Zenon, <1>2
  <2>4. r.op = "tombstone" => \A i \in Tombstones(spool) : i \in Issued(r)
    BY Zenon, <1>1 DEF FileOK, TombstonesOK, Tombstones, Issued
  <2>5. e.kind = "tombstone" => file.req = e.req /\ Tombstones(spool) = {}
    BY Zenon, <2>3, <2>4, <1>4
  <2> HIDE DEF e
  <2> QED BY Zenon, <2>1, <2>2, <2>3, <2>5, Emitted
<1> QED BY <1>3, <1>4

LEMMA PublishedTypes ==
    ASSUME Operators, IInv, Future, NEW s, s = Published(file.req)
    PROVE  /\ s \in Seq(Events) /\ Len(spool) <= Len(s)
           /\ Receipt(file.req) \in 1..Len(s)
<1>1. Types /\ StreamOK /\ PlaceOK /\ FileOK(file) BY DEF IInv
<1> PICK r : r = file.req OBVIOUS
<1>2. r \in Requests /\ r.op \in {"tombstone", "blocked"}
  BY Zenon, <1>1 DEF Types, Future, PlaceOK, FileOK, PhaseOK, OpenPhases
<1>3. Len(spool) \in Nat /\ DOMAIN spool = 1..Len(spool) /\ spool \in Seq(Events)
  BY Zenon, <1>1, Fields DEF Types
<1>4. CASE Issued(r) # {}
  <2>1. Issued(r) \subseteq 1..Len(spool) BY <1>3 DEF Issued
  <2>4. Min(Issued(r)) \in Issued(r) BY Zenon, <1>4, <2>1, <1>3 DEF Operators, LeastExists
  <2>5. s = spool /\ Receipt(file.req) = Min(Issued(r)) BY Zenon, <1>4 DEF Published, Receipt
  <2> QED BY <2>1, <2>4, <2>5, <1>3
<1>5. CASE Issued(r) = {}
  <2> DEFINE e == [kind |-> r.op, req |-> r]
  <2>1. s = Append(spool, e) /\ Receipt(file.req) = Len(spool) + 1
    BY <1>5 DEF Published, Receipt
  <2>2. e \in Events BY Zenon, <1>2 DEF Events, EventKinds
  <2> HIDE DEF e
  <2> QED BY <2>1, <2>2, <1>3
<1> QED BY <1>4, <1>5

LEMMA PostStep == ASSUME Operators, IInv, Post PROVE IInv'
<1>1. Types /\ PlaceOK BY DEF IInv
<1>2. /\ Future /\ spool' = Published(file.req) /\ run' = [pc |-> "answer", target |-> Receipt(file.req)]
      /\ UNCHANGED <<chain, payload, ack, file, now, used>>
  BY Zenon DEF Post
<1>3. spool' \in Seq(Events) /\ Len(spool) <= Len(spool') /\ Receipt(file.req) \in 1..Len(spool')
  BY <1>2, PublishedTypes
<1>4. Len(spool') \in Nat BY <1>3
<1>5. run' \in [pc : Places, target : Nat] BY <1>2, <1>3, <1>4 DEF Places
<1>6. Types' BY Zenon, <1>1, <1>2, <1>3, <1>5 DEF Types
<1>7. file.phase \in {"selected", "target_bound"}
  BY Zenon, <1>1, <1>2 DEF Future, Historical, PlaceOK, OpenPhases
<1>8. PlaceOK' BY Zenon, <1>2, <1>3, <1>7 DEF PlaceOK, At
<1>9. FencedIsStranded' BY Zenon, <1>2 DEF FencedIsStranded, At
<1> QED BY Zenon, <1>2, <1>6, <1>8, <1>9, PublishedStream

LEMMA PostFailsStep == ASSUME Operators, IInv, PostLost \/ PostRefused PROVE IInv'
<1>1. Types /\ PlaceOK /\ FileOK(file) BY DEF IInv
<1>2. /\ Future /\ Goto("idle") /\ used' = [used EXCEPT !.faults = @ + 1]
      /\ spool' \in {spool, Published(file.req)}
      /\ UNCHANGED <<chain, payload, ack, file, now>>
  BY DEF PostLost, PostRefused
<1>3. spool' \in Seq(Events) BY Zenon, <1>1, <1>2, PublishedTypes DEF Types
<1>4. run' \in [pc : Places, target : Nat] /\ run'.pc = "idle" BY <1>1, <1>2, GoesTo DEF Places
<1>5. used' \in [events : Nat, requests : Nat, faults : Nat] BY <1>1, <1>2, Counted
<1>6. Types' BY <1>1, <1>2, <1>3, <1>4, <1>5 DEF Types
<1>7. file.phase \in OpenPhases BY <1>1, <1>2 DEF Future, PlaceOK
<1>8. PlaceOK' BY <1>2, <1>4, <1>7 DEF PlaceOK, At, OpenPhases, UnlinkPhases
<1>9. FencedIsStranded' BY <1>4 DEF FencedIsStranded, At
<1>10. CASE spool' = spool BY <1>1, <1>2, <1>6, <1>8, <1>9, <1>10, Apart
<1>11. CASE spool' = Published(file.req) BY <1>2, <1>6, <1>8, <1>9, <1>11, PublishedStream
<1> QED BY <1>2, <1>10, <1>11

(* A request bound to its control event, or proved by the evidence of it.  *)
LEMMA Delivered ==
    ASSUME Operators, IInv, file.phase \in OpenPhases, NEW phase \in {"target_bound", "evidence_appended"},
           NEW t \in 1..Len(spool), spool[t].req = file.req, phase = "evidence_appended" => t <= Len(chain),
           NEW f, f = [phase |-> phase, req |-> file.req, target |-> t, witness |-> file.witness]
    PROVE  FileOK(f)
<1>1. Types /\ FileOK(file) BY Zenon DEF IInv
<1>2. f.phase = phase /\ f.req = file.req /\ f.target = t BY Zenon
<1>3. TombstonesOK(f.req) BY Zenon, <1>1, <1>2 DEF FileOK
<1>4. file.req.op \in {"tombstone", "blocked"} /\ (file.req.op # "tombstone" => RunOf(file.req) = {})
  BY Zenon, <1>1 DEF FileOK, PhaseOK, OpenPhases
<1>5. Len(chain) \in Nat /\ Len(spool) \in Nat BY Zenon, <1>1, Fields
<1>6. PhaseOK(f) BY <1>2, <1>4, <1>5 DEF PhaseOK, UnlinkPhases
<1>7. /\ ack.pending \in {0, ack.confirmed + 1} /\ \A i \in Missing : ack.confirmed > i
      /\ file.req.op # "tombstone" => Missing = Covered(chain)
      /\ file.req.op = "tombstone" => Missing = {}
  BY Zenon, <1>1 DEF FileOK, RemovedOK
<1>8. RemovedOK(f) BY Zenon, <1>2, <1>7 DEF RemovedOK, UnlinkPhases
<1> QED BY Zenon, <1>3, <1>6, <1>8 DEF FileOK

LEMMA AnswerStep == ASSUME Operators, IInv, Answer PROVE IInv'
<1>1. Types /\ PlaceOK /\ FileOK(file) BY DEF IInv
<1>2. run.pc = "answer" /\ UNCHANGED <<spool, chain, payload, ack, now, used>> BY DEF Answer, At
<1>3. file.phase \in {"selected", "target_bound"} /\ run.target \in 1..Len(spool)
  BY Zenon, <1>1, <1>2 DEF PlaceOK, At
<1>4. CASE Exit /\ UNCHANGED file
  <2>1. run' \in [pc : Places, target : Nat] /\ run'.pc = "down" BY <1>4, Exits
  <2>2. Types' BY Zenon, <1>1, <1>2, <1>4, <2>1 DEF Types
  <2>3. PlaceOK' /\ FencedIsStranded' BY Zenon, <2>1 DEF PlaceOK, FencedIsStranded, At
  <2> QED BY Zenon, <1>1, <1>2, <1>4, <2>2, <2>3, Apart
<1>5. CASE PreflightHolds /\ Replace("target_bound", run.target) /\ Goto("accept")
  <2> DEFINE g == [phase |-> "target_bound", req |-> file.req, target |-> run.target,
                   witness |-> file.witness]
  <2>1. run' \in [pc : Places, target : Nat] /\ run'.pc = "accept" /\ run'.target = run.target
    BY <1>1, <1>5, GoesTo DEF Places
  <2>2. /\ spool[run.target].req = file.req /\ file.target \in {0, run.target}
        /\ run.target > Len(chain)
    BY <1>5 DEF PreflightHolds, AheadOfEvidence
  <2>3. Len(chain) \in Nat /\ Len(spool) \in Nat /\ run.target \in Nat /\ run.target # 0
    BY <1>1, <1>3, Fields
  <2>4. FileOK(g) /\ g.phase = "target_bound" /\ g.target = run.target
    BY Zenon, <1>3, <2>2, <2>3, Delivered DEF OpenPhases
  <2>5. PICK f : f = file' OBVIOUS
  <2>6. f = Advance(file, "target_bound", run.target)
    BY <1>5, <2>5 DEF Replace, Publish
  <2>7. f = IF "target_bound" \in NextPhases(file.phase, file.req.op) THEN g ELSE file
    BY <1>1, <2>2, <2>3, <2>6, Advances DEF Phases
  <2>8. FileOK(f) /\ f.phase = "target_bound" /\ f.target = run.target /\ f.req = file.req /\ f \in {g, file}
    <3>1. CASE file.phase = "selected" BY Zenon, <2>4, <2>7, <3>1, Transitions
    <3>2. CASE file.phase = "target_bound"
      <4>1. f = file BY Zenon, <2>7, <3>2, Transitions
      <4>2. file.target \in 1..Len(spool) BY Zenon, <1>1, <3>2 DEF FileOK, PhaseOK
      <4> QED BY <1>1, <2>2, <2>3, <3>2, <4>1, <4>2
    <3> QED BY Zenon, <1>3, <3>1, <3>2
  <2>9. f = [phase |-> f.phase, req |-> f.req, target |-> f.target, witness |-> f.witness]
    BY Zenon, <1>1, <2>8 DEF Types
  <2>10. Types' BY Zenon, <1>1, <1>2, <2>1, <2>3, <2>5, <2>8, <2>9 DEF Types, Phases
  <2>11. PlaceOK' BY <1>2, <2>1, <2>2, <2>3, <2>5, <2>8 DEF PlaceOK, At
  <2>12. FencedIsStranded' BY <2>1 DEF FencedIsStranded, At
  <2> QED BY Zenon, <1>2, <2>5, <2>8, <2>10, <2>11, <2>12, Apart
<1> QED BY <1>4, <1>5 DEF Answer

LEMMA AcceptStep == ASSUME Operators, IInv, AcceptItem PROVE IInv'
<1>1. Types /\ PlaceOK /\ FileOK(file) BY DEF IInv
<1>2. /\ run.pc = "accept" /\ Len(chain) < run.target /\ chain' = Accepted
      /\ payload' = payload \union {Len(chain) + 1}
      /\ UNCHANGED <<spool, ack, file, run, now, used>>
  BY DEF AcceptItem, At
<1>3. file.phase = "target_bound" /\ file.target = run.target BY Zenon, <1>1, <1>2 DEF PlaceOK, At
<1>4. run.target \in 1..Len(spool) BY Zenon, <1>1, <1>3 DEF FileOK, PhaseOK
<1>5. Len(chain) \in Nat /\ Len(spool) \in Nat BY <1>1, Fields
<1>6. Len(chain) < Len(spool) BY <1>2, <1>4, <1>5
<1>7. chain' \in Seq(Facts) /\ Len(chain') = Len(chain) + 1
  BY Zenon, <1>1, <1>2, <1>6, AcceptedGrown DEF Grown
<1>8. Types' BY Zenon, <1>1, <1>2, <1>7 DEF Types
<1>9. PlaceOK' BY <1>2, <1>3, <1>4, <1>5, <1>7 DEF PlaceOK, At
<1>10. FencedIsStranded' BY <1>2 DEF FencedIsStranded, At
<1> QED BY <1>2, <1>6, <1>8, <1>9, <1>10, Taken

(* The evidence of the control event is on record.                         *)
LEMMA Appended ==
    ASSUME Operators, IInv, file.phase \in {"target_bound", "evidence_appended"}, file.target <= Len(chain),
           Replace("evidence_appended", file.target), chain' \in {chain, Flushed(chain)},
           run' \in [pc : Places, target : Nat], run'.pc \in {"settle", "recache"},
           UNCHANGED <<spool, payload, ack, now, used>>
    PROVE  IInv'
<1> DEFINE g == [phase |-> "evidence_appended", req |-> file.req, target |-> file.target,
                 witness |-> file.witness]
<1>1. Types /\ FileOK(file) BY DEF IInv
<1>2. Len(chain) \in Nat /\ Len(spool) \in Nat /\ Len(chain) <= Len(spool) BY Zenon, <1>1, Fields DEF IInv, StreamOK
<1>3. file.target \in 1..Len(spool) /\ spool[file.target].req = file.req
  BY <1>1, <1>2 DEF FileOK, PhaseOK
<1>4. file.target \in Nat /\ file.target # 0 BY <1>2, <1>3
<1>5. FileOK(g) /\ g.phase = "evidence_appended"
  BY Zenon, <1>3, Delivered DEF OpenPhases
<1>6. PICK f : f = file' OBVIOUS
<1>7. f = Advance(file, "evidence_appended", file.target) BY <1>6 DEF Replace, Publish
<1>8. f = IF "evidence_appended" \in NextPhases(file.phase, file.req.op) THEN g ELSE file
  BY <1>1, <1>4, <1>7, Advances DEF Phases
<1>9. f.phase = "evidence_appended" /\ FileOK(f) /\ f.req = file.req /\ f.target = file.target
  BY Zenon, <1>1, <1>5, <1>8, Transitions
<1>10. f = [phase |-> f.phase, req |-> f.req, target |-> f.target, witness |-> f.witness]
  BY Zenon, <1>1, <1>8 DEF Types
<1>11. chain' \in Seq(Facts)
  BY Zenon, <1>1, FlushedGrown DEF Types, Grown
<1>12. Types' BY Zenon, <1>1, <1>6, <1>9, <1>10, <1>11 DEF Types, Phases
<1>13. PlaceOK' BY Zenon, <1>6, <1>9 DEF PlaceOK, At, UnlinkPhases
<1>14. FencedIsStranded' BY DEF FencedIsStranded, At
<1>15. f.req \in Requests BY Zenon, <1>1, <1>9 DEF Types
<1> QED BY Zenon, <1>6, <1>9, <1>12, <1>13, <1>14, <1>15, Sealed

LEMMA AppendedStep == ASSUME Operators, IInv, DeliverHistorical \/ AdvanceAppended PROVE IInv'
<1>1. Types /\ PlaceOK /\ FileOK(file) BY DEF IInv
<1>2. CASE DeliverHistorical
  <2>1. run' \in [pc : Places, target : Nat] /\ run'.pc = "settle"
    BY Zenon, <1>1, <1>2, GoesTo DEF DeliverHistorical, Places
  <2>2. file.phase \in {"target_bound", "evidence_appended"} /\ file.target <= Len(chain)
    BY <1>1, <1>2, Fields DEF DeliverHistorical, Historical, Bound, FileOK, PhaseOK
  <2> QED BY Zenon, <1>2, <2>1, <2>2, Appended DEF DeliverHistorical
<1>3. CASE AdvanceAppended
  <2>1. run' \in [pc : Places, target : Nat] /\ run'.pc = "settle"
    BY Zenon, <1>3 DEF AdvanceAppended, Places
  <2>2. file.phase = "target_bound" /\ file.target = run.target /\ file.target = Len(chain)
    BY Zenon, <1>1, <1>3 DEF AdvanceAppended, PlaceOK, At
  <2>3. Len(chain) \in Nat BY <1>1, Fields
  <2> QED BY <1>3, <2>1, <2>2, <2>3, Appended DEF AdvanceAppended
<1> QED BY <1>2, <1>3

-----------------------------------------------------------------------------
(* Selection. *)

(* A frozen namespace has no tombstone, for its run would be missing.      *)
LEMMA NoTombstoneYet ==
    ASSUME Operators, IInv, PayloadNamespace, file.req.op # "tombstone"
    PROVE  Tombstones(spool) = {} /\ Missing = {}
<1>1. Types /\ StreamOK /\ FileOK(file) BY DEF IInv
<1>2. Missing = {} BY DEF PayloadNamespace, Missing
<1>3. Covered(chain) = {} BY Zenon, <1>1, <1>2 DEF FileOK, RemovedOK
<1>4. ASSUME NEW i \in Tombstones(spool) PROVE FALSE
  <2>1. i \in 1..Len(spool) /\ spool[i].kind = "tombstone" /\ i <= Len(chain) /\ Exact(spool[i].req)
    BY Zenon, <1>1, <1>4, Fields DEF Tombstones, FileOK, TombstonesOK
  <2>2. i \in 1..Len(chain) BY <1>1, <2>1, Fields
  <2>3. i \in Tombstones(chain) /\ chain[i].req = spool[i].req
    BY Zenon, <1>1, <2>1, <2>2, Fields DEF Tombstones, StreamOK
  <2>4. PICK r : r = spool[i].req BY Zenon
  <2>5. r \in Requests BY Zenon, <1>1, <2>1, <2>4, Fields DEF Events
  <2>6. r.lo \in RunOf(r) BY <2>1, <2>4, <2>5 DEF Exact, RunOf, Requests
  <2>7. r.lo \in Covered(chain) BY Zenon, <2>3, <2>4, <2>6 DEF Covered
  <2> QED BY <1>3, <2>7
<1> QED BY <1>2, <1>4

(* A tombstone chosen from the sealed evidence is exact.                   *)
LEMMA ExactChosen ==
    ASSUME Operators, Types, NEW c, c = Flushed(chain), NEW req, DecisionOK(c, req), DecisionExact(c, req),
           req.op = "tombstone"
    PROVE  Exact(req)
<1>1. Len(c) = Len(chain) /\ Len(chain) \in Nat BY FlushedFacts, Fields, Zenon
<1>2. \A i \in 1..Len(chain) : c[i].kind = chain[i].kind /\ c[i].bytes = chain[i].bytes
  BY FlushedFacts, Zenon
<1>3. PICK lo, hi : lo = req.lo /\ hi = req.hi BY Zenon
<1>4. lo \in Nat /\ hi \in Nat BY <1>3, Zenon DEF DecisionOK, Requests
<1>5. 1 <= lo /\ lo <= hi /\ hi <= Len(chain) /\ req.h0 = Len(chain)
  BY <1>1, <1>3, Zenon DEF DecisionOK
<1>6. lo..hi \in SUBSET (1..Len(chain)) /\ RunOf(req) = lo..hi
  <2>1. lo..hi \in SUBSET (1..Len(chain)) BY <1>1, <1>4, <1>5
  <2> QED BY <1>3, <2>1, Zenon DEF RunOf
<1>7. \A p \in lo..hi : c[p].kind = "routine" BY <1>3, Zenon DEF DecisionOK
<1>8. \A p \in lo..hi : chain[p].kind = "routine" BY <1>2, <1>6, <1>7, Zenon
<1>9. PICK d : d = chain BY Zenon
<1>10. \A i \in 1..Len(d) : d[i].bytes \in Int /\ c[i].bytes = d[i].bytes
  BY <1>2, <1>9, Fields, Zenon DEF Facts
<1>11. Bytes(c, lo..hi) = Bytes(d, lo..hi)
  <2>1. SizeIsLocal BY Zenon DEF Operators
  <2>2. Len(d) \in Nat /\ Len(c) \in Nat /\ Len(d) <= Len(c) /\ lo..hi \in SUBSET (1..Len(d))
    BY <1>1, <1>6, <1>9
  <2> QED BY <1>10, <2>1, <2>2, Zenon DEF SizeIsLocal
<1>12. req.bytes = Bytes(c, RunOf(req)) /\ req.next = Successor(req, req.h0)
  BY Zenon DEF DecisionExact
<1>13. Len(chain) <= Len(chain) BY <1>1
<1> QED BY <1>3, <1>5, <1>6, <1>8, <1>9, <1>11, <1>12, <1>13, Zenon DEF Exact

(* A new request, chosen from the sealed evidence.                         *)
LEMMA ChosenFile ==
    ASSUME Operators, IInv, PayloadNamespace, file = NoFile, NEW c, c = Flushed(chain), NEW clock, NEW id \in Nat,
           NEW req, req = Decision(c, clock, id), DecisionExact(c, req), req # NoRequest,
           NEW w, NEW f, f = [phase |-> "selected", req |-> req, target |-> 0, witness |-> w]
    PROVE  FileOK(f) /\ req \in Requests
<1>1. Types /\ StreamOK /\ FileOK(file) BY Zenon DEF IInv
<1>2. c \in Seq(Facts) BY Zenon, <1>1, FlushedFacts
<1>3. Tombstones(spool) = {} /\ Missing = {} BY Zenon, NoTombstoneYet DEF NoFile, NoRequest
<1>4. DecisionOK(c, req) BY Zenon, <1>2 DEF Operators, DecisionsFit
<1>5. req.op \in {"tombstone", "blocked"}
  BY Zenon DEF Decision, TombstoneRequest, TombstoneOf, BlockedRequest
<1>6. ASSUME req.op = "tombstone" PROVE Exact(req) BY Zenon, <1>1, <1>4, <1>6, ExactChosen
<1>7. f.phase = "selected" /\ f.req = req /\ f.target = 0 BY Zenon
<1>8. TombstonesOK(f.req) BY Zenon, <1>3, <1>6, <1>7 DEF TombstonesOK
<1>9. PhaseOK(f) BY Zenon, <1>4, <1>5, <1>7 DEF PhaseOK, UnlinkPhases, DecisionOK
<1>10. /\ ack.pending \in {0, ack.confirmed + 1} /\ Missing = Covered(chain)
  BY Zenon, <1>1 DEF FileOK, RemovedOK, NoFile, NoRequest
<1>11. RemovedOK(f) BY Zenon, <1>3, <1>7, <1>10 DEF RemovedOK, UnlinkPhases
<1> QED BY Zenon, <1>4, <1>8, <1>9, <1>11 DEF FileOK, DecisionOK

LEMMA SelectStep == ASSUME Operators, IInv, NEW clock, SelectRetention(clock) PROVE IInv'
<1>1. Types /\ PlaceOK /\ FileOK(file) BY DEF IInv
<1>2. /\ run.pc = "idle" /\ file = NoFile /\ chain' = Flushed(chain)
      /\ UNCHANGED <<spool, payload, ack, now>>
  BY DEF SelectRetention, At
<1>3. chain' \in Seq(Facts) BY Zenon, <1>1, <1>2, FlushedGrown DEF Grown
<1>4. file.req \in Requests BY Zenon, <1>1 DEF Types
<1>5. CASE Exit /\ UNCHANGED <<file, used>>
  <2>1. run' \in [pc : Places, target : Nat] /\ run'.pc = "down" BY <1>5, Exits
  <2>2. Types' BY Zenon, <1>1, <1>2, <1>3, <1>5, <2>1 DEF Types
  <2>3. PlaceOK' /\ FencedIsStranded' BY Zenon, <2>1 DEF PlaceOK, FencedIsStranded, At
  <2> QED BY Zenon, <1>1, <1>2, <1>4, <1>5, <2>2, <2>3, Sealed
<1>6. CASE UNCHANGED <<file, run, used>>
  <2>1. Types' BY Zenon, <1>1, <1>2, <1>3, <1>6 DEF Types
  <2>2. PlaceOK' /\ FencedIsStranded' BY Zenon, <1>1, <1>2, <1>6 DEF PlaceOK, FencedIsStranded, At
  <2> QED BY Zenon, <1>1, <1>2, <1>4, <1>6, <2>1, <2>2, Sealed
<1>7. CASE \E req \in {Decision(chain', clock, used.requests + 1)} :
             /\ Freezes(chain', clock) /\ DecisionExact(chain', req) /\ req # NoRequest
             /\ Publish(SelectedState(Snapshot(chain', clock), req)) /\ WithState(file')
             /\ used' = [used EXCEPT !.requests = @ + 1]
  <2>1. PICK c, id, f : c = chain' /\ id = used.requests + 1 /\ f = file' OBVIOUS
  <2>2. PICK req : /\ req = Decision(c, clock, id) /\ Freezes(c, clock) /\ DecisionExact(c, req)
                   /\ req # NoRequest /\ f = SelectedState(Snapshot(c, clock), req) /\ WithState(f)
                   /\ used' = [used EXCEPT !.requests = @ + 1]
    BY <1>7, <2>1 DEF Publish
  <2>3. PICK w : f = [phase |-> "selected", req |-> req, target |-> 0, witness |-> w]
    BY Zenon, <2>2 DEF SelectedState
  <2>4. PayloadNamespace BY <2>2 DEF Freezes
  <2>5. id \in Nat BY <1>1, <2>1 DEF Types
  <2>6. FileOK(f) /\ req \in Requests BY <1>2, <2>1, <2>2, <2>3, <2>4, <2>5, ChosenFile
  <2>7. f.phase = "selected" /\ f.req = req /\ f.target = 0 /\ f.witness = w BY Zenon, <2>3
  <2>8. run' \in [pc : Places, target : Nat] /\ run'.pc \in {"down", "idle", "deliver"}
    BY <1>1, <2>2, Continues
  <2>9. used' \in [events : Nat, requests : Nat, faults : Nat] BY <1>1, <2>2, Counted
  <2>10. Types' BY <1>1, <1>2, <1>3, <2>1, <2>3, <2>6, <2>7, <2>8, <2>9 DEF Types, Phases
  <2>11. PlaceOK' BY Zenon, <2>1, <2>7, <2>8 DEF PlaceOK, At, OpenPhases, UnlinkPhases
  <2>12. FencedIsStranded' BY <2>8 DEF FencedIsStranded, At
  <2> QED BY Zenon, <1>2, <2>1, <2>6, <2>7, <2>10, <2>11, <2>12, Sealed
<1> QED BY <1>5, <1>6, <1>7 DEF SelectRetention
-----------------------------------------------------------------------------
(* After delivery. *)

(* A tombstone of the evidence is one of the stream.                       *)
LEMMA ChainTombstones ==
    ASSUME Types, StreamOK, NEW i \in Tombstones(chain)
    PROVE  /\ i \in 1..Len(chain) /\ i \in 1..Len(spool) /\ i \in Tombstones(spool)
           /\ chain[i].req = spool[i].req /\ spool[i].req \in Requests
<1>1. i \in 1..Len(chain) /\ chain[i].kind = "tombstone" BY Zenon, Fields DEF Tombstones
<1>2. Len(chain) \in Nat /\ Len(spool) \in Nat /\ Len(chain) <= Len(spool) BY Zenon, Fields DEF StreamOK
<1>3. i \in 1..Len(spool) BY <1>1, <1>2
<1>4. spool[i].kind = "tombstone" /\ chain[i].req = spool[i].req BY Zenon, <1>1 DEF StreamOK
<1>5. spool[i].req \in Requests BY Zenon, <1>3, Fields DEF Events
<1> QED BY Zenon, <1>1, <1>3, <1>4, <1>5, Fields DEF Tombstones

(* Only a control event carries a tombstone request.                       *)
LEMMA TombstoneKind ==
    ASSUME StreamOK, NEW i \in 1..Len(spool), spool[i].req.op = "tombstone"
    PROVE  spool[i].kind = "tombstone"
<1>1. NoRequest.op = "none" BY Zenon DEF NoRequest
<1>2. IF spool[i].kind \in {"tombstone", "blocked"} THEN spool[i].req.op = spool[i].kind
      ELSE spool[i].req = NoRequest
  BY Zenon DEF StreamOK
<1> QED BY Zenon, <1>1, <1>2

(* A tombstone's target is the one tombstone there is.                     *)
LEMMA OneTombstone ==
    ASSUME IInv, file.req.op = "tombstone", file.target \in 1..Len(chain),
           spool[file.target].req = file.req
    PROVE  /\ Tombstones(spool) = {file.target} /\ Tombstones(chain) = {file.target}
           /\ chain[file.target].req = file.req /\ Covered(chain) = RunOf(file.req)
<1>1. Types /\ StreamOK /\ FileOK(file) BY DEF IInv
<1>2. /\ Len(chain) \in Nat /\ Len(spool) \in Nat /\ Len(chain) <= Len(spool)
      /\ DOMAIN chain = 1..Len(chain) /\ DOMAIN spool = 1..Len(spool)
  BY Zenon, <1>1, Fields DEF StreamOK
<1>3. file.target \in 1..Len(spool) BY <1>2
<1>4. spool[file.target].kind = "tombstone" BY Zenon, <1>1, <1>3, TombstoneKind
<1>5. file.target \in Tombstones(spool) BY Zenon, <1>2, <1>3, <1>4 DEF Tombstones
<1>6. Tombstones(spool) = {file.target} BY Zenon, <1>1, <1>5 DEF FileOK, TombstonesOK
<1>7. \A i \in Tombstones(chain) : i \in Tombstones(spool) BY Zenon, <1>1, ChainTombstones
<1>8. file.target \in Tombstones(chain) /\ chain[file.target].req = file.req
  BY Zenon, <1>1, <1>2, <1>4 DEF Tombstones, StreamOK
<1>9. Tombstones(chain) = {file.target} BY Zenon, <1>6, <1>7, <1>8
<1> QED BY Zenon, <1>6, <1>8, <1>9 DEF Covered

(* The state file goes when nothing of the request is left to do.          *)
LEMMA Cleared ==
    ASSUME Operators, IInv, Clear, Missing = Covered(chain), \A i \in Tombstones(spool) : i <= Len(chain),
           run' \in [pc : Places, target : Nat], run'.pc = "idle",
           UNCHANGED <<spool, chain, payload, ack, now, used>>
    PROVE  IInv'
<1>1. Types /\ FileOK(file) BY Zenon DEF IInv
<1> PICK f : f = NoFile OBVIOUS
<1>2. /\ f.phase = "none" /\ f.req = NoRequest /\ f.target = 0 /\ NoRequest.op = "none"
      /\ NoRequest \in Requests /\ RunOf(NoRequest) = {}
      /\ f = [phase |-> f.phase, req |-> f.req, target |-> f.target, witness |-> f.witness]
  BY DEF NoFile, NoRequest, Requests, RunOf
<1>3. TombstonesOK(f.req) BY Zenon, <1>1, <1>2 DEF FileOK, TombstonesOK
<1>4. PhaseOK(f) BY Zenon, <1>2 DEF PhaseOK, UnlinkPhases
<1>5. RemovedOK(f) BY Zenon, <1>1, <1>2 DEF FileOK, RemovedOK, UnlinkPhases
<1>6. FileOK(f) /\ f = file' BY <1>3, <1>4, <1>5 DEF FileOK, Clear, Publish
<1>7. Types' BY <1>1, <1>2, <1>6 DEF Types, Phases
<1>8. PlaceOK' BY Zenon, <1>2, <1>6 DEF PlaceOK, At, UnlinkPhases
<1>9. FencedIsStranded' BY DEF FencedIsStranded, At
<1> QED BY <1>6, <1>7, <1>8, <1>9, Apart

LEMMA ClearStep == ASSUME Operators, IInv, ClearBlocked \/ ClearCompleted PROVE IInv'
<1>1. Types /\ PlaceOK /\ FileOK(file) BY DEF IInv
<1>2. Clear /\ Goto("idle") /\ UNCHANGED <<spool, chain, payload, ack, now, used>>
  BY DEF ClearBlocked, ClearCompleted
<1>3. run' \in [pc : Places, target : Nat] /\ run'.pc = "idle" BY <1>1, <1>2, GoesTo DEF Places
<1>4. Missing = Covered(chain) /\ \A i \in Tombstones(spool) : i <= Len(chain)
  <2>1. CASE ClearBlocked
    <3>1. file.req.op = "blocked" BY <2>1 DEF ClearBlocked
    <3> QED BY Zenon, <1>1, <3>1 DEF FileOK, RemovedOK, TombstonesOK
  <2>2. CASE ClearCompleted
    <3>1. file.phase = "completed" BY Zenon, <1>1, <2>2 DEF ClearCompleted, PlaceOK, At
    <3>2. file.req.op = "tombstone" /\ file.target \in 1..Len(chain) /\ spool[file.target].req = file.req
      BY Zenon, <1>1, <3>1 DEF FileOK, PhaseOK
    <3>3. Tombstones(spool) = {file.target} /\ Covered(chain) = RunOf(file.req) BY Zenon, <3>2, OneTombstone
    <3>4. Missing = RunOf(file.req) BY Zenon, <1>1, <3>1 DEF FileOK, RemovedOK
    <3>5. file.target <= Len(chain) BY <1>1, <3>2, Fields
    <3> QED BY <3>3, <3>4, <3>5
  <2> QED BY <2>1, <2>2
<1> QED BY <1>2, <1>3, <1>4, Cleared

LEMMA SettleStep == ASSUME Operators, IInv, AckLags \/ Authenticate PROVE IInv'
<1>1. Types /\ PlaceOK /\ FileOK(file) BY DEF IInv
<1>2. /\ run.pc = "settle" /\ file.req.op = "tombstone" /\ chain' \in {chain, Flushed(chain)}
      /\ UNCHANGED <<spool, payload, ack, file, now, used>>
      /\ Goto("idle") \/ Goto("unlink") \/ Exit
  BY Zenon DEF AckLags, Authenticate, At
<1>3. file.phase = "evidence_appended" BY Zenon, <1>1, <1>2 DEF PlaceOK
<1>4. run' \in [pc : Places, target : Nat] /\ run'.pc \in {"idle", "unlink", "down"}
  BY Zenon, <1>1, <1>2, GoesTo, Exits DEF Places
<1>5. chain' \in Seq(Facts) BY Zenon, <1>1, <1>2, FlushedGrown DEF Types, Grown
<1>6. Types' BY Zenon, <1>1, <1>2, <1>4, <1>5 DEF Types
<1>7. PlaceOK' BY Zenon, <1>2, <1>3, <1>4 DEF PlaceOK, At, UnlinkPhases
<1>8. FencedIsStranded' BY Zenon, <1>4 DEF FencedIsStranded, At
<1>9. file.req \in Requests BY Zenon, <1>1 DEF Types
<1> QED BY Zenon, <1>1, <1>2, <1>6, <1>7, <1>8, <1>9, Sealed

-----------------------------------------------------------------------------
(* The unlink. *)

(* The state file says that the unlink has begun, or is over.              *)
LEMMA Announced ==
    ASSUME IInv, file.phase \in {"evidence_appended"} \union UnlinkPhases, file.req.op = "tombstone",
           file.phase = "evidence_appended" => AckSurvives(file.req),
           NEW phase \in {"completed"} \union UnlinkPhases,
           phase = "completed" => RunOf(file.req) \subseteq Missing,
           NEW f, f = [phase |-> phase, req |-> file.req, target |-> file.target, witness |-> file.witness]
    PROVE  FileOK(f)
<1>1. Types /\ FileOK(file) BY Zenon DEF IInv
<1>2. f.phase = phase /\ f.req = file.req /\ f.target = file.target BY Zenon
<1>3. TombstonesOK(f.req) BY Zenon, <1>1, <1>2 DEF FileOK
<1>4. PhaseOK(f) BY Zenon, <1>1, <1>2 DEF FileOK, PhaseOK, UnlinkPhases
<1>5. file.req.hi \in Nat /\ ack.confirmed \in Nat /\ ack.pending \in Nat BY Zenon, <1>1 DEF Types, Requests
<1>6. /\ Missing \subseteq RunOf(file.req) /\ ack.confirmed > file.req.hi /\ ack.pending = 0
  <2>1. CASE file.phase = "evidence_appended"
    <3>1. Missing = {} BY Zenon, <1>1, <2>1 DEF FileOK, RemovedOK, OpenPhases
    <3>2. ack.pending \in {0, ack.confirmed + 1} BY Zenon, <1>1 DEF FileOK, RemovedOK
    <3>3. AckSurvives(file.req) BY Zenon, <2>1
    <3> QED BY <1>5, <3>1, <3>2, <3>3 DEF AckSurvives
  <2>2. CASE file.phase \in UnlinkPhases BY Zenon, <1>1, <2>2 DEF FileOK, RemovedOK
  <2> QED BY Zenon, <2>1, <2>2
<1>7. \A i \in Missing : ack.confirmed > i BY Zenon, <1>1 DEF FileOK, RemovedOK
<1>8. RemovedOK(f) BY Zenon, <1>2, <1>6, <1>7 DEF RemovedOK, OpenPhases, UnlinkPhases
<1> QED BY Zenon, <1>3, <1>4, <1>8 DEF FileOK

(* The step that writes it.                                                *)
LEMMA AnnouncedStep ==
    ASSUME Operators, IInv, file.phase \in {"evidence_appended"} \union UnlinkPhases, file.req.op = "tombstone",
           file.phase = "evidence_appended" => AckSurvives(file.req),
           NEW phase \in {"completed"} \union UnlinkPhases,
           phase = "completed" => RunOf(file.req) \subseteq Missing,
           phase \in NextPhases(file.phase, file.req.op), file' = Advance(file, phase, file.target),
           UNCHANGED <<spool, chain, payload, ack, now>>, run' \in [pc : Places, target : Nat],
           used' \in [events : Nat, requests : Nat, faults : Nat],
           CASE phase = "unlink_in_progress" -> run'.pc = "unlinking"
             [] phase = "commit_uncertain" -> run'.pc \in {"down", "failed"}
             [] phase = "completed" -> run'.pc \in {"rebuild", "recache"}
    PROVE  IInv'
<1>1. Types /\ FileOK(file) BY Zenon DEF IInv
<1>2. file.target \in Nat /\ file.target # 0 BY <1>1 DEF Types, FileOK, PhaseOK
<1>3. PICK f : f = file' OBVIOUS
<1>4. f = [phase |-> phase, req |-> file.req, target |-> file.target, witness |-> file.witness]
  BY Zenon, <1>1, <1>2, <1>3, Advances DEF Phases, UnlinkPhases
<1>5. FileOK(f) BY <1>4, Announced
<1>6. f.phase = phase /\ f.req = file.req /\ f.target = file.target /\ f.witness = file.witness BY Zenon, <1>4
<1>7. Types' BY <1>1, <1>3, <1>4, <1>6 DEF Types, Phases, UnlinkPhases
<1>8. PlaceOK' BY Zenon, <1>3, <1>6 DEF PlaceOK, At, UnlinkPhases
<1>9. FencedIsStranded' BY Zenon DEF FencedIsStranded, At, UnlinkPhases
<1> QED BY <1>3, <1>5, <1>7, <1>8, <1>9, Apart

(* A process that stops, or a step that leaves the disk as it is.          *)
LEMMA Stopped ==
    ASSUME Operators, IInv, run' \in [pc : Places, target : Nat], run'.pc \in {"down", "failed"},
           used' \in [events : Nat, requests : Nat, faults : Nat],
           UNCHANGED <<spool, chain, payload, ack, file, now>>
    PROVE  IInv'
<1>1. Types /\ FileOK(file) BY Zenon DEF IInv
<1>2. Types' BY Zenon, <1>1 DEF Types
<1>3. PlaceOK' /\ FencedIsStranded' BY Zenon DEF PlaceOK, FencedIsStranded, At
<1> QED BY <1>1, <1>2, <1>3, Apart

LEMMA BeginStep == ASSUME Operators, IInv, BeginUnlink PROVE IInv'
<1>1. Types /\ PlaceOK BY DEF IInv
<1>2. run.pc = "unlink" /\ UNCHANGED <<spool, chain, payload, ack, now, used>> BY Zenon DEF BeginUnlink, At
<1>3. used' \in [events : Nat, requests : Nat, faults : Nat] BY Zenon, <1>1, <1>2 DEF Types
<1>4. CASE Exit /\ UNCHANGED file BY <1>2, <1>3, <1>4, Exits, Stopped
<1>5. CASE AckSurvives(file.req) /\ Replace("unlink_in_progress", file.target) /\ Goto("unlinking")
  <2>1. file.phase = "evidence_appended" /\ file.req.op = "tombstone" BY Zenon, <1>1, <1>2 DEF PlaceOK, At
  <2>2. "unlink_in_progress" \in NextPhases(file.phase, file.req.op) BY Zenon, <2>1, Transitions
  <2>3. run' \in [pc : Places, target : Nat] /\ run'.pc = "unlinking"
    BY Zenon, <1>1, <1>5, GoesTo DEF Places
  <2>4. file' = Advance(file, "unlink_in_progress", file.target) BY Zenon, <1>5 DEF Replace, Publish
  <2> QED BY <1>2, <1>3, <1>5, <2>1, <2>2, <2>3, <2>4, AnnouncedStep DEF UnlinkPhases
<1> QED BY Zenon, <1>4, <1>5 DEF BeginUnlink

(* The uncertainty is recorded, or the state file is left as it is.        *)
LEMMA UncertainStep ==
    ASSUME Operators, IInv, file' \in {file, Advance(file, "commit_uncertain", file.target)},
           UNCHANGED <<spool, chain, payload, ack, now>>, run' \in [pc : Places, target : Nat],
           run'.pc \in {"down", "failed"}, used' \in [events : Nat, requests : Nat, faults : Nat]
    PROVE  IInv'
<1>1. Types /\ FileOK(file) BY Zenon DEF IInv
<1>2. CASE file' = file BY Zenon, <1>2, Stopped
<1>3. CASE file' # file
  <2>1. file' = Advance(file, "commit_uncertain", file.target) BY Zenon, <1>3
  <2>2. file.target \in Nat BY Zenon, <1>1 DEF Types
  <2>3. "commit_uncertain" \in NextPhases(file.phase, file.req.op)
    BY <1>1, <1>3, <2>1, <2>2, Advances DEF Phases
  <2>4. file.phase = "unlink_in_progress" BY Zenon, <2>3, Transitions
  <2>5. file.req.op = "tombstone" BY Zenon, <1>1, <2>4 DEF FileOK, PhaseOK, UnlinkPhases
  <2> QED BY Zenon, <2>1, <2>3, <2>4, <2>5, AnnouncedStep DEF UnlinkPhases
<1> QED BY Zenon, <1>2, <1>3

LEMMA FailStep == ASSUME Operators, IInv, UnlinkFails \/ RecoveryFails PROVE IInv'
<1>1. Types BY DEF IInv
<1>2. /\ file' \in {file, Advance(file, "commit_uncertain", file.target)}
      /\ Exit \/ Goto("failed")
      /\ used' = [used EXCEPT !.faults = @ + 1]
      /\ UNCHANGED <<spool, chain, payload, ack, now>>
  BY Zenon DEF UnlinkFails, RecoveryFails
<1>3. run' \in [pc : Places, target : Nat] /\ run'.pc \in {"down", "failed"}
  BY Zenon, <1>1, <1>2, Exits, GoesTo DEF Places
<1>4. used' \in [events : Nat, requests : Nat, faults : Nat] BY <1>1, <1>2, Counted
<1> QED BY <1>2, <1>3, <1>4, UncertainStep

LEMMA CompleteStep == ASSUME Operators, IInv, CompleteUnlink \/ ResumeCompleted PROVE IInv'
<1>1. Types /\ PlaceOK /\ FileOK(file) BY DEF IInv
<1>2. UNCHANGED <<spool, chain, payload, ack, now, used>> BY Zenon DEF CompleteUnlink, ResumeCompleted
<1>3. used' \in [events : Nat, requests : Nat, faults : Nat] BY Zenon, <1>1, <1>2 DEF Types
<1>4. file.phase \in UnlinkPhases
  BY Zenon, <1>1 DEF CompleteUnlink, ResumeCompleted, PlaceOK, At, UnlinkPhases
<1>5. file.req.op = "tombstone" BY Zenon, <1>1, <1>4 DEF FileOK, PhaseOK
<1>6. "completed" \in NextPhases(file.phase, file.req.op) BY Zenon, <1>4, Transitions DEF UnlinkPhases
<1>7. ASSUME Replace("completed", file.target), RunOf(file.req) \subseteq Missing,
             Goto("rebuild") \/ Goto("recache")
      PROVE  IInv'
  <2>1. run' \in [pc : Places, target : Nat] /\ run'.pc \in {"rebuild", "recache"}
    BY Zenon, <1>1, <1>7, GoesTo DEF Places
  <2>2. file' = Advance(file, "completed", file.target) BY Zenon, <1>7 DEF Replace, Publish
  <2>3. file.phase # "evidence_appended" BY Zenon, <1>4 DEF UnlinkPhases
  <2> QED BY Zenon, <1>2, <1>3, <1>4, <1>5, <1>6, <1>7, <2>1, <2>2, <2>3, AnnouncedStep
<1>8. CASE ResumeCompleted
  <2>1. Replace("completed", file.target) /\ Goto("recache") /\ Present = {} BY Zenon, <1>8 DEF ResumeCompleted
  <2>2. Exact(file.req) /\ file.req \in Requests BY Zenon, <1>1, <1>5 DEF FileOK, TombstonesOK, Types
  <2>3. RunOf(file.req) \subseteq 1..Len(chain) BY Zenon, <1>1, <2>2, ExactRun
  <2>4. RunOf(file.req) \subseteq Missing BY Zenon, <1>1, <2>1, <2>3, Fields DEF Present, Missing
  <2> QED BY Zenon, <1>7, <2>1, <2>4
<1>9. CASE CompleteUnlink
  <2>1. CASE NamespaceAfterUnlink /\ Replace("completed", file.target) /\ Goto("rebuild")
    BY Zenon, <1>7, <2>1 DEF NamespaceAfterUnlink
  <2>2. CASE Replace("commit_uncertain", file.target) /\ Exit
    BY Zenon, <1>2, <1>3, <2>2, Exits, UncertainStep DEF Replace, Publish
  <2> QED BY Zenon, <1>9, <2>1, <2>2 DEF CompleteUnlink
<1> QED BY <1>8, <1>9

(* One payload of the run goes.                                            *)
LEMMA UnlinkStep == ASSUME Operators, IInv, UnlinkPayload \/ ResumeUnlink PROVE IInv'
<1>1. Types /\ StreamOK /\ PlaceOK /\ FileOK(file) BY DEF IInv
<1>2. /\ run.pc \in {"unlinking", "resume"} /\ Present # {} /\ payload' = payload \ {Min(Present)}
      /\ UNCHANGED <<spool, chain, ack, file, run, now, used>>
  BY Zenon DEF UnlinkPayload, ResumeUnlink, At
<1>3. file.phase \in UnlinkPhases BY Zenon, <1>1, <1>2 DEF PlaceOK, At, UnlinkPhases
<1>4. file.req.op = "tombstone" BY Zenon, <1>1, <1>3 DEF FileOK, PhaseOK
<1>5. Exact(file.req) /\ file.req \in Requests BY Zenon, <1>1, <1>4 DEF FileOK, TombstonesOK, Types
<1>6. RunOf(file.req) \subseteq 1..Len(chain) BY Zenon, <1>1, <1>5, ExactRun
<1>7. Present \in SUBSET (1..Len(chain)) /\ Len(chain) \in Nat BY <1>1, <1>6, Fields DEF Present
<1>8. PICK m : m = Min(Present) BY Zenon
<1>9. m \in Present BY Zenon, <1>2, <1>7, <1>8 DEF Operators, LeastExists
<1>10. m \in RunOf(file.req) BY Zenon, <1>9 DEF Present
<1>11. Missing' = Missing \union {m}
  BY Zenon, <1>1, <1>2, <1>6, <1>8, <1>10, Fields DEF Missing
<1>12. PICK f : f = file OBVIOUS
<1>13. TombstonesOK(f.req)'
  <2>1. TombstonesOK(f.req) BY Zenon, <1>1, <1>12 DEF FileOK
  <2> QED BY Zenon, <1>2, <2>1 DEF TombstonesOK, Exact
<1>14. PhaseOK(f)' BY Zenon, <1>1, <1>2, <1>12 DEF FileOK, PhaseOK
<1>15. RemovedOK(f)'
  <2>1. /\ ack.pending = 0 /\ ack.confirmed > f.req.hi /\ Missing \subseteq RunOf(f.req)
        /\ \A i \in Missing : ack.confirmed > i
    BY Zenon, <1>1, <1>3, <1>12 DEF FileOK, RemovedOK
  <2>2. ack.confirmed \in Nat /\ f.req.lo \in Nat /\ f.req.hi \in Nat /\ m \in f.req.lo..f.req.hi
    BY Zenon, <1>1, <1>5, <1>10, <1>12 DEF Types, RunOf, Requests
  <2>3. ack.confirmed > m BY <2>1, <2>2
  <2> QED BY Zenon, <1>2, <1>3, <1>4, <1>10, <1>11, <1>12, <2>1, <2>3 DEF RemovedOK, OpenPhases, UnlinkPhases
<1>16. FileOK(f)' BY <1>13, <1>14, <1>15 DEF FileOK
<1>17. StreamOK' BY Zenon, <1>1, <1>2 DEF StreamOK
<1>18. Types' BY Zenon, <1>1, <1>2 DEF Types
<1>19. PlaceOK' BY Zenon, <1>1, <1>2 DEF PlaceOK, At
<1>20. FencedIsStranded' BY <1>2 DEF FencedIsStranded, At
<1> QED BY Zenon, <1>2, <1>12, <1>16, <1>17, <1>18, <1>19, <1>20, Together

LEMMA FinishStep == ASSUME Operators, IInv, Rebuild \/ PublishBoundary \/ ReconcileBoundary PROVE IInv'
<1>1. Types /\ PlaceOK /\ FileOK(file) BY DEF IInv
<1>2. /\ run.pc \in {"rebuild", "boundary", "recache"}
      /\ UNCHANGED <<spool, chain, payload, ack, file, now, used>>
      /\ \/ Exit
         \/ Goto("boundary") /\ run.pc = "rebuild"
         \/ Goto("clear") /\ file.phase = "completed"
         \/ Goto("idle") /\ run.pc = "recache" /\ file.phase # "completed"
  BY Zenon DEF Rebuild, PublishBoundary, CompletionHolds, ReconcileBoundary, At
<1>3. used' \in [events : Nat, requests : Nat, faults : Nat] BY Zenon, <1>1, <1>2 DEF Types
<1>4. CASE Exit BY Zenon, <1>2, <1>3, <1>4, Exits, Stopped
<1>5. CASE ~Exit
  <2>1. run' \in [pc : Places, target : Nat] /\ run'.pc \in {"boundary", "clear", "idle"}
    BY Zenon, <1>1, <1>2, <1>5, GoesTo DEF Places
  <2>2. IF run'.pc = "idle" THEN file.phase \notin UnlinkPhases /\ file.phase # "completed"
        ELSE file.phase = "completed"
    BY Zenon, <1>1, <1>2, <1>5, GoesTo DEF PlaceOK, At, Places
  <2>3. Types' BY Zenon, <1>1, <1>2, <2>1 DEF Types
  <2>4. PlaceOK' BY Zenon, <1>2, <2>1, <2>2 DEF PlaceOK, At
  <2>5. FencedIsStranded' BY <2>1 DEF FencedIsStranded, At
  <2> QED BY Zenon, <1>1, <1>2, <2>3, <2>4, <2>5, Apart
<1> QED BY <1>4, <1>5

LEMMA CrashStep == ASSUME Operators, IInv, Crash PROVE IInv'
<1>1. Types BY Zenon DEF IInv
<1>2. Exit /\ used' = [used EXCEPT !.faults = @ + 1] /\ UNCHANGED <<spool, chain, payload, ack, file, now>>
  BY DEF Crash
<1>3. used' \in [events : Nat, requests : Nat, faults : Nat] BY <1>1, <1>2, Counted
<1> QED BY <1>2, <1>3, Exits, Stopped

-----------------------------------------------------------------------------
(* Recovery. *)

(* The state's target is found in the evidence, when it must be.           *)
LEMMA TargetFound ==
    ASSUME IInv, file.req.op = "tombstone", PhaseNeedsTarget
    PROVE  CurrentTarget /\ Covered(chain) = RunOf(file.req)
<1>1. Types /\ FileOK(file) BY DEF IInv
<1>2. Len(chain) \in Nat /\ Len(spool) \in Nat BY Zenon, <1>1, Fields
<1>3. file.target \in 1..Len(chain) /\ spool[file.target].req = file.req
  <2>1. PhaseOK(file) BY Zenon, <1>1 DEF FileOK
  <2>2. CASE file.phase \in {"evidence_appended", "completed"} \union UnlinkPhases BY Zenon, <2>1, <2>2 DEF PhaseOK
  <2>3. CASE file.phase = "target_bound" /\ file.target <= Len(chain)
    <3>1. file.target \in 1..Len(spool) /\ spool[file.target].req = file.req BY Zenon, <2>1, <2>3 DEF PhaseOK
    <3> QED BY <1>2, <2>3, <3>1
  <2> QED BY Zenon, <2>2, <2>3 DEF PhaseNeedsTarget
<1>4. /\ Tombstones(chain) = {file.target} /\ chain[file.target].req = file.req
      /\ Covered(chain) = RunOf(file.req)
  BY Zenon, <1>3, OneTombstone
<1> QED BY <1>2, <1>3, <1>4 DEF CurrentTarget

(* Before that, the request is not in the evidence's files yet.            *)
LEMMA BeforeTarget ==
    ASSUME Types, FileOK(file), file.req.op = "tombstone"
    PROVE  /\ ~PhaseNeedsTarget => file.phase \in {"selected", "target_bound"}
           /\ file.phase \in OpenPhases \union UnlinkPhases \union {"completed"}
<1>1. NoFile.req.op = "none" BY Zenon DEF NoFile, NoRequest
<1>2. file.phase # "none" BY Zenon, <1>1 DEF FileOK, PhaseOK
<1>3. file.phase \in Phases BY Zenon DEF Types
<1> QED BY Zenon, <1>2, <1>3 DEF Phases, PhaseNeedsTarget, OpenPhases, UnlinkPhases

(* Before it is needed and unless the request is stranded, there is none.  *)
LEMMA NothingCovered ==
    ASSUME IInv, file.req.op = "tombstone", ~PhaseNeedsTarget, ~Stranded
    PROVE  Covered(chain) = {}
<1>1. Types /\ StreamOK /\ FileOK(file) BY Zenon DEF IInv
<1>2. /\ Len(chain) \in Nat /\ Len(spool) \in Nat /\ Len(chain) <= Len(spool)
      /\ DOMAIN chain = 1..Len(chain) /\ DOMAIN spool = 1..Len(spool)
  BY Zenon, <1>1, Fields DEF StreamOK
<1>3. file.phase \in {"selected", "target_bound"}
  BY Zenon, <1>1, BeforeTarget
<1>4. ASSUME NEW i \in Tombstones(chain) PROVE FALSE
  <2>1. i \in 1..Len(chain) /\ i \in 1..Len(spool) /\ i \in Tombstones(spool) /\ chain[i].req = spool[i].req
    BY Zenon, <1>1, <1>4, ChainTombstones
  <2>2. chain[i].req = file.req BY Zenon, <1>1, <2>1 DEF FileOK, TombstonesOK
  <2>3. CASE file.phase = "selected" BY Zenon, <1>2, <2>1, <2>2, <2>3 DEF Stranded
  <2>4. CASE file.phase = "target_bound"
    <3>1. file.target \in 1..Len(spool) /\ spool[file.target].req = file.req
      BY Zenon, <1>1, <2>4 DEF FileOK, PhaseOK
    <3>2. spool[file.target].kind = "tombstone" BY Zenon, <1>1, <3>1, TombstoneKind
    <3>3. file.target \in Tombstones(spool) BY Zenon, <1>2, <3>1, <3>2 DEF Tombstones
    <3>4. file.target = i BY Zenon, <1>1, <2>1, <3>3 DEF FileOK, TombstonesOK
    <3> QED BY <1>2, <2>1, <2>4, <3>4 DEF PhaseNeedsTarget
  <2> QED BY Zenon, <1>3, <2>3, <2>4
<1> QED BY Zenon, <1>4 DEF Covered

(* Each tombstone of the evidence fits the chain.                          *)
LEMMA TombstonesFit == ASSUME IInv PROVE TombstonesRecover
<1>1. Types /\ StreamOK /\ FileOK(file) BY DEF IInv
<1>2. /\ Len(chain) \in Nat /\ Len(spool) \in Nat /\ Len(chain) <= Len(spool)
      /\ DOMAIN chain = 1..Len(chain) /\ DOMAIN spool = 1..Len(spool)
  BY Zenon, <1>1, Fields DEF StreamOK
<1>3. \A i \in Tombstones(chain) : /\ i \in Tombstones(spool) /\ chain[i].req = spool[i].req
                                   /\ spool[i].req \in Requests
  BY Zenon, <1>1, ChainTombstones
<1>4. ASSUME NEW i \in Tombstones(chain) PROVE RunExact(chain, i)
  <2>1. PICK r : r = chain[i].req OBVIOUS
  <2>2. r \in Requests /\ Exact(r) /\ r.h0 < i BY Zenon, <1>1, <1>3, <2>1 DEF FileOK, TombstonesOK
  <2>3. r.lo \in RunOf(r) BY Zenon, <1>1, <2>2, ExactRun
  <2> QED BY Zenon, <2>1, <2>2, <2>3 DEF Exact, RunExact, Removable
<1>5. \A i, j \in Tombstones(chain) : i = j BY Zenon, <1>1, <1>3 DEF FileOK, TombstonesOK
<1>6. \A i, j \in Tombstones(chain) : ~(i < j) BY <1>2, <1>5 DEF Tombstones
<1> QED BY Zenon, <1>4, <1>6 DEF TombstonesRecover, PriorCoverage

(* Whatever a crash or an error left, recovery authenticates it unless the *)
(* request is stranded.                                                    *)
LEMMA RecoveryAccepts == ASSUME IInv, ~Stranded PROVE RecoveryAuthentic
<1>1. Types /\ FileOK(file) BY DEF IInv
<1>2. file.req.op = "tombstone" /\ PhaseNeedsTarget => CurrentTarget BY TargetFound
<1>3. PayloadsMatchPhase
  <2>1. CASE file.req.op # "tombstone"
    <3>1. Missing = Covered(chain) /\ RunOf(file.req) = {} BY Zenon, <1>1, <2>1 DEF FileOK, RemovedOK, PhaseOK
    <3> QED BY Zenon, <3>1 DEF PayloadsMatchPhase
  <2>2. CASE file.req.op = "tombstone" /\ PhaseNeedsTarget
    <3>1. CurrentTarget /\ Covered(chain) = RunOf(file.req) BY Zenon, <2>2, TargetFound
    <3>2. file.phase \in OpenPhases => Missing = {} BY Zenon, <1>1, <2>2 DEF FileOK, RemovedOK
    <3>3. Missing \subseteq RunOf(file.req)
      BY Zenon, <1>1, <2>2, <3>2 DEF FileOK, RemovedOK, PhaseNeedsTarget, OpenPhases
    <3>4. file.phase = "completed" => RunOf(file.req) \subseteq Missing BY Zenon, <1>1 DEF FileOK, RemovedOK
    <3> QED BY Zenon, <3>1, <3>2, <3>3, <3>4 DEF PayloadsMatchPhase
  <2>3. CASE file.req.op = "tombstone" /\ ~PhaseNeedsTarget
    <3>1. Covered(chain) = {} BY Zenon, <2>3, NothingCovered
    <3>2. file.phase \in {"selected", "target_bound"}
      BY Zenon, <1>1, <2>3, BeforeTarget
    <3>3. Missing = {} BY Zenon, <1>1, <2>3, <3>2 DEF FileOK, RemovedOK, OpenPhases
    <3> QED BY Zenon, <3>1, <3>2, <3>3 DEF PayloadsMatchPhase
  <2> QED BY <2>1, <2>2, <2>3
<1>4. AckRecoversPast
  <2>1. ack.confirmed \in Nat /\ file.req.hi \in Nat BY Zenon, <1>1 DEF Types, Requests
  <2>2. \A i \in Missing : i \in Nat /\ ack.confirmed > i
    <3>1. \A i \in Missing : ack.confirmed > i BY Zenon, <1>1 DEF FileOK, RemovedOK
    <3>2. Missing \subseteq 1..Len(chain) BY Zenon, <1>1, Fields DEF Missing
    <3>3. Len(chain) \in Nat BY Zenon, <1>1, Fields
    <3> QED BY <3>1, <3>2, <3>3
  <2>3. file.phase \in UnlinkPhases => ack.pending = 0 /\ ack.confirmed > file.req.hi
    BY Zenon, <1>1 DEF FileOK, RemovedOK
  <2> QED BY <2>1, <2>2, <2>3 DEF AckRecoversPast, AckSurvives
<1> QED BY Zenon, <1>2, <1>3, <1>4, TombstonesFit DEF RecoveryAuthentic

LEMMA RecoverStep == ASSUME Operators, IInv, Recover PROVE IInv'
<1>1. Types /\ PlaceOK /\ FileOK(file) BY DEF IInv
<1>2. run.pc = "down" /\ UNCHANGED <<spool, chain, payload, ack, now, used>> BY Zenon DEF Recover, At
<1>3. CASE ~RecoveryAuthentic
  <2>1. Goto("fenced") /\ UNCHANGED file BY Zenon, <1>3 DEF Recover
  <2>2. run' \in [pc : Places, target : Nat] /\ run'.pc = "fenced" BY Zenon, <1>1, <2>1, GoesTo DEF Places
  <2>3. Stranded BY <1>3, RecoveryAccepts
  <2>4. FencedIsStranded' BY Zenon, <1>2, <2>1, <2>3 DEF FencedIsStranded, Stranded
  <2>5. Types' BY Zenon, <1>1, <1>2, <2>1, <2>2 DEF Types
  <2>6. PlaceOK' BY Zenon, <2>2 DEF PlaceOK, At
  <2> QED BY Zenon, <1>1, <1>2, <2>1, <2>4, <2>5, <2>6, Apart
<1>4. CASE RecoveryAuthentic /\ file.phase = "target_bound" /\ CurrentTarget
  <2>1. Replace("evidence_appended", file.target) /\ Goto("recache")
    BY Zenon, <1>4 DEF Recover, AfterRecovery, UnlinkPhases
  <2>2. run' \in [pc : Places, target : Nat] /\ run'.pc = "recache" BY Zenon, <1>1, <2>1, GoesTo DEF Places
  <2>3. file.target <= Len(chain) BY <1>1, <1>4, Fields DEF CurrentTarget, Tombstones
  <2> QED BY Zenon, <1>2, <1>4, <2>1, <2>2, <2>3, Appended
<1>5. CASE RecoveryAuthentic /\ ~(file.phase = "target_bound" /\ CurrentTarget)
  <2>1. UNCHANGED file /\ Goto(AfterRecovery(file.phase)) BY Zenon, <1>5 DEF Recover
  <2>2. /\ run' \in [pc : Places, target : Nat]
        /\ run'.pc = IF file.phase \in UnlinkPhases THEN "resume" ELSE "recache"
    BY Zenon, <1>1, <2>1, GoesTo DEF AfterRecovery, Places
  <2>3. Types' BY Zenon, <1>1, <1>2, <2>1, <2>2 DEF Types
  <2>4. PlaceOK' BY Zenon, <2>1, <2>2 DEF PlaceOK, At
  <2>5. FencedIsStranded' BY <2>2 DEF FencedIsStranded, At
  <2> QED BY Zenon, <1>1, <1>2, <2>1, <2>3, <2>4, <2>5, Apart
<1> QED BY <1>3, <1>4, <1>5

-----------------------------------------------------------------------------
(* The whole of it. *)

LEMMA Start == ASSUME Init PROVE IInv
<1>1. NoRequest \in Requests /\ NoRequest.op = "none" /\ RunOf(NoRequest) = {}
  BY DEF NoRequest, Requests, RunOf
<1>2. /\ file = NoFile /\ file.phase = "none" /\ file.req = NoRequest /\ file.target = 0
      /\ file = [phase |-> file.phase, req |-> file.req, target |-> file.target, witness |-> file.witness]
  BY Zenon DEF Init, NoFile
<1>3. /\ spool = <<>> /\ chain = <<>> /\ payload = {} /\ ack = [confirmed |-> 0, pending |-> 0]
      /\ run = [pc |-> "idle", target |-> 0] /\ now = 1
      /\ used = [events |-> 0, requests |-> 0, faults |-> 0]
  BY Zenon DEF Init
<1>4. Types BY <1>1, <1>2, <1>3 DEF Types, Phases, Places
<1>5. StreamOK BY <1>3 DEF StreamOK
<1>6. Tombstones(spool) = {} /\ Tombstones(chain) = {} /\ Missing = {}
  BY <1>3 DEF Tombstones, Missing
<1>7. TombstonesOK(file.req) BY Zenon, <1>1, <1>2, <1>6 DEF TombstonesOK
<1>8. PhaseOK(file) BY Zenon, <1>1, <1>2 DEF PhaseOK, UnlinkPhases
<1>9. RemovedOK(file) BY Zenon, <1>1, <1>2, <1>3, <1>6 DEF RemovedOK, Covered, UnlinkPhases, OpenPhases
<1>10. PlaceOK /\ FencedIsStranded BY Zenon, <1>2, <1>3 DEF PlaceOK, FencedIsStranded, At, UnlinkPhases
<1> QED BY <1>4, <1>5, <1>7, <1>8, <1>9, <1>10 DEF IInv, FileOK

LEMMA Stutter == ASSUME Operators, IInv, UNCHANGED vars PROVE IInv'
<1>1. Types /\ PlaceOK /\ FencedIsStranded /\ FileOK(file) BY DEF IInv
<1>2. UNCHANGED <<spool, chain, payload, ack, file, run, now, used>> BY Zenon DEF vars
<1>3. Types' BY Zenon, <1>1, <1>2 DEF Types
<1>4. PlaceOK' BY Zenon, <1>1, <1>2 DEF PlaceOK, At
<1>5. FencedIsStranded' BY Zenon, <1>1, <1>2 DEF FencedIsStranded, Stranded, At
<1> QED BY Zenon, <1>1, <1>2, <1>3, <1>4, <1>5, Apart

LEMMA Step == ASSUME Operators, IInv, [Next]_vars PROVE IInv'
<1>1. ASSUME NEW kind \in Kinds, Emit(kind) PROVE IInv' BY <1>1, EmitStep
<1>2. CASE Tick \/ StepBack BY <1>2, TickStep
<1>3. CASE Ordinary BY <1>3, PollStep, AckStep DEF Ordinary
<1>4. CASE Selecting BY <1>4, SelectStep DEF Selecting
<1>5. CASE CarryOut
  BY Zenon, <1>5, ResumeStep, AppendedStep, PostStep, AnswerStep, AcceptStep, ClearStep, SettleStep, BeginStep,
     UnlinkStep, CompleteStep, FinishStep DEF CarryOut
<1>6. CASE Faults BY <1>6, CrashStep, PostFailsStep, FailStep, TickStep DEF Faults
<1>7. CASE Recovery BY <1>7, RecoverStep, UnlinkStep, CompleteStep, FinishStep DEF Recovery
<1>8. CASE UNCHANGED vars BY <1>8, Stutter
<1> QED BY Zenon, <1>1, <1>2, <1>3, <1>4, <1>5, <1>6, <1>7, <1>8 DEF Next

=============================================================================
