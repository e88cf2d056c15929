--------------------------- MODULE ActuatorRecords ---------------------------
(***************************************************************************)
(* Core's own reading of the actuator's signed journal                      *)
(* (core/agmind_immune/actions/actuator_records.py): what                   *)
(* ActuatorRecordProjection demands of every record, the four dictionaries  *)
(* it keeps, and the transaction that undoes a partly verified extension.   *)
(* It is written against the same records as the Go replay of               *)
(* ActionJournal and shares no code with it.                                *)
(*                                                                          *)
(* A dictionary maps every intent to a tuple, empty where the key is        *)
(* absent.  The digest that chains the records is their position, and the   *)
(* plan of an intent carries the name of the intent.                        *)
(***************************************************************************)
EXTENDS Integers, Sequences

CONSTANTS Intents, Digests

Mappings == {"reservations", "prepared", "outcomes", "attempts"}

NoTransaction == [active |-> FALSE, previous |-> 0, actions |-> 0, changes |-> <<>>]

EmptyProjection ==
    [maps |-> [m \in Mappings |-> [i \in Intents |-> <<>>]],
     previous |-> 0, actions |-> 0, transaction |-> NoTransaction]

Has(p, mapping, i) == p.maps[mapping][i] # <<>>

-----------------------------------------------------------------------------
(* The transaction.                                                         *)

BeginExtension(p) ==
    [p EXCEPT !.transaction = [active |-> TRUE, previous |-> p.previous,
                               actions |-> p.actions, changes |-> <<>>]]

CommitExtension(p) == [p EXCEPT !.transaction = NoTransaction]

\* Every key's first change puts the value before it on the undo log.
Logged(p, mapping, i) ==
    \E k \in DOMAIN p.transaction.changes :
        p.transaction.changes[k].mapping = mapping /\ p.transaction.changes[k].key = i

\* Mutation: an intent that one dictionary has logged is taken as logged by all.
LoggedByKey(p, mapping, i) ==
    \E k \in DOMAIN p.transaction.changes : p.transaction.changes[k].key = i

SetStateLoggedByKey(p, mapping, i, value) ==
    LET old == p.transaction
        fresh == old.active /\ ~LoggedByKey(p, mapping, i)
        undo == [mapping |-> mapping, key |-> i, prior |-> p.maps[mapping][i]]
    IN  [maps |-> [p.maps EXCEPT ![mapping] = [p.maps[mapping] EXCEPT ![i] = value]],
         previous |-> p.previous, actions |-> p.actions,
         transaction |-> [active |-> old.active, previous |-> old.previous, actions |-> old.actions,
                          changes |-> IF fresh THEN Append(old.changes, undo) ELSE old.changes]]

SetState(p, mapping, i, value) ==
    LET old == p.transaction
        fresh == old.active /\ ~Logged(p, mapping, i)
        undo == [mapping |-> mapping, key |-> i, prior |-> p.maps[mapping][i]]
    IN  [maps |-> [p.maps EXCEPT ![mapping] = [p.maps[mapping] EXCEPT ![i] = value]],
         previous |-> p.previous, actions |-> p.actions,
         transaction |-> [active |-> old.active, previous |-> old.previous, actions |-> old.actions,
                          changes |-> IF fresh THEN Append(old.changes, undo) ELSE old.changes]]

\* The changes are undone from the last to the first.
RollbackExtension(p) ==
    LET changes == p.transaction.changes
        undone[k \in 0..Len(changes)] ==
            IF k = Len(changes) THEN p.maps
            ELSE [undone[k + 1] EXCEPT ![changes[k + 1].mapping][changes[k + 1].key] = changes[k + 1].prior]
    IN  [maps |-> undone[0], previous |-> p.transaction.previous,
         actions |-> p.transaction.actions, transaction |-> NoTransaction]

-----------------------------------------------------------------------------
(* The records: what each append demands, and what it sets.                 *)

ReservationValid(p, r) ==
    /\ ~Has(p, "prepared", r.intent)
    /\ Has(p, "reservations", r.intent) => p.maps["reservations"][r.intent][1] = r.sha

AttemptValid(p, r) ==
    /\ Has(p, "prepared", r.intent)
    /\ p.maps["outcomes"][r.intent] = <<"APPROVED">>
    /\ ~Has(p, "attempts", r.intent)

\* The reservation is the record just before PREPARED, for the same digest.
PreparedValid(p, r) ==
    /\ p.maps["reservations"][r.intent] = <<r.sha, p.previous>>
    /\ ~Has(p, "prepared", r.intent)

DecisionValid(p, r) == Has(p, "prepared", r.intent)

\* Mutation: an approved plan whose preflight fails cannot be rejected.
LifecycleValidNoPreflight(p, r) ==
    LET prior == p.maps["outcomes"][r.intent]
        attempted == Has(p, "attempts", r.intent)
    IN  /\ Has(p, "prepared", r.intent)
        /\ \/ prior = <<"APPROVED">> /\ ~attempted /\ r.state = "STALE_ABORT"
           \/ prior = <<"APPROVED">> /\ attempted
                 /\ r.state \in {"APPLIED", "REJECTED", "FAILED_DIRTY"}
           \/ prior = <<"APPLIED">> /\ attempted
                 /\ r.state \in {"VERIFIED", "EXPIRED", "FAILED_DIRTY"}
           \/ prior = <<"VERIFIED">> /\ attempted /\ r.state \in {"EXPIRED", "FAILED_DIRTY"}

LifecycleValid(p, r) ==
    LET prior == p.maps["outcomes"][r.intent]
        attempted == Has(p, "attempts", r.intent)
    IN  /\ Has(p, "prepared", r.intent)
        /\ \/ prior = <<"APPROVED">> /\ ~attempted /\ r.state \in {"STALE_ABORT", "REJECTED"}
           \/ prior = <<"APPROVED">> /\ attempted
                 /\ r.state \in {"APPLIED", "REJECTED", "FAILED_DIRTY"}
           \/ prior = <<"APPLIED">> /\ attempted
                 /\ r.state \in {"VERIFIED", "EXPIRED", "FAILED_DIRTY"}
           \/ prior = <<"VERIFIED">> /\ attempted /\ r.state \in {"EXPIRED", "FAILED_DIRTY"}

\* A decision state is a decision only for a plan that has no outcome yet.
ActionValid(p, r) ==
    \/ r.state = "PREPARED" /\ PreparedValid(p, r)
    \/ /\ r.state \in {"APPROVED", "REJECTED", "EXPIRED_UNAPPLIED"}
       /\ IF Has(p, "outcomes", r.intent) THEN LifecycleValid(p, r) ELSE DecisionValid(p, r)
    \/ /\ r.state \in {"APPLIED", "VERIFIED", "EXPIRED", "STALE_ABORT", "FAILED_DIRTY"}
       /\ LifecycleValid(p, r)

RecordValid(p, r) ==
    \/ r.type = "reserve" /\ ReservationValid(p, r)
    \/ r.type = "attempt" /\ AttemptValid(p, r)
    \/ r.type = "action" /\ ActionValid(p, r)

\* append: one verified record, which becomes the one the next must name.
AppendRecord(p, r) ==
    LET next == p.previous + 1
        set == CASE r.type = "reserve" -> SetState(p, "reservations", r.intent, <<r.sha, next>>)
                 [] r.type = "attempt" -> SetState(p, "attempts", r.intent, <<next>>)
                 [] r.type = "action" /\ r.state = "PREPARED" ->
                        SetState(p, "prepared", r.intent, <<r.sha, next>>)
                 [] OTHER -> SetState(p, "outcomes", r.intent, <<r.state>>)
    IN  [maps |-> set.maps, previous |-> next,
         actions |-> p.actions + (IF r.type = "action" THEN 1 ELSE 0), transaction |-> set.transaction]

Extend(acc, r) ==
    IF acc.ok /\ RecordValid(acc.p, r) THEN [ok |-> TRUE, p |-> AppendRecord(acc.p, r)]
    ELSE [ok |-> FALSE, p |-> acc.p]

\* The extension of a projection by records, as far as they verify.  The choice from a
\* singleton binds the projection to its value before the next record is looked at.
Verified(p, records) ==
    LET read[k \in 0..Len(records)] ==
            IF k = 0 THEN [ok |-> TRUE, p |-> p]
            ELSE CHOOSE next \in {Extend(acc, records[k]) : acc \in {read[k - 1]}} : TRUE
    IN  read[Len(records)]

\* intents(): the state Core reports for an intent.
IntentState(p, i) ==
    IF ~Has(p, "reservations", i) THEN "none"
    ELSE IF ~Has(p, "prepared", i) THEN "RESERVED"
    ELSE IF ~Has(p, "outcomes", i) THEN "PREPARED"
    ELSE p.maps["outcomes"][i][1]
=============================================================================
