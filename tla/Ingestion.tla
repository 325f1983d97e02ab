----------------------------- MODULE Ingestion ------------------------------
(***************************************************************************)
(* Transaction ingestion: POST /transactions with an Idempotency-Key.      *)
(*                                                                         *)
(* A request runs in one PostgreSQL transaction (READ COMMITTED) whose     *)
(* statements interleave with those of other requests: it takes the        *)
(* advisory lock of its key, looks the key up, and replays, refuses or     *)
(* inserts.  What it inserts is invisible until the commit, and gone when  *)
(* a statement fails, the client hangs up or the process ends.  A client   *)
(* that got no useful answer sends the same key again: that is one more    *)
(* request.  Customers are approved and alerts closed meanwhile.           *)
(***************************************************************************)
EXTENDS Naturals, Sequences, FiniteSets

CONSTANTS
  Request,         \* requests; a request is also the id of its transaction
  Key,             \* idempotency keys
  Customer,
  Payload,         \* what a request may ask for
  NoTxn,           \* no transaction is stored under the key
  NoRef,           \* the empty external_ref
  LargeAmount,     \* threshold of the amount rule
  HighRiskCountry  \* countries of the country rule

ASSUME IngestionAssumption ==
  /\ NoTxn \notin Request
  /\ LargeAmount \in Nat
  /\ \A p \in Payload : p.customer \in Customer /\ p.amount \in Nat

VARIABLES
  req,       \* what each request asks for
  pc,        \* the next statement of each request
  made,      \* alerts that the request has inserted but not committed
  answer,    \* what the client of the request was told
  customer,  \* status of each customer
  txn,       \* transactions, by idempotency_key
  alert,     \* alerts of each transaction: their status by rule_code
  audit      \* audit_events

txVars == <<pc, made, answer>>
tables == <<customer, txn, alert, audit>>
vars == <<req, txVars, tables>>

Rule == {"large_transaction", "high_risk_counterparty_country"}

(* The findings of the monitoring engine, in the order of its rules. *)
Evaluate(p) ==
  (IF p.amount >= LargeAmount THEN <<"large_transaction">> ELSE <<>>)
    \o (IF p.country \in HighRiskCountry THEN <<"high_risk_counterparty_country">> ELSE <<>>)

(* ORDER BY rule_code *)
InRuleOrder(rules) ==
  (IF "high_risk_counterparty_country" \in rules THEN <<"high_risk_counterparty_country">> ELSE <<>>)
    \o (IF "large_transaction" \in rules THEN <<"large_transaction">> ELSE <<>>)

Event(type, aggregate) == [type |-> type, of |-> aggregate]

NoAnswer == [kind |-> "none", txn |-> NoTxn, alerts |-> <<>>]
Problem(kind) == [kind |-> kind, txn |-> NoTxn, alerts |-> <<>>]

(* Mutant of InTransaction: a lock of the session, kept after the request. *)
InTransactionForEver == {"lookup", "replay", "insert", "inspect", "write", "done"}

(* The steps of a request that holds the advisory lock of its key. *)
InTransaction == {"lookup", "replay", "insert", "inspect", "write"}

Key_(i) == req[i].key
Ref(i) == req[i].payload.ref
CustomerOf(i) == req[i].payload.customer
Findings(i) == Evaluate(req[i].payload)

AnswerKinds ==
  {"none", "created", "replayed", "idempotency_conflict", "customer_not_found",
   "customer_not_active", "unique_violation", "internal_error"}

TypeOK ==
  /\ req \in [Request -> [key : Key, payload : Payload]]
  /\ pc \in [Request -> {"idle", "lock", "done"} \union InTransaction]
  /\ made \in [Request -> 0..2]
  /\ \A i \in Request :
       /\ DOMAIN answer[i] = {"kind", "txn", "alerts"}
       /\ answer[i].kind \in AnswerKinds
       /\ answer[i].txn \in Request \union {NoTxn}
  /\ customer \in [Customer -> {"absent", "pending_approval", "active", "rejected"}]
  /\ txn \in [Key -> Request \union {NoTxn}]
  /\ alert \in [Request -> [Rule -> {"none", "open", "closed"}]]

Init ==
  /\ req \in [Request -> [key : Key, payload : Payload]]
  /\ pc = [i \in Request |-> "idle"]
  /\ made = [i \in Request |-> 0]
  /\ answer = [i \in Request |-> NoAnswer]
  /\ customer \in [Customer -> {"absent", "pending_approval"}]
  /\ txn = [k \in Key |-> NoTxn]
  /\ alert = [i \in Request |-> [r \in Rule |-> "none"]]
  /\ audit = {}

-----------------------------------------------------------------------------
GoTo(i, step) ==
  /\ pc' = [pc EXCEPT ![i] = step]
  /\ UNCHANGED <<req, made, answer, tables>>

(* The request ends: its locks are released, and what it inserted is gone  *)
(* unless the step commits it.                                             *)
End(i, result) ==
  /\ pc' = [pc EXCEPT ![i] = "done"]
  /\ made' = [made EXCEPT ![i] = 0]
  /\ answer' = [answer EXCEPT ![i] = result]
  /\ UNCHANGED req

Rollback(i, result) == End(i, result) /\ UNCHANGED tables

(* Ingest has validated the command, drawn the ids and evaluated the rules. *)
Ingest(i) == pc[i] = "idle" /\ GoTo(i, "lock")

(* Mutant of Lock: no lock. *)
LockWithoutWaiting(i) == pc[i] = "lock" /\ GoTo(i, "lookup")

(* pg_advisory_xact_lock *)
Lock(i) ==
  /\ pc[i] = "lock"
  /\ \A j \in Request : pc[j] \in InTransaction => Key_(j) # Key_(i)
  /\ GoTo(i, "lookup")

(* Mutant of SameIngestionPayload: fewer fields are compared. *)
SameReference(i, j) == Ref(i) = Ref(j)

(* SELECT ... WHERE idempotency_key *)
SameIngestionPayload(i, j) == req[i].payload = req[j].payload

FindNothing(i) ==
  /\ pc[i] = "lookup"
  /\ txn[Key_(i)] = NoTxn
  /\ GoTo(i, "insert")

FindSame(i) ==
  /\ pc[i] = "lookup"
  /\ txn[Key_(i)] # NoTxn
  /\ SameIngestionPayload(txn[Key_(i)], i)
  /\ GoTo(i, "replay")

FindOther(i) ==
  /\ pc[i] = "lookup"
  /\ txn[Key_(i)] # NoTxn
  /\ ~SameIngestionPayload(txn[Key_(i)], i)
  /\ Rollback(i, Problem("idempotency_conflict"))

(* The alerts as they are now, in the order of listAlertsForTransaction. *)
StoredAlerts(t) ==
  LET rules == InRuleOrder({r \in Rule : alert[t][r] # "none"})
  IN  [n \in 1..Len(rules) |-> [rule |-> rules[n], status |-> alert[t][rules[n]]]]

Replay(i) ==
  /\ pc[i] = "replay"
  /\ End(i, [kind |-> "replayed", txn |-> txn[Key_(i)],
             alerts |-> StoredAlerts(txn[Key_(i)])])
  /\ UNCHANGED tables

(* INSERT ... SELECT ... FROM customers WHERE status = 'active'.  Rows that *)
(* collide in a unique index: committed ones are refused, rows of a running *)
(* transaction waited for.                                                  *)
Collide(i, j) ==
  /\ i # j
  /\ Key_(i) = Key_(j) \/ (Ref(i) # NoRef /\ Ref(i) = Ref(j))

Stored(i) == txn[Key_(i)] = i

Insert(i) ==
  /\ pc[i] = "insert"
  /\ customer[CustomerOf(i)] = "active"
  /\ \A j \in Request : Collide(i, j) => ~Stored(j) /\ pc[j] # "write"
  /\ GoTo(i, "write")

UniqueViolation(i) ==
  /\ pc[i] = "insert"
  /\ customer[CustomerOf(i)] = "active"
  /\ \E j \in Request : Collide(i, j) /\ Stored(j)
  /\ Rollback(i, Problem("unique_violation"))

InsertNothing(i) ==
  /\ pc[i] = "insert"
  /\ customer[CustomerOf(i)] # "active"
  /\ GoTo(i, "inspect")

(* Why no row was inserted: a statement, and a snapshot, of its own. *)
Inspect(i) ==
  /\ pc[i] = "inspect"
  /\ Rollback(i, Problem(IF customer[CustomerOf(i)] = "absent"
                           THEN "customer_not_found" ELSE "customer_not_active"))

(* Mutant of InsertAlert: one round too many. *)
InsertAlertOnceMore(i) ==
  /\ pc[i] = "write"
  /\ made[i] <= Len(Findings(i))
  /\ made' = [made EXCEPT ![i] = @ + 1]
  /\ UNCHANGED <<req, pc, answer, tables>>

(* The loop over the alerts: one row and one audit event each. *)
InsertAlert(i) ==
  /\ pc[i] = "write"
  /\ made[i] < Len(Findings(i))
  /\ made' = [made EXCEPT ![i] = @ + 1]
  /\ UNCHANGED <<req, pc, answer, tables>>

(* What the request has inserted becomes visible. *)
Apply(i) ==
  LET rules == {Findings(i)[n] : n \in 1..made[i]} IN
  /\ txn' = [txn EXCEPT ![Key_(i)] = i]
  /\ alert' = [alert EXCEPT ![i] = [r \in Rule |-> IF r \in rules THEN "open" ELSE @[r]]]
  /\ audit' = audit \union {Event("transaction.ingested", <<i>>)}
                    \union {Event("alert.created", <<i, r>>) : r \in rules}
  /\ UNCHANGED customer

(* Mutant of Commit: the transaction commits before its alerts are written. *)
CommitEarly(i) ==
  /\ pc[i] = "write"
  /\ Apply(i)
  /\ End(i, [kind |-> "created", txn |-> i, alerts |-> <<>>])

Commit(i) ==
  /\ pc[i] = "write"
  /\ made[i] = Len(Findings(i))
  /\ Apply(i)
  /\ End(i, [kind |-> "created", txn |-> i,
             alerts |-> [n \in 1..made[i] |-> [rule |-> Findings(i)[n], status |-> "open"]]])

(* The commit was applied, but nobody heard of it. *)
CommitUnanswered(i) ==
  /\ pc[i] = "write"
  /\ made[i] = Len(Findings(i))
  /\ Apply(i)
  /\ End(i, Problem("internal_error"))

(* A statement fails, the request is cancelled or the process ends. *)
Fail(i) ==
  /\ pc[i] \in {"lock"} \union InTransaction
  /\ Rollback(i, Problem("internal_error"))

-----------------------------------------------------------------------------
(* A reviewer other than the maker decides on a pending customer. *)
ReviewCustomer(c, decision) ==
  /\ customer[c] = "pending_approval"
  /\ customer' = [customer EXCEPT ![c] = decision]
  /\ audit' = audit \union
       {Event(IF decision = "active" THEN "customer.approved" ELSE "customer.rejected", <<c>>)}
  /\ UNCHANGED <<req, txVars, txn, alert>>

CloseAlert(t, r) ==
  /\ alert[t][r] = "open"
  /\ alert' = [alert EXCEPT ![t] = [alert[t] EXCEPT ![r] = "closed"]]
  /\ audit' = audit \union {Event("alert.closed", <<t, r>>)}
  /\ UNCHANGED <<req, txVars, customer, txn>>

Step(i) ==
  \/ Lock(i) \/ FindNothing(i) \/ FindSame(i) \/ FindOther(i) \/ Replay(i)
  \/ Insert(i) \/ UniqueViolation(i) \/ InsertNothing(i) \/ Inspect(i)
  \/ InsertAlert(i) \/ Commit(i)

(* No further request comes and nobody reviews anything. *)
Quiet == (\A i \in Request : pc[i] \in {"idle", "done"}) /\ UNCHANGED vars

Next ==
  \/ \E i \in Request : \/ Ingest(i)
                        \/ Step(i)
                        \/ CommitUnanswered(i)
                        \/ Fail(i)
                        \/ \E r \in Rule : CloseAlert(i, r)
  \/ \E c \in Customer, d \in {"active", "rejected"} : ReviewCustomer(c, d)
  \/ Quiet

Spec == Init /\ [][Next]_vars

-----------------------------------------------------------------------------
(* Concurrent and repeated requests keep the promise made to clients       *)
(* (README.md:285): one transaction per key, never replaced, and answers   *)
(* that are true of it.                                                    *)
Told(i) ==
  CASE answer[i].kind = "none" -> "nothing"
    [] answer[i].kind = "created" -> "created"
    [] answer[i].kind = "replayed" -> "replayed"
    [] answer[i].kind = "idempotency_conflict" -> "conflict"
    [] answer[i].kind = "internal_error" -> "error"
    [] OTHER -> "refused"

Ledger == INSTANCE IdempotentLedger
            WITH asked <- req, entry <- txn, told <- [i \in Request |-> Told(i)]
LedgerSpec == Ledger!Spec

(* The records are complete and nothing else is recorded: every stored     *)
(* transaction has the alerts its rules ask for and one audit event for    *)
(* itself and for each alert; a request that was refused, replayed or      *)
(* rolled back half way has left no alert and no event.                    *)
RecordsOf(i) ==
  /\ \A r \in Rule :
       /\ alert[i][r] # "none" <=>
            Stored(i) /\ \E n \in 1..Len(Findings(i)) : Findings(i)[n] = r
       /\ alert[i][r] # "none" <=> Event("alert.created", <<i, r>>) \in audit
       /\ alert[i][r] = "closed" <=> Event("alert.closed", <<i, r>>) \in audit
  /\ Stored(i) <=> Event("transaction.ingested", <<i>>) \in audit

RecordsComplete == \A i \in Request : RecordsOf(i)

(* "PostgreSQL advisory locks serialize concurrent requests for the same   *)
(* key" (README.md:285): two racing requests with one key are never told   *)
(* of a uniqueness violation of that key; only an external_ref that is in  *)
(* use under another key does that.                                        *)
KeyRaceNeverFails ==
  \A i \in Request : answer[i].kind = "unique_violation" =>
    /\ Ref(i) # NoRef
    /\ \E k \in Key \ {Key_(i)} : txn[k] # NoTxn /\ Ref(txn[k]) = Ref(i)

(* What a client was told stays true: a created transaction is the one     *)
(* stored under its key for good, a replay shows the stored transaction of *)
(* the same payload, a conflict one of another payload.  Created or        *)
(* replayed, and whatever failed before: the answer lists the alerts that  *)
(* the monitoring rules ask for, each once and none closed that is open.   *)
AnswerIsTrue(i) ==
  LET stored == txn[Key_(i)]
      alerts == answer[i].alerts
      Says(kinds) == answer[i].kind \in kinds
  IN
  /\ Says({"created"}) => stored = i
  /\ Says({"replayed"}) => stored # NoTxn /\ SameIngestionPayload(stored, i)
  /\ Says({"idempotency_conflict"}) => stored # NoTxn /\ ~SameIngestionPayload(stored, i)
  /\ Says({"created", "replayed"}) =>
       /\ answer[i].txn = stored
       /\ Len(alerts) = Len(Findings(i))
       /\ {alerts[n].rule : n \in 1..Len(alerts)} = {Findings(i)[n] : n \in 1..Len(Findings(i))}
       /\ \A n \in 1..Len(alerts) :
            alerts[n].status = "closed" => alert[stored][alerts[n].rule] = "closed"

AnswersTrue ==
  /\ KeyRaceNeverFails
  /\ \A i \in Request : AnswerIsTrue(i)

(* The advisory locks and the waits in the unique indexes never form a     *)
(* cycle: while a request is open, one of them waits for nobody.  A        *)
(* request that waits for nobody can go on, and that without failing; it   *)
(* has finitely many statements, so all requests are answered as long as   *)
(* PostgreSQL executes what can be executed.                               *)
Open(i) == pc[i] \in {"lock"} \union InTransaction

WaitsForLock(i) ==
  /\ pc[i] = "lock"
  /\ \E j \in Request : pc[j] \in InTransaction /\ Key_(j) = Key_(i)

WaitsInIndex(i) ==
  /\ pc[i] = "insert"
  /\ customer[CustomerOf(i)] = "active"
  /\ \E j \in Request : Collide(i, j) /\ pc[j] = "write"
  /\ \A j \in Request : Collide(i, j) => ~Stored(j)

NoCircularWait ==
  (\E i \in Request : Open(i)) =>
    \E i \in Request : Open(i) /\ ~WaitsForLock(i) /\ ~WaitsInIndex(i)

NeverStuck ==
  /\ NoCircularWait
  /\ \A i \in Request : Open(i) =>
       (ENABLED Step(i) <=> ~WaitsForLock(i) /\ ~WaitsInIndex(i))

(* "Retrying the same request with the same Idempotency-Key returns the    *)
(* original response" (README.md:285), alerts included.                    *)
ReplayReturnsOriginal ==
  \A i, j \in Request :
    /\ answer[i].kind = "created"
    /\ answer[j].kind = "replayed"
    /\ answer[j].txn = i
    => answer[j].alerts = answer[i].alerts

-----------------------------------------------------------------------------
(* The variables that the promise to clients is about. *)
LedgerTypes ==
  /\ req \in [Request -> [key : Key, payload : Payload]]
  /\ pc \in [Request -> {"idle", "lock", "done"} \union InTransaction]
  /\ made \in [Request -> Nat]
  /\ DOMAIN answer = Request
  /\ txn \in [Key -> Request \union {NoTxn}]
  /\ alert \in [Request -> [Rule -> {"none", "open", "closed"}]]
  /\ DOMAIN customer = Customer

(* A request is answered when it ends. *)
OpenIsUnanswered ==
  \A i \in Request : pc[i] # "done" => answer[i].kind = "none"

(* Transactions are found under their own keys. *)
StoredUnderItsKey ==
  \A k \in Key : txn[k] # NoTxn => Key_(txn[k]) = k

(* The advisory lock of a key has one holder. *)
OneLockHolder ==
  \A i, j \in Request :
    i # j /\ pc[i] \in InTransaction /\ pc[j] \in InTransaction => Key_(i) # Key_(j)

(* What the lookup found stays true, since the lock is held to the end. *)
LookupStaysTrue ==
  \A i \in Request :
    /\ pc[i] \in {"insert", "inspect", "write"} => txn[Key_(i)] = NoTxn
    /\ pc[i] = "replay" => txn[Key_(i)] # NoTxn /\ SameIngestionPayload(txn[Key_(i)], i)

(* An inserted row keeps others out of the unique indexes. *)
IndexReserved ==
  \A i, j \in Request :
    pc[i] = "write" /\ Collide(i, j) => ~Stored(j) /\ pc[j] # "write"

(* The inductive invariant. *)
IngestionInv ==
  /\ LedgerTypes
  /\ OpenIsUnanswered
  /\ StoredUnderItsKey
  /\ OneLockHolder
  /\ LookupStaysTrue
  /\ IndexReserved
  /\ KeyRaceNeverFails
  /\ RecordsComplete
=============================================================================
