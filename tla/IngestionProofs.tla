-------------------------- MODULE IngestionProofs ---------------------------
(***************************************************************************)
(* POST /transactions keeps its promise and its records for any number of  *)
(* requests, keys, customers and payloads.                                 *)
(***************************************************************************)
EXTENDS Ingestion, TLAPS

(* Properties that only read the request, its answer and the tables. *)
LEMMA TablesUnchanged ==
  ASSUME IngestionInv, UNCHANGED <<req, tables>>
  PROVE  /\ StoredUnderItsKey'
         /\ RecordsComplete'
<1>1. StoredUnderItsKey'
  BY DEF IngestionInv, StoredUnderItsKey, Key_, tables
<1>2. RecordsComplete'
  <2> SUFFICES ASSUME NEW i \in Request PROVE RecordsOf(i)'
    BY DEF RecordsComplete
  <2>1. Findings(i)' = Findings(i) /\ (Stored(i)' <=> Stored(i))
    BY DEF Findings, Stored, Key_, tables
  <2>2. RecordsOf(i)
    BY DEF IngestionInv, RecordsComplete
  <2> QED
    BY <2>1, <2>2 DEF RecordsOf, tables
<1> QED
  BY <1>1, <1>2

(* No request is open and no row is stored at the start. *)
LEMMA InitHolds == Init => IngestionInv
<1> SUFFICES ASSUME Init PROVE IngestionInv
  OBVIOUS
<1> USE DEF Init
<1>1. LedgerTypes
  BY DEF LedgerTypes
<1>2. OpenIsUnanswered /\ KeyRaceNeverFails
  BY DEF OpenIsUnanswered, KeyRaceNeverFails, NoAnswer
<1>3. StoredUnderItsKey
  BY DEF StoredUnderItsKey
<1>4. OneLockHolder /\ LookupStaysTrue /\ IndexReserved
  BY DEF OneLockHolder, LookupStaysTrue, IndexReserved, InTransaction
<1>5. RecordsComplete
  <2>1. \A i \in Request : ~Stored(i)
    BY IngestionAssumption DEF Stored, Key_
  <2> QED
    BY <2>1 DEF RecordsComplete, RecordsOf
<1> QED
  BY <1>1, <1>2, <1>3, <1>4, <1>5 DEF IngestionInv

(* A statement that has locked, read or inserted, and moves on. *)
LEMMA GoToStep ==
  ASSUME IngestionInv, NEW i \in Request, NEW step \in {"lock"} \union InTransaction,
         pc[i] # "done", GoTo(i, step),
         step \in InTransaction =>
           \A j \in Request \ {i} : pc[j] \in InTransaction => Key_(j) # Key_(i),
         step \in {"insert", "inspect", "write"} => txn[Key_(i)] = NoTxn,
         step = "replay" => txn[Key_(i)] # NoTxn /\ SameIngestionPayload(txn[Key_(i)], i),
         step = "write" => \A j \in Request : Collide(i, j) => ~Stored(j) /\ pc[j] # "write"
  PROVE  IngestionInv'
<1> USE DEF IngestionInv, GoTo
<1>0. /\ UNCHANGED <<req, made, answer, txn, alert, audit, customer>>
      /\ pc'[i] = step
      /\ \A j \in Request \ {i} : pc'[j] = pc[j]
      /\ UNCHANGED <<req, tables>>
  BY DEF tables, LedgerTypes
<1>1. LedgerTypes'
  BY DEF LedgerTypes, tables
<1>2. OpenIsUnanswered'
  BY <1>0 DEF OpenIsUnanswered
<1>3. KeyRaceNeverFails'
  BY <1>0 DEF KeyRaceNeverFails, Ref, Key_
<1>4. OneLockHolder'
  BY <1>0 DEF OneLockHolder, Key_
<1>5. LookupStaysTrue'
  BY <1>0 DEF LookupStaysTrue, Key_, SameIngestionPayload, InTransaction
<1>6. IndexReserved'
  <2>1. \A j, k \in Request : (Collide(j, k)' <=> Collide(j, k)) /\ (Collide(j, k) => Collide(k, j))
    BY <1>0 DEF Collide, Key_, Ref
  <2>2. \A j \in Request : Stored(j)' <=> Stored(j)
    BY <1>0 DEF Stored, Key_
  <2>3. \A j, k \in Request : Collide(j, k) => j # k
    BY DEF Collide
  <2>4. step = "write" => ~Stored(i)
    BY IngestionAssumption DEF Stored
  <2>5. \A j \in Request : pc'[j] = "write" /\ j # i => pc[j] = "write"
    BY <1>0
  <2>6. ASSUME NEW j \in Request, NEW k \in Request, pc'[j] = "write", Collide(j, k)
        PROVE  ~Stored(k) /\ pc'[k] # "write"
    <3>1. CASE j = i
      BY <1>0, <2>3, <2>6, <3>1
    <3>2. CASE j # i
      <4>1. pc[j] = "write" /\ ~Stored(k) /\ pc[k] # "write"
        BY <2>5, <2>6, <3>2 DEF IndexReserved
      <4>2. k = i => step # "write"
        BY <2>1, <2>6, <4>1
      <4> QED
        BY <1>0, <4>1, <4>2
    <3> QED
      BY <3>1, <3>2
  <2> QED
    BY <2>1, <2>2, <2>6 DEF IndexReserved
<1> QED
  BY <1>0, <1>1, <1>2, <1>3, <1>4, <1>5, <1>6, TablesUnchanged

(* A request that ends and leaves nothing behind. *)
LEMMA RollbackStep ==
  ASSUME IngestionInv, NEW i \in Request, NEW result,
         Rollback(i, result),
         result.kind = "unique_violation" =>
           /\ Ref(i) # NoRef
           /\ \E k \in Key \ {Key_(i)} : txn[k] # NoTxn /\ Ref(txn[k]) = Ref(i)
  PROVE  IngestionInv'
<1> USE DEF IngestionInv, Rollback, End
<1>0. /\ UNCHANGED <<req, txn, alert, audit, customer>>
      /\ pc'[i] = "done" /\ answer'[i] = result
      /\ \A j \in Request \ {i} : pc'[j] = pc[j] /\ answer'[j] = answer[j]
      /\ UNCHANGED <<req, tables>>
  BY DEF tables, LedgerTypes
<1>1. LedgerTypes'
  BY DEF LedgerTypes, tables
<1>2. OpenIsUnanswered'
  BY <1>0 DEF OpenIsUnanswered
<1>3. KeyRaceNeverFails'
  BY <1>0 DEF KeyRaceNeverFails, Ref, Key_
<1>4. OneLockHolder'
  BY <1>0 DEF OneLockHolder, Key_, InTransaction
<1>5. LookupStaysTrue'
  BY <1>0 DEF LookupStaysTrue, Key_, SameIngestionPayload
<1>6. IndexReserved'
  BY <1>0 DEF IndexReserved, Collide, Stored, Key_, Ref
<1> QED
  BY <1>0, <1>1, <1>2, <1>3, <1>4, <1>5, <1>6, TablesUnchanged

(* An alert is inserted; nobody sees it yet. *)
LEMMA InsertAlertStep ==
  ASSUME IngestionInv, NEW i \in Request, InsertAlert(i)
  PROVE  IngestionInv'
<1> USE DEF IngestionInv, InsertAlert
<1>0. /\ UNCHANGED <<req, pc, answer, txn, alert, audit, customer>>
      /\ UNCHANGED <<req, tables>>
  BY DEF tables
<1>1. LedgerTypes'
  BY <1>0 DEF LedgerTypes
<1>2. OpenIsUnanswered' /\ KeyRaceNeverFails'
  BY <1>0 DEF OpenIsUnanswered, KeyRaceNeverFails, Ref, Key_
<1>3. OneLockHolder' /\ LookupStaysTrue'
  BY <1>0 DEF OneLockHolder, LookupStaysTrue, Key_, SameIngestionPayload
<1>4. IndexReserved'
  BY <1>0 DEF IndexReserved, Collide, Stored, Key_, Ref
<1> QED
  BY <1>0, <1>1, <1>2, <1>3, <1>4, TablesUnchanged

(* What a commit adds to the tables. *)
LEMMA CommitWrites ==
  ASSUME IngestionInv, NEW i \in Request, pc[i] = "write", Apply(i), UNCHANGED req,
         made[i] = Len(Findings(i))
  PROVE  /\ Stored(i)'
         /\ \A j \in Request \ {i} : Stored(j)' <=> Stored(j)
         /\ \A j \in Request \ {i} : alert'[j] = alert[j]
         /\ \A r \in Rule : alert'[i][r] = IF \E n \in 1..Len(Findings(i)) : Findings(i)[n] = r
                                             THEN "open" ELSE "none"
         /\ alert' \in [Request -> [Rule -> {"none", "open", "closed"}]]
<1> USE DEF IngestionInv
<1>1. Key_(i) \in Key /\ txn[Key_(i)] = NoTxn /\ ~Stored(i)
  BY IngestionAssumption DEF LedgerTypes, LookupStaysTrue, Key_, Stored
<1>2. txn'[Key_(i)] = i /\ \A k \in Key \ {Key_(i)} : txn'[k] = txn[k]
  BY <1>1 DEF Apply, LedgerTypes
<1>3. \A j \in Request : Key_(j) \in Key /\ Key_(j)' = Key_(j)
  BY DEF LedgerTypes, Key_
<1>4. Stored(i)' /\ \A j \in Request \ {i} : Stored(j)' <=> Stored(j)
  BY <1>1, <1>2, <1>3, IngestionAssumption DEF Stored
<1>5. \A r \in Rule : alert[i][r] = "none"
  BY <1>1 DEF RecordsComplete, RecordsOf
<1>6. alert' = [alert EXCEPT ![i] = [r \in Rule |->
                  IF r \in {Findings(i)[n] : n \in 1..Len(Findings(i))} THEN "open" ELSE alert[i][r]]]
  BY DEF Apply
<1> QED
  BY <1>4, <1>5, <1>6 DEF LedgerTypes

(* A commit under the key's lock keeps the tables and the answers consistent. *)
LEMMA CommitStep ==
  ASSUME IngestionInv, NEW i \in Request, NEW result,
         pc[i] = "write", made[i] = Len(Findings(i)), Apply(i), End(i, result),
         result.kind # "unique_violation"
  PROVE  IngestionInv'
<1> USE DEF IngestionInv, End
<1>0. /\ UNCHANGED req
      /\ pc'[i] = "done" /\ answer'[i] = result
      /\ \A j \in Request \ {i} : pc'[j] = pc[j] /\ answer'[j] = answer[j]
  BY DEF LedgerTypes
<1>w. /\ Stored(i)'
      /\ \A j \in Request \ {i} : Stored(j)' <=> Stored(j)
      /\ \A j \in Request \ {i} : alert'[j] = alert[j]
      /\ \A r \in Rule : alert'[i][r] = IF \E n \in 1..Len(Findings(i)) : Findings(i)[n] = r
                                          THEN "open" ELSE "none"
      /\ alert' \in [Request -> [Rule -> {"none", "open", "closed"}]]
  BY CommitWrites
<1>k. /\ Key_(i) \in Key /\ txn[Key_(i)] = NoTxn
      /\ txn'[Key_(i)] = i
      /\ \A k \in Key \ {Key_(i)} : txn'[k] = txn[k]
      /\ \A j \in Request : Key_(j)' = Key_(j) /\ Ref(j)' = Ref(j)
  BY DEF Apply, LedgerTypes, LookupStaysTrue, Key_, Ref
<1>1. LedgerTypes'
  BY <1>w DEF LedgerTypes, Apply
<1>2. OpenIsUnanswered'
  BY <1>0 DEF OpenIsUnanswered
<1>3. StoredUnderItsKey'
  BY <1>0, <1>k DEF StoredUnderItsKey, Key_
<1>4. KeyRaceNeverFails'
  <2> SUFFICES ASSUME NEW j \in Request, answer'[j].kind = "unique_violation"
               PROVE  /\ Ref(j) # NoRef
                      /\ \E k \in Key \ {Key_(j)} : txn'[k] # NoTxn /\ Ref(txn'[k]) = Ref(j)
    BY <1>0 DEF KeyRaceNeverFails, Key_, Ref
  <2>1. j # i /\ Ref(j) # NoRef
    BY <1>0 DEF KeyRaceNeverFails
  <2>2. PICK k \in Key \ {Key_(j)} : txn[k] # NoTxn /\ Ref(txn[k]) = Ref(j)
    BY <1>0, <2>1 DEF KeyRaceNeverFails
  <2>3. k # Key_(i) /\ txn'[k] = txn[k] /\ txn[k] \in Request
    BY <1>k, <2>2 DEF LedgerTypes
  <2> QED
    BY <1>k, <2>1, <2>2, <2>3
<1>5. OneLockHolder'
  BY <1>0, <1>k DEF OneLockHolder, InTransaction
<1>6. LookupStaysTrue'
  <2> SUFFICES ASSUME NEW j \in Request
               PROVE  /\ pc'[j] \in {"insert", "inspect", "write"} => txn'[Key_(j)] = NoTxn
                      /\ pc'[j] = "replay" => /\ txn'[Key_(j)] # NoTxn
                                              /\ SameIngestionPayload(txn[Key_(j)], j)
                                              /\ txn'[Key_(j)] = txn[Key_(j)]
    BY <1>0, <1>k DEF LookupStaysTrue, SameIngestionPayload
  <2>1. pc'[j] \in InTransaction => j # i /\ pc[j] \in InTransaction /\ Key_(j) # Key_(i)
    BY <1>0 DEF OneLockHolder, InTransaction
  <2>2. pc'[j] \in InTransaction => txn'[Key_(j)] = txn[Key_(j)]
    BY <1>k, <2>1 DEF LedgerTypes, Key_
  <2> QED
    BY <1>0, <2>1, <2>2 DEF LookupStaysTrue, InTransaction
<1>7. IndexReserved'
  <2>1. \A j, k \in Request : (Collide(j, k)' <=> Collide(j, k)) /\ (Collide(j, k) => Collide(k, j))
    BY <1>k DEF Collide
  <2>2. \A j \in Request : Collide(i, j) => pc[j] # "write"
    BY DEF IndexReserved
  <2> QED
    BY <1>0, <1>w, <2>1, <2>2 DEF IndexReserved
<1>8. RecordsComplete'
  <2>2. audit' = audit \union {Event("transaction.ingested", <<i>>)}
                       \union {Event("alert.created", <<i, Findings(i)[n]>>) :
                                 n \in 1..Len(Findings(i))}
    BY DEF Apply
  <2>3. \A j \in Request : Event("transaction.ingested", <<j>>) \in audit'
                             <=> j = i \/ Event("transaction.ingested", <<j>>) \in audit
    BY <2>2 DEF Event
  <2>4. \A j \in Request, r \in Rule :
          /\ Event("alert.closed", <<j, r>>) \in audit' <=> Event("alert.closed", <<j, r>>) \in audit
          /\ Event("alert.created", <<j, r>>) \in audit'
               <=> \/ Event("alert.created", <<j, r>>) \in audit
                   \/ j = i /\ \E n \in 1..Len(Findings(i)) : Findings(i)[n] = r
    BY <2>2 DEF Event
  <2>5. ~Stored(i)
    BY <1>k, IngestionAssumption DEF Stored
  <2>6. \A r \in Rule : /\ Event("alert.created", <<i, r>>) \notin audit
                        /\ Event("alert.closed", <<i, r>>) \notin audit
    BY <2>5 DEF RecordsComplete, RecordsOf
  <2>7. ASSUME NEW j \in Request
        PROVE  /\ \A r \in Rule :
                    /\ alert'[j][r] # "none" <=>
                         Stored(j)' /\ \E n \in 1..Len(Findings(j)) : Findings(j)[n] = r
                    /\ alert'[j][r] # "none" <=> Event("alert.created", <<j, r>>) \in audit'
                    /\ alert'[j][r] = "closed" <=> Event("alert.closed", <<j, r>>) \in audit'
               /\ Stored(j)' <=> Event("transaction.ingested", <<j>>) \in audit'
    <3>1. CASE j = i
      BY <1>w, <2>3, <2>4, <2>6, <3>1
    <3>2. CASE j # i
      BY <1>w, <2>3, <2>4, <3>2 DEF RecordsComplete, RecordsOf
    <3> QED
      BY <3>1, <3>2
  <2> QED
    <3> SUFFICES ASSUME NEW j \in Request PROVE RecordsOf(j)'
      BY DEF RecordsComplete
    <3>1. Findings(j)' = Findings(j)
      BY <1>0 DEF Findings
    <3> QED
      BY <2>7, <3>1 DEF RecordsOf
<1> QED
  BY <1>1, <1>2, <1>3, <1>4, <1>5, <1>6, <1>7, <1>8

(* Requests do not depend on the status of customers and alerts that       *)
(* others change.                                                          *)
LEMMA OthersStep ==
  ASSUME IngestionInv, UNCHANGED <<req, txVars, txn>>, RecordsComplete',
         DOMAIN customer' = Customer,
         alert' \in [Request -> [Rule -> {"none", "open", "closed"}]]
  PROVE  IngestionInv'
<1> USE DEF IngestionInv, txVars
<1>1. LedgerTypes'
  BY DEF LedgerTypes
<1>2. OpenIsUnanswered' /\ KeyRaceNeverFails' /\ StoredUnderItsKey'
  BY DEF OpenIsUnanswered, KeyRaceNeverFails, StoredUnderItsKey, Ref, Key_
<1>3. OneLockHolder' /\ LookupStaysTrue'
  BY DEF OneLockHolder, LookupStaysTrue, Key_, SameIngestionPayload
<1>4. IndexReserved'
  BY DEF IndexReserved, Collide, Stored, Key_, Ref
<1> QED
  BY <1>1, <1>2, <1>3, <1>4

(* A review changes a customer's status only. *)
LEMMA ReviewStep ==
  ASSUME IngestionInv, NEW c \in Customer, NEW d \in {"active", "rejected"}, ReviewCustomer(c, d)
  PROVE  IngestionInv'
<1> USE DEF IngestionInv, ReviewCustomer
<1>1. \A x : Event("transaction.ingested", x) \in audit' <=> Event("transaction.ingested", x) \in audit
  BY DEF Event
<1>2. \A x : /\ Event("alert.created", x) \in audit' <=> Event("alert.created", x) \in audit
             /\ Event("alert.closed", x) \in audit' <=> Event("alert.closed", x) \in audit
  BY DEF Event
<1>3. RecordsComplete'
  <2> SUFFICES ASSUME NEW i \in Request PROVE RecordsOf(i)'
    BY DEF RecordsComplete
  <2>1. Findings(i)' = Findings(i) /\ (Stored(i)' <=> Stored(i))
    BY DEF Findings, Stored, Key_
  <2>2. RecordsOf(i)
    BY DEF RecordsComplete
  <2> QED
    BY <1>1, <1>2, <2>1, <2>2 DEF RecordsOf
<1> QED
  BY <1>3, OthersStep DEF LedgerTypes

(* Closing an alert changes its status only. *)
LEMMA CloseStep ==
  ASSUME IngestionInv, NEW t \in Request, NEW r \in Rule, CloseAlert(t, r)
  PROVE  IngestionInv'
<1> USE DEF IngestionInv, CloseAlert
<1>1. \A x : /\ Event("transaction.ingested", x) \in audit' <=> Event("transaction.ingested", x) \in audit
             /\ Event("alert.created", x) \in audit' <=> Event("alert.created", x) \in audit
  BY DEF Event
<1>2. \A i, s : Event("alert.closed", <<i, s>>) \in audit'
                  <=> (i = t /\ s = r) \/ Event("alert.closed", <<i, s>>) \in audit
  BY DEF Event
<1>3. /\ alert' \in [Request -> [Rule -> {"none", "open", "closed"}]]
      /\ \A i \in Request, s \in Rule :
           alert'[i][s] = IF i = t /\ s = r THEN "closed" ELSE alert[i][s]
  BY DEF LedgerTypes
<1>4. RecordsComplete'
  <2> SUFFICES ASSUME NEW i \in Request PROVE RecordsOf(i)'
    BY DEF RecordsComplete
  <2>1. Findings(i)' = Findings(i) /\ (Stored(i)' <=> Stored(i))
    BY DEF Findings, Stored, Key_
  <2>2. RecordsOf(i)
    BY DEF RecordsComplete
  <2> QED
    BY <1>1, <1>2, <1>3, <2>1, <2>2 DEF RecordsOf
<1> QED
  BY <1>3, <1>4, OthersStep DEF LedgerTypes

(* Every step keeps the invariant. *)
LEMMA NextPreserves == IngestionInv /\ [Next]_vars => IngestionInv'
<1> SUFFICES ASSUME IngestionInv, [Next]_vars PROVE IngestionInv'
  OBVIOUS
<1> USE DEF IngestionInv
<1>held. ASSUME NEW i \in Request, pc[i] \in InTransaction
         PROVE  \A j \in Request \ {i} : pc[j] \in InTransaction => Key_(j) # Key_(i)
  BY <1>held DEF OneLockHolder
<1>1. ASSUME NEW i \in Request, Ingest(i) PROVE IngestionInv'
  BY <1>1, GoToStep DEF Ingest, InTransaction
<1>2. ASSUME NEW i \in Request, Lock(i) PROVE IngestionInv'
  BY <1>2, GoToStep DEF Lock, InTransaction
<1>3. ASSUME NEW i \in Request, FindNothing(i) PROVE IngestionInv'
  BY <1>3, <1>held, GoToStep DEF FindNothing, InTransaction
<1>4. ASSUME NEW i \in Request, FindSame(i) PROVE IngestionInv'
  BY <1>4, <1>held, GoToStep DEF FindSame, InTransaction
<1>5. ASSUME NEW i \in Request, FindOther(i) PROVE IngestionInv'
  BY <1>5, RollbackStep DEF FindOther, Problem
<1>6. ASSUME NEW i \in Request, Replay(i) PROVE IngestionInv'
  BY <1>6, RollbackStep DEF Replay, Rollback
<1>7. ASSUME NEW i \in Request, Insert(i) PROVE IngestionInv'
  <2>1. txn[Key_(i)] = NoTxn
    BY <1>7 DEF Insert, LookupStaysTrue
  <2> QED
    BY <1>7, <1>held, <2>1, GoToStep DEF Insert, InTransaction
<1>8. ASSUME NEW i \in Request, UniqueViolation(i) PROVE IngestionInv'
  <2>1. txn[Key_(i)] = NoTxn
    BY <1>8 DEF UniqueViolation, LookupStaysTrue
  <2>2. PICK j \in Request : Collide(i, j) /\ Stored(j)
    BY <1>8 DEF UniqueViolation
  <2>3. Key_(j) \in Key \ {Key_(i)} /\ txn[Key_(j)] = j /\ j # NoTxn
    BY <2>1, <2>2, IngestionAssumption DEF Stored, LedgerTypes, Key_
  <2>4. Ref(i) # NoRef /\ Ref(j) = Ref(i)
    BY <2>2, <2>3 DEF Collide
  <2> QED
    BY <1>8, <2>3, <2>4, RollbackStep DEF UniqueViolation, Problem
<1>9. ASSUME NEW i \in Request, InsertNothing(i) PROVE IngestionInv'
  <2>1. txn[Key_(i)] = NoTxn
    BY <1>9 DEF InsertNothing, LookupStaysTrue
  <2> QED
    BY <1>9, <1>held, <2>1, GoToStep DEF InsertNothing, InTransaction
<1>10. ASSUME NEW i \in Request, Inspect(i) PROVE IngestionInv'
  BY <1>10, RollbackStep DEF Inspect, Problem
<1>11. ASSUME NEW i \in Request, InsertAlert(i) PROVE IngestionInv'
  BY <1>11, InsertAlertStep
<1>12. ASSUME NEW i \in Request, Commit(i) PROVE IngestionInv'
  BY <1>12, CommitStep DEF Commit
<1>13. ASSUME NEW i \in Request, CommitUnanswered(i) PROVE IngestionInv'
  BY <1>13, CommitStep DEF CommitUnanswered, Problem
<1>14. ASSUME NEW i \in Request, Fail(i) PROVE IngestionInv'
  BY <1>14, RollbackStep DEF Fail, Problem
<1>15. CASE UNCHANGED vars
  <2>1. UNCHANGED <<req, tables>> /\ UNCHANGED <<req, txVars, txn>>
        /\ UNCHANGED alert /\ UNCHANGED customer
    BY <1>15 DEF vars, tables
  <2>2. RecordsComplete'
    BY <2>1, TablesUnchanged
  <2> QED
    BY <2>1, <2>2, OthersStep DEF LedgerTypes
<1> QED
  BY <1>1, <1>2, <1>3, <1>4, <1>5, <1>6, <1>7, <1>8, <1>9, <1>10, <1>11, <1>12, <1>13, <1>14,
     <1>15, ReviewStep, CloseStep DEF Next, Step, Quiet

(* The inductive invariant holds: the advisory lock protects what the      *)
(* lookup found, and the unique indexes are reserved until the commit.     *)
THEOREM IngestionSafety == Spec => []IngestionInv
<1>1. IngestionInv /\ [Next]_vars => IngestionInv'
  BY NextPreserves
<1> QED
  BY InitHolds, <1>1, PTL DEF Spec

(* Whatever fails half way, is replayed or refused: transactions, alerts   *)
(* and audit events are complete, and there are no others.                 *)
THEOREM RecordsStayComplete == Spec => []RecordsComplete
<1>1. IngestionInv => RecordsComplete
  BY DEF IngestionInv
<1> QED
  BY IngestionSafety, <1>1, PTL

(* Requests that race with the same key never violate its unique index.    *)
THEOREM KeyRaceIsHandled == Spec => []KeyRaceNeverFails
<1>1. IngestionInv => KeyRaceNeverFails
  BY DEF IngestionInv
<1> QED
  BY IngestionSafety, <1>1, PTL

(* A step that answers request i and stores nothing. *)
LEMMA AnswerStep ==
  ASSUME IngestionInv, NEW i \in Request, pc[i] # "done", NEW result, End(i, result), UNCHANGED txn,
         NEW outcome \in {"replayed", "conflict", "refused", "error"}, Told(i)' = outcome,
         outcome = "replayed" => /\ txn[Key_(i)] # NoTxn
                                 /\ SameIngestionPayload(txn[Key_(i)], i),
         outcome = "conflict" => /\ txn[Key_(i)] # NoTxn
                                 /\ ~SameIngestionPayload(txn[Key_(i)], i)
  PROVE  Ledger!Next
<1> USE DEF IngestionInv
<1>1. UNCHANGED req /\ \A j \in Request \ {i} : Told(j)' = Told(j)
  BY DEF End, LedgerTypes, Told
<1>2. Told(i) = "nothing"
  BY DEF OpenIsUnanswered, Told
<1>3. [j \in Request |-> Told(j)]' = [[j \in Request |-> Told(j)] EXCEPT ![i] = outcome]
  BY <1>1
<1>4. Ledger!Tell(i, outcome)
  BY <1>1, <1>2, <1>3 DEF Ledger!Tell
<1>5. Ledger!Answer(i, outcome)
  BY <1>4 DEF Ledger!Answer, SameIngestionPayload, Key_
<1> QED
  BY <1>5 DEF Ledger!Next

(* A commit stores the transaction of a key and a reference that are free. *)
LEMMA StoreStep ==
  ASSUME IngestionInv, NEW i \in Request, pc[i] = "write", NEW result, Apply(i), End(i, result),
         NEW outcome \in {"created", "error"}, Told(i)' = outcome
  PROVE  Ledger!Next
<1> USE DEF IngestionInv
<1>1. UNCHANGED req /\ \A j \in Request \ {i} : Told(j)' = Told(j)
  BY DEF End, LedgerTypes, Told
<1>2. Told(i) = "nothing"
  BY DEF OpenIsUnanswered, Told
<1>3. [j \in Request |-> Told(j)]' = [[j \in Request |-> Told(j)] EXCEPT ![i] = outcome]
  BY <1>1
<1>4. Ledger!Tell(i, outcome)
  BY <1>1, <1>2, <1>3 DEF Ledger!Tell
<1>5. txn[Key_(i)] = NoTxn
  BY DEF LookupStaysTrue
<1>6. Ledger!RefIsFree(i)
  <2> SUFFICES ASSUME Ref(i) # NoRef, NEW k \in Key, txn[k] # NoTxn
               PROVE  Ref(txn[k]) # Ref(i)
    BY DEF Ledger!RefIsFree, Ref
  <2>1. txn[k] \in Request /\ Key_(txn[k]) = k /\ Stored(txn[k])
    BY DEF LedgerTypes, StoredUnderItsKey, Stored
  <2>2. txn[k] # i
    BY <1>5, <2>1
  <2> QED
    BY <2>1, <2>2 DEF IndexReserved, Collide
<1>7. txn' = [txn EXCEPT ![Key_(i)] = i]
  BY DEF Apply
<1>8. Ledger!Store(i, outcome)
  BY <1>4, <1>5, <1>6, <1>7 DEF Ledger!Store, Key_
<1> QED
  BY <1>8 DEF Ledger!Next

(* The ingestion of transactions implements the idempotent ledger: one     *)
(* transaction per key, never replaced, and every answer true of it.       *)
THEOREM IngestionImplementsLedger == Spec => LedgerSpec
<1>1. Init => Ledger!Init
  BY DEF Init, Ledger!Init, Told, NoAnswer
<1> DEFINE told == [i \in Request |-> Told(i)]
<1>2. IngestionInv /\ [Next]_vars => [Ledger!Next]_<<req, txn, told>>
  <2> SUFFICES ASSUME IngestionInv, [Next]_vars PROVE Ledger!Next \/ UNCHANGED <<req, txn, told>>
    OBVIOUS
  <2>a. ASSUME UNCHANGED <<req, answer, txn>> PROVE UNCHANGED <<req, txn, told>>
    BY <2>a DEF Told
  <2>b. ASSUME NEW i \in Request, NEW r, End(i, r) PROVE answer'[i] = r
    BY <2>b DEF End, IngestionInv, LedgerTypes
  <2>1. ASSUME NEW i \in Request,
               Ingest(i) \/ Lock(i) \/ FindNothing(i) \/ FindSame(i) \/ Insert(i) \/ InsertNothing(i)
        PROVE  UNCHANGED <<req, txn, told>>
    BY <2>1, <2>a DEF Ingest, Lock, FindNothing, FindSame, Insert, InsertNothing, GoTo, tables
  <2>2. ASSUME NEW i \in Request, InsertAlert(i) PROVE UNCHANGED <<req, txn, told>>
    BY <2>2, <2>a DEF InsertAlert, tables
  <2>3. ASSUME NEW i \in Request, FindOther(i) PROVE Ledger!Next
    <3>1. Told(i)' = "conflict"
      BY <2>3, <2>b DEF FindOther, Rollback, Problem, Told
    <3> QED
      BY <2>3, <3>1, AnswerStep DEF FindOther, Rollback, tables
  <2>4. ASSUME NEW i \in Request, Replay(i) PROVE Ledger!Next
    <3>1. Told(i)' = "replayed"
      BY <2>4, <2>b DEF Replay, Told
    <3>2. txn[Key_(i)] # NoTxn /\ SameIngestionPayload(txn[Key_(i)], i)
      BY <2>4 DEF Replay, IngestionInv, LookupStaysTrue
    <3> QED
      BY <2>4, <3>1, <3>2, AnswerStep DEF Replay, tables
  <2>5. ASSUME NEW i \in Request, UniqueViolation(i) \/ Inspect(i) PROVE Ledger!Next
    <3>1. Told(i)' = "refused"
      BY <2>5, <2>b DEF UniqueViolation, Inspect, Rollback, Problem, Told
    <3> QED
      BY <2>5, <3>1, AnswerStep DEF UniqueViolation, Inspect, Rollback, tables
  <2>6. ASSUME NEW i \in Request, Fail(i) PROVE Ledger!Next
    <3>1. Told(i)' = "error"
      BY <2>6, <2>b DEF Fail, Rollback, Problem, Told
    <3>2. pc[i] # "done"
      BY <2>6 DEF Fail, InTransaction
    <3> QED
      BY <2>6, <3>1, <3>2, AnswerStep DEF Fail, Rollback, tables
  <2>7. ASSUME NEW i \in Request, Commit(i) PROVE Ledger!Next
    <3>1. Told(i)' = "created"
      BY <2>7, <2>b DEF Commit, Told
    <3> QED
      BY <2>7, <3>1, StoreStep DEF Commit
  <2>8. ASSUME NEW i \in Request, CommitUnanswered(i) PROVE Ledger!Next
    <3>1. Told(i)' = "error"
      BY <2>8, <2>b DEF CommitUnanswered, Problem, Told
    <3> QED
      BY <2>8, <3>1, StoreStep DEF CommitUnanswered
  <2>9. ASSUME NEW c \in Customer, NEW d \in {"active", "rejected"}, ReviewCustomer(c, d)
        PROVE  UNCHANGED <<req, txn, told>>
    BY <2>9, <2>a DEF ReviewCustomer, txVars
  <2>10. ASSUME NEW t \in Request, NEW r \in Rule, CloseAlert(t, r)
         PROVE  UNCHANGED <<req, txn, told>>
    BY <2>10, <2>a DEF CloseAlert, txVars
  <2>11. CASE UNCHANGED vars
    BY <2>11, <2>a DEF vars, txVars, tables
  <2> QED
    BY <2>1, <2>2, <2>3, <2>4, <2>5, <2>6, <2>7, <2>8, <2>9, <2>10, <2>11 DEF Next, Step, Quiet
<1> QED
  BY <1>1, <1>2, IngestionSafety, PTL DEF Spec, LedgerSpec, Ledger!Spec

-----------------------------------------------------------------------------
(* Types and waits *)

(* The monitoring engine has two rules. *)
LEMMA FindingsBounded ==
  ASSUME NEW p
  PROVE  Len(Evaluate(p)) \in 0..2
<1>1. CASE p.amount >= LargeAmount
  <2>1. CASE p.country \in HighRiskCountry
    BY <1>1, <2>1 DEF Evaluate
  <2>2. CASE p.country \notin HighRiskCountry
    BY <1>1, <2>2 DEF Evaluate
  <2> QED
    BY <2>1, <2>2
<1>2. CASE ~(p.amount >= LargeAmount)
  <2>1. CASE p.country \in HighRiskCountry
    BY <1>2, <2>1 DEF Evaluate
  <2>2. CASE p.country \notin HighRiskCountry
    BY <1>2, <2>2 DEF Evaluate
  <2> QED
    BY <2>1, <2>2
<1> QED
  BY <1>1, <1>2

(* A request that ends is given an answer of one of the known kinds. *)
LEMMA EndTypes ==
  ASSUME IngestionInv, TypeOK, NEW i \in Request, NEW result, End(i, result),
         DOMAIN result = {"kind", "txn", "alerts"},
         result.kind \in AnswerKinds,
         result.txn \in Request \union {NoTxn},
         customer' \in [Customer -> {"absent", "pending_approval", "active", "rejected"}],
         txn' \in [Key -> Request \union {NoTxn}],
         alert' \in [Request -> [Rule -> {"none", "open", "closed"}]]
  PROVE  TypeOK'
<1>1. answer' = [answer EXCEPT ![i] = result] /\ DOMAIN answer = Request
  BY DEF End, IngestionInv, LedgerTypes
<1>2. \A j \in Request : answer'[j] = result \/ answer'[j] = answer[j]
  BY <1>1
<1>3. \A j \in Request :
        /\ DOMAIN answer'[j] = {"kind", "txn", "alerts"}
        /\ answer'[j].kind \in AnswerKinds
        /\ answer'[j].txn \in Request \union {NoTxn}
  BY <1>2 DEF TypeOK
<1>4. /\ req' \in [Request -> [key : Key, payload : Payload]]
      /\ pc' \in [Request -> {"idle", "lock", "done"} \union InTransaction]
      /\ made' \in [Request -> 0..2]
  BY DEF End, TypeOK
<1> QED
  BY <1>3, <1>4 DEF TypeOK

LEMMA TypesPreserved == IngestionInv /\ TypeOK /\ [Next]_vars => TypeOK'
<1> SUFFICES ASSUME IngestionInv, TypeOK, [Next]_vars PROVE TypeOK'
  OBVIOUS
<1> USE DEF TypeOK
<1>1. ASSUME NEW i \in Request, NEW step \in {"lock"} \union InTransaction, GoTo(i, step)
      PROVE  TypeOK'
  BY <1>1 DEF GoTo, tables
<1>2. ASSUME NEW i \in Request, InsertAlert(i) PROVE TypeOK'
  <2> DEFINE rounds == Len(Findings(i))
  <2>0. rounds \in 0..2 /\ made[i] < rounds
    BY <1>2, FindingsBounded DEF Findings, InsertAlert
  <2> HIDE DEF rounds
  <2>1. made[i] + 1 \in 0..2
    BY <2>0
  <2>2. made' \in [Request -> 0..2]
    BY <1>2, <2>1 DEF InsertAlert
  <2> QED
    BY <1>2, <2>2 DEF InsertAlert, tables
<1>3. ASSUME NEW i \in Request, NEW kind \in AnswerKinds, Rollback(i, Problem(kind))
      PROVE  TypeOK'
  BY <1>3, EndTypes DEF Rollback, Problem, tables
<1>4. ASSUME NEW i \in Request, Replay(i) PROVE TypeOK'
  <2>1. "replayed" \in AnswerKinds /\ Key_(i) \in Key
    BY DEF AnswerKinds, Key_
  <2> QED
    BY <1>4, <2>1, EndTypes DEF Replay, tables
<1>5. ASSUME NEW i \in Request, Commit(i) \/ CommitUnanswered(i) PROVE TypeOK'
  <2>0. {"created", "internal_error"} \subseteq AnswerKinds /\ Key_(i) \in Key
    BY DEF AnswerKinds, Key_
  <2>1. /\ txn' \in [Key -> Request \union {NoTxn}]
        /\ alert' \in [Request -> [Rule -> {"none", "open", "closed"}]]
        /\ customer' = customer
    <3> DEFINE rules == {Findings(i)[n] : n \in 1..made[i]}
               row == [r \in Rule |-> IF r \in rules THEN "open" ELSE alert[i][r]]
    <3>1. /\ txn' = [txn EXCEPT ![Key_(i)] = i]
          /\ alert' = [alert EXCEPT ![i] = row]
          /\ customer' = customer
      BY <1>5 DEF Commit, CommitUnanswered, Apply
    <3> HIDE DEF rules
    <3>2. row \in [Rule -> {"none", "open", "closed"}]
      OBVIOUS
    <3> HIDE DEF row
    <3> QED
      BY <2>0, <3>1, <3>2
  <2>2. CASE Commit(i)
    BY <2>0, <2>1, <2>2, EndTypes DEF Commit
  <2>3. CASE CommitUnanswered(i)
    BY <2>0, <2>1, <2>3, EndTypes DEF CommitUnanswered, Problem
  <2> QED
    BY <1>5, <2>2, <2>3
<1>6. ASSUME NEW c \in Customer, NEW d \in {"active", "rejected"}, ReviewCustomer(c, d)
      PROVE  TypeOK'
  BY <1>6 DEF ReviewCustomer, txVars
<1>7. ASSUME NEW t \in Request, NEW r \in Rule, CloseAlert(t, r) PROVE TypeOK'
  <2>1. [alert[t] EXCEPT ![r] = "closed"] \in [Rule -> {"none", "open", "closed"}]
    OBVIOUS
  <2> QED
    BY <1>7, <2>1 DEF CloseAlert, txVars
<1>8. CASE UNCHANGED vars
  BY <1>8 DEF vars, txVars, tables
<1>9. ASSUME NEW i \in Request,
             Ingest(i) \/ Lock(i) \/ FindNothing(i) \/ FindSame(i) \/ Insert(i) \/ InsertNothing(i)
      PROVE  TypeOK'
  BY <1>1, <1>9 DEF Ingest, Lock, FindNothing, FindSame, Insert, InsertNothing, InTransaction
<1>10. ASSUME NEW i \in Request,
              FindOther(i) \/ UniqueViolation(i) \/ Inspect(i) \/ Fail(i)
       PROVE  TypeOK'
  BY <1>3, <1>10 DEF FindOther, UniqueViolation, Inspect, Fail, AnswerKinds
<1> QED
  BY <1>2, <1>4, <1>5, <1>6, <1>7, <1>8, <1>9, <1>10 DEF Next, Step, Quiet

(* Every variable keeps its type: a request inserts no more alerts than    *)
(* there are rules and is answered in one of the ways the API documents.   *)
THEOREM IngestionTypeCorrect == Spec => []TypeOK
<1>1. Init => TypeOK
  BY DEF Init, TypeOK, NoAnswer, AnswerKinds
<1>2. IngestionInv /\ TypeOK /\ [Next]_vars => TypeOK'
  BY TypesPreserved
<1> QED
  BY <1>1, <1>2, IngestionSafety, PTL DEF Spec

(* The waits of requests for each other end with a request that waits for  *)
(* nobody: whoever waits for an advisory lock waits for a request that     *)
(* holds one, that one waits at most for a row another is about to commit, *)
(* and whoever is about to commit waits for nothing.                       *)
THEOREM IngestionHasNoDeadlock == Spec => []NoCircularWait
<1>1. ASSUME TypeOK, NEW i \in Request, Open(i)
      PROVE  \E j \in Request : Open(j) /\ ~WaitsForLock(j) /\ ~WaitsInIndex(j)
  <2> USE DEF Open, WaitsForLock, WaitsInIndex
  <2>1. CASE \E j \in Request : pc[j] = "write"
    BY <2>1 DEF InTransaction
  <2>2. CASE /\ ~\E j \in Request : pc[j] = "write"
             /\ \E j \in Request : pc[j] \in InTransaction
    BY <2>2 DEF InTransaction
  <2>3. CASE ~\E j \in Request : pc[j] \in InTransaction
    BY <1>1, <2>3 DEF InTransaction
  <2> QED
    BY <2>1, <2>2, <2>3
<1>2. TypeOK => NoCircularWait
  BY <1>1 DEF NoCircularWait
<1> QED
  BY <1>2, IngestionTypeCorrect, PTL

-----------------------------------------------------------------------------
(* The answers *)

(* The rules of a sequence of findings. *)
RulesIn(s) == {s[n] : n \in 1..Len(s)}

(* Two rules that are listed, one after the other, or left out. *)
LEMMA Lists ==
  ASSUME NEW x, NEW y
  PROVE  /\ Len(<<x>> \o <<y>>) = 2 /\ RulesIn(<<x>> \o <<y>>) = {x, y}
         /\ Len(<<x>> \o << >>) = 1 /\ RulesIn(<<x>> \o << >>) = {x}
         /\ Len(<< >> \o <<y>>) = 1 /\ RulesIn(<< >> \o <<y>>) = {y}
         /\ Len(<< >> \o << >>) = 0 /\ RulesIn(<< >> \o << >>) = {}
<1>1. /\ Len(<<x>> \o <<y>>) = 2 /\ (<<x>> \o <<y>>)[1] = x /\ (<<x>> \o <<y>>)[2] = y
      /\ Len(<<x>> \o << >>) = 1 /\ (<<x>> \o << >>)[1] = x
      /\ Len(<< >> \o <<y>>) = 1 /\ (<< >> \o <<y>>)[1] = y
      /\ Len(<< >> \o << >>) = 0
  OBVIOUS
<1>2. 1..2 = {1, 2} /\ 1..1 = {1} /\ 1..0 = {}
  OBVIOUS
<1>3. RulesIn(<<x>> \o <<y>>) = {x, y}
  BY <1>1, <1>2 DEF RulesIn
<1>4. RulesIn(<<x>> \o << >>) = {x}
  BY <1>1, <1>2 DEF RulesIn
<1>6. RulesIn(<< >> \o <<y>>) = {y}
  BY <1>1, <1>2 DEF RulesIn
<1>5. RulesIn(<< >> \o << >>) = {}
  BY <1>1, <1>2 DEF RulesIn
<1> QED
  BY <1>1, <1>3, <1>4, <1>5, <1>6

(* The monitoring engine reports each rule at most once. *)
LEMMA FindingsAreRules ==
  ASSUME NEW p
  PROVE  /\ RulesIn(Evaluate(p)) \subseteq Rule
         /\ Len(Evaluate(p)) = (IF "large_transaction" \in RulesIn(Evaluate(p)) THEN 1 ELSE 0)
              + (IF "high_risk_counterparty_country" \in RulesIn(Evaluate(p)) THEN 1 ELSE 0)
<1> DEFINE L == "large_transaction"
           H == "high_risk_counterparty_country"
<1>1. CASE p.amount >= LargeAmount /\ p.country \in HighRiskCountry
  <2>1. Evaluate(p) = <<L>> \o <<H>>
    BY <1>1 DEF Evaluate
  <2>2. Len(Evaluate(p)) = 2 /\ RulesIn(Evaluate(p)) = {L, H}
    BY <2>1, Lists
  <2> QED
    BY <2>2 DEF Rule
<1>2. CASE p.amount >= LargeAmount /\ p.country \notin HighRiskCountry
  <2>1. Evaluate(p) = <<L>> \o << >>
    BY <1>2 DEF Evaluate
  <2>2. Len(Evaluate(p)) = 1 /\ RulesIn(Evaluate(p)) = {L}
    BY <2>1, Lists
  <2> QED
    BY <2>2 DEF Rule
<1>3. CASE ~(p.amount >= LargeAmount) /\ p.country \in HighRiskCountry
  <2>1. Evaluate(p) = << >> \o <<H>>
    BY <1>3 DEF Evaluate
  <2>2. Len(Evaluate(p)) = 1 /\ RulesIn(Evaluate(p)) = {H}
    BY <2>1, Lists
  <2> QED
    BY <2>2 DEF Rule
<1>4. CASE ~(p.amount >= LargeAmount) /\ p.country \notin HighRiskCountry
  <2>1. Evaluate(p) = << >> \o << >>
    BY <1>4 DEF Evaluate
  <2>2. Len(Evaluate(p)) = 0 /\ RulesIn(Evaluate(p)) = {}
    BY <2>1, Lists
  <2> QED
    BY <2>2
<1> QED
  BY <1>1, <1>2, <1>3, <1>4

(* The query returns each stored alert once. *)
LEMMA RowsAreRules ==
  ASSUME NEW rules \in SUBSET Rule
  PROVE  /\ RulesIn(InRuleOrder(rules)) = rules
         /\ Len(InRuleOrder(rules)) = (IF "large_transaction" \in rules THEN 1 ELSE 0)
              + (IF "high_risk_counterparty_country" \in rules THEN 1 ELSE 0)
<1> DEFINE L == "large_transaction"
           H == "high_risk_counterparty_country"
<1>1. CASE L \in rules /\ H \in rules
  <2>1. InRuleOrder(rules) = <<H>> \o <<L>> /\ rules = {H, L}
    BY <1>1 DEF InRuleOrder, Rule
  <2> QED
    BY <2>1, Lists
<1>2. CASE L \in rules /\ H \notin rules
  <2>1. InRuleOrder(rules) = << >> \o <<L>> /\ rules = {L}
    BY <1>2 DEF InRuleOrder, Rule
  <2> QED
    BY <2>1, Lists
<1>3. CASE L \notin rules /\ H \in rules
  <2>1. InRuleOrder(rules) = <<H>> \o << >> /\ rules = {H}
    BY <1>3 DEF InRuleOrder, Rule
  <2> QED
    BY <2>1, Lists
<1>4. CASE L \notin rules /\ H \notin rules
  <2>1. InRuleOrder(rules) = << >> \o << >> /\ rules = {}
    BY <1>4 DEF InRuleOrder, Rule
  <2>2. Len(InRuleOrder(rules)) = 0 /\ RulesIn(InRuleOrder(rules)) = {}
    BY <2>1, Lists
  <2> QED
    BY <1>4, <2>1, <2>2
<1> QED
  BY <1>1, <1>2, <1>3, <1>4

(* What a replay lists: the alerts that the rules ask for, as they are. *)
LEMMA ReplayLists ==
  ASSUME IngestionInv, NEW t \in Request, Stored(t)
  PROVE  LET alerts == StoredAlerts(t) IN
         /\ Len(alerts) = Len(Findings(t))
         /\ {alerts[n].rule : n \in 1..Len(alerts)} = RulesIn(Findings(t))
         /\ \A n \in 1..Len(alerts) : alerts[n].status = alert[t][alerts[n].rule]
<1> DEFINE stored == {r \in Rule : alert[t][r] # "none"}
           rules == InRuleOrder(stored)
           alerts == StoredAlerts(t)
<1>1. stored = RulesIn(Findings(t))
  <2>1. RulesIn(Findings(t)) \subseteq Rule
    BY FindingsAreRules DEF Findings
  <2>2. ASSUME NEW r \in Rule PROVE r \in stored <=> r \in RulesIn(Findings(t))
    <3>1. alert[t][r] # "none" <=> \E n \in 1..Len(Findings(t)) : Findings(t)[n] = r
      BY DEF IngestionInv, RecordsComplete, RecordsOf
    <3>2. r \in RulesIn(Findings(t)) <=> \E n \in 1..Len(Findings(t)) : Findings(t)[n] = r
      BY DEF RulesIn
    <3> QED
      BY <3>1, <3>2
  <2> HIDE DEF stored
  <2>3. stored \subseteq Rule
    BY DEF stored
  <2> QED
    BY <2>1, <2>2, <2>3
<1>2. RulesIn(rules) = stored /\ Len(rules) = Len(Findings(t))
  <2>1. RulesIn(rules) = stored
    BY RowsAreRules
  <2>2. Len(rules) = (IF "large_transaction" \in stored THEN 1 ELSE 0)
                       + (IF "high_risk_counterparty_country" \in stored THEN 1 ELSE 0)
    BY RowsAreRules
  <2> HIDE DEF stored
  <2>3. Len(rules) = Len(Findings(t))
    BY <1>1, <2>2, FindingsAreRules DEF Findings
  <2> QED
    BY <2>1, <2>3
<1>3. alerts = [n \in 1..Len(rules) |-> [rule |-> rules[n], status |-> alert[t][rules[n]]]]
  BY DEF StoredAlerts
<1>4. Len(rules) \in Nat
  BY <1>2, FindingsBounded DEF Findings
<1> HIDE DEF rules, stored, alerts
<1>5. Len(alerts) = Len(rules)
  BY <1>3, <1>4
<1>6. \A n \in 1..Len(rules) : /\ alerts[n].rule = rules[n]
                               /\ alerts[n].status = alert[t][rules[n]]
  BY <1>3
<1>7. {alerts[n].rule : n \in 1..Len(alerts)} = RulesIn(rules)
  BY <1>5, <1>6 DEF RulesIn
<1> QED
  BY <1>1, <1>2, <1>5, <1>6, <1>7 DEF alerts

(* Stored transactions are never replaced and closed alerts never reopened. *)
LEMMA TablesGoForward ==
  ASSUME IngestionInv, [Next]_vars
  PROVE  /\ UNCHANGED req
         /\ \A k \in Key : txn[k] # NoTxn => txn'[k] = txn[k]
         /\ \A t \in Request, r \in Rule : alert[t][r] = "closed" => alert'[t][r] = "closed"
<1> USE DEF IngestionInv
<1>1. ASSUME UNCHANGED <<req, txn, alert>>
      PROVE  /\ UNCHANGED req
             /\ \A k \in Key : txn[k] # NoTxn => txn'[k] = txn[k]
             /\ \A t \in Request, r \in Rule : alert[t][r] = "closed" => alert'[t][r] = "closed"
  BY <1>1
<1>2. ASSUME NEW i \in Request,
             \/ Ingest(i) \/ Lock(i) \/ FindNothing(i) \/ FindSame(i) \/ Insert(i)
             \/ InsertNothing(i) \/ InsertAlert(i)
      PROVE  UNCHANGED <<req, txn, alert>>
  BY <1>2 DEF Ingest, Lock, FindNothing, FindSame, Insert, InsertNothing, InsertAlert, GoTo, tables
<1>3. ASSUME NEW i \in Request,
             FindOther(i) \/ Replay(i) \/ UniqueViolation(i) \/ Inspect(i) \/ Fail(i)
      PROVE  UNCHANGED <<req, txn, alert>>
  BY <1>3 DEF FindOther, Replay, UniqueViolation, Inspect, Fail, Rollback, End, tables
<1>4. ASSUME NEW i \in Request, Commit(i) \/ CommitUnanswered(i)
      PROVE  /\ UNCHANGED req
             /\ \A k \in Key : txn[k] # NoTxn => txn'[k] = txn[k]
             /\ \A t \in Request, r \in Rule : alert[t][r] = "closed" => alert'[t][r] = "closed"
  <2>1. pc[i] = "write" /\ Apply(i) /\ UNCHANGED req /\ made[i] = Len(Findings(i))
    BY <1>4 DEF Commit, CommitUnanswered, End
  <2>2. txn[Key_(i)] = NoTxn /\ ~Stored(i)
    BY <2>1, IngestionAssumption DEF LookupStaysTrue, Stored
  <2>3. \A k \in Key : txn[k] # NoTxn => txn'[k] = txn[k]
    BY <2>1, <2>2 DEF Apply, LedgerTypes
  <2>4. \A r \in Rule : alert[i][r] = "none"
    BY <2>2 DEF RecordsComplete, RecordsOf
  <2>5. \A t \in Request \ {i} : alert'[t] = alert[t]
    BY <2>1, CommitWrites
  <2> QED
    BY <2>1, <2>3, <2>4, <2>5
<1>5. ASSUME NEW c \in Customer, NEW d \in {"active", "rejected"}, ReviewCustomer(c, d)
      PROVE  UNCHANGED <<req, txn, alert>>
  BY <1>5 DEF ReviewCustomer
<1>6. ASSUME NEW t \in Request, NEW r \in Rule, CloseAlert(t, r)
      PROVE  /\ UNCHANGED <<req, txn>>
             /\ \A u \in Request, s \in Rule : alert[u][s] = "closed" => alert'[u][s] = "closed"
  BY <1>6 DEF CloseAlert, LedgerTypes
<1>7. CASE UNCHANGED vars
  BY <1>1, <1>7 DEF vars, tables
<1> QED
  BY <1>1, <1>2, <1>3, <1>4, <1>5, <1>6, <1>7 DEF Next, Step, Quiet

(* An answer that was true stays true while the tables go forward. *)
LEMMA OldAnswerStaysTrue ==
  ASSUME IngestionInv, [Next]_vars, NEW i \in Request, AnswerIsTrue(i), answer'[i] = answer[i]
  PROVE  AnswerIsTrue(i)'
<1> DEFINE stored == txn[Key_(i)]
           alerts == answer[i].alerts
<1>1. /\ Key_(i) \in Key /\ Key_(i)' = Key_(i) /\ Findings(i)' = Findings(i)
      /\ \A j, k : SameIngestionPayload(j, k)' <=> SameIngestionPayload(j, k)
  BY TablesGoForward DEF IngestionInv, LedgerTypes, Key_, Findings, SameIngestionPayload
<1>2. stored \in Request \union {NoTxn} /\ (stored # NoTxn => txn'[Key_(i)] = stored)
  BY <1>1, TablesGoForward DEF IngestionInv, LedgerTypes
<1>3. answer[i].kind \in {"created", "replayed", "idempotency_conflict"} =>
        stored # NoTxn /\ txn'[Key_(i)] = stored
  BY <1>2, IngestionAssumption DEF AnswerIsTrue
<1>4. ASSUME answer[i].kind \in {"created", "replayed"},
             NEW n \in 1..Len(alerts), alerts[n].status = "closed"
      PROVE  alert'[stored][alerts[n].rule] = "closed"
  <2>1. alert[stored][alerts[n].rule] = "closed"
    BY <1>4 DEF AnswerIsTrue
  <2>2. alerts[n].rule \in RulesIn(Findings(i))
    BY <1>4 DEF AnswerIsTrue, RulesIn
  <2>3. alerts[n].rule \in Rule
    BY <2>2, FindingsAreRules DEF Findings
  <2> QED
    BY <1>2, <1>3, <1>4, <2>1, <2>3, TablesGoForward
<1> QED
  BY <1>1, <1>3, <1>4 DEF AnswerIsTrue

(* One request is answered at a time. *)
LEMMA OneAnswerGiven ==
  ASSUME IngestionInv, IngestionInv', AnswersTrue, [Next]_vars, NEW i \in Request,
         \A j \in Request \ {i} : answer'[j] = answer[j],
         AnswerIsTrue(i)'
  PROVE  AnswersTrue'
<1>1. \A j \in Request \ {i} : AnswerIsTrue(j)'
  BY OldAnswerStaysTrue DEF AnswersTrue
<1>2. KeyRaceNeverFails'
  BY DEF IngestionInv
<1> QED
  BY <1>1, <1>2 DEF AnswersTrue

LEMMA AnswersPreserved ==
  ASSUME IngestionInv, IngestionInv', AnswersTrue, [Next]_vars
  PROVE  AnswersTrue'
<1> USE DEF IngestionInv
<1>a. ASSUME NEW i \in Request, NEW result, End(i, result)
      PROVE  /\ answer'[i] = result /\ UNCHANGED req
             /\ \A j \in Request \ {i} : answer'[j] = answer[j]
             /\ Key_(i)' = Key_(i) /\ Key_(i) \in Key /\ Findings(i)' = Findings(i)
  BY <1>a DEF End, LedgerTypes, Key_, Findings
<1>1. ASSUME NEW i \in Request, NEW kind, Rollback(i, Problem(kind)),
             kind \notin {"created", "replayed"},
             kind = "idempotency_conflict" => /\ txn[Key_(i)] # NoTxn
                                              /\ ~SameIngestionPayload(txn[Key_(i)], i)
      PROVE  AnswersTrue'
  <2>1. answer'[i].kind = kind /\ txn' = txn
    BY <1>1, <1>a DEF Rollback, Problem, tables
  <2>2. AnswerIsTrue(i)'
    BY <1>1, <1>a, <2>1 DEF AnswerIsTrue, SameIngestionPayload, Rollback
  <2> QED
    BY <1>1, <1>a, <2>2, OneAnswerGiven DEF Rollback
<1>2. ASSUME UNCHANGED answer PROVE AnswersTrue'
  <2>1. \A j \in Request : AnswerIsTrue(j)'
    BY <1>2, OldAnswerStaysTrue DEF AnswersTrue
  <2> QED
    BY <2>1 DEF AnswersTrue
<1>3. ASSUME NEW i \in Request, Replay(i) PROVE AnswersTrue'
  <2>1. PICK t \in Request : /\ t = txn[Key_(i)] /\ Stored(t)
                            /\ SameIngestionPayload(t, i) /\ Findings(i) = Findings(t)
    BY <1>3 DEF Replay, LookupStaysTrue, LedgerTypes, StoredUnderItsKey, Stored, Key_,
                SameIngestionPayload, Findings
  <2> DEFINE alerts == StoredAlerts(t)
  <2>2. /\ Len(alerts) = Len(Findings(t))
        /\ {alerts[n].rule : n \in 1..Len(alerts)} = RulesIn(Findings(t))
        /\ \A n \in 1..Len(alerts) : alerts[n].status = alert[t][alerts[n].rule]
    BY <2>1, ReplayLists
  <2>3. /\ End(i, [kind |-> "replayed", txn |-> t, alerts |-> alerts])
        /\ UNCHANGED <<txn, alert>>
    BY <1>3, <2>1 DEF Replay, tables
  <2>4. /\ answer'[i].kind = "replayed" /\ answer'[i].txn = t /\ answer'[i].alerts = alerts
        /\ txn'[Key_(i)] = t
    BY <1>a, <2>1, <2>3
  <2>5. t # NoTxn
    BY <2>1, IngestionAssumption
  <2>6. SameIngestionPayload(t, i)'
    BY <1>a, <2>1, <2>3 DEF SameIngestionPayload
  <2>7. /\ Findings(i)' = Findings(t) /\ Key_(i)' = Key_(i)
        /\ {alerts[n].rule : n \in 1..Len(alerts)} = {Findings(t)[n] : n \in 1..Len(Findings(t))}
    BY <1>a, <2>1, <2>2, <2>3 DEF RulesIn
  <2>8. \A n \in 1..Len(alerts) :
          alerts[n].status = "closed" => alert'[t][alerts[n].rule] = "closed"
    BY <2>2, <2>3
  <2>9. Len(alerts) = Len(Findings(t))
    BY <2>2
  <2> HIDE DEF alerts
  <2>10. AnswerIsTrue(i)'
    <3>1. txn[Key_(i)]' = t /\ SameIngestionPayload(txn[Key_(i)], i)'
      BY <2>4, <2>6, <2>7 DEF SameIngestionPayload
    <3>2. {alerts[n].rule : n \in 1..Len(alerts)} = {Findings(i)[n] : n \in 1..Len(Findings(i))}'
      BY <2>7
    <3>3. \A n \in 1..Len(alerts) :
            alerts[n].status = "closed" => alert'[txn[Key_(i)]'][alerts[n].rule] = "closed"
      BY <2>8, <3>1
    <3> QED
      BY <2>4, <2>5, <2>7, <2>9, <3>1, <3>2, <3>3 DEF AnswerIsTrue
  <2> QED
    BY <1>a, <2>3, <2>10, OneAnswerGiven
<1>4. ASSUME NEW i \in Request, Commit(i) PROVE AnswersTrue'
  <2> DEFINE found == Findings(i)
             alerts == [n \in 1..Len(found) |-> [rule |-> found[n], status |-> "open"]]
  <2>1. End(i, [kind |-> "created", txn |-> i, alerts |-> alerts]) /\ Apply(i)
    BY <1>4 DEF Commit
  <2>2. Len(found) \in Nat
    BY FindingsBounded DEF Findings
  <2>3. Len(alerts) = Len(found) /\ \A n \in 1..Len(found) : /\ alerts[n].rule = found[n]
                                                             /\ alerts[n].status = "open"
    BY <2>2
  <2>4. txn'[Key_(i)] = i
    BY <1>a, <2>1 DEF Apply, LedgerTypes
  <2>5. /\ answer'[i].kind = "created" /\ answer'[i].txn = i /\ answer'[i].alerts = alerts
        /\ Findings(i)' = found /\ Key_(i)' = Key_(i)
    BY <1>a, <2>1
  <2> HIDE DEF alerts, found
  <2>6. {alerts[n].rule : n \in 1..Len(alerts)} = {found[n] : n \in 1..Len(found)}
    BY <2>3
  <2>7. AnswerIsTrue(i)'
    BY <2>3, <2>4, <2>5, <2>6 DEF AnswerIsTrue
  <2> QED
    BY <1>a, <2>1, <2>7, OneAnswerGiven
<1>5. ASSUME NEW i \in Request, CommitUnanswered(i) PROVE AnswersTrue'
  <2>1. End(i, Problem("internal_error"))
    BY <1>5 DEF CommitUnanswered
  <2>2. AnswerIsTrue(i)'
    BY <1>a, <2>1 DEF AnswerIsTrue, Problem
  <2> QED
    BY <1>a, <2>1, <2>2, OneAnswerGiven
<1>6. ASSUME NEW i \in Request,
             \/ Ingest(i) \/ Lock(i) \/ FindNothing(i) \/ FindSame(i) \/ Insert(i)
             \/ InsertNothing(i) \/ InsertAlert(i)
      PROVE  UNCHANGED answer
  BY <1>6 DEF Ingest, Lock, FindNothing, FindSame, Insert, InsertNothing, InsertAlert, GoTo
<1>7. ASSUME NEW i \in Request, FindOther(i) \/ UniqueViolation(i) \/ Inspect(i) \/ Fail(i)
      PROVE  AnswersTrue'
  BY <1>1, <1>7 DEF FindOther, UniqueViolation, Inspect, Fail
<1>8. ASSUME NEW c \in Customer, NEW d \in {"active", "rejected"}, ReviewCustomer(c, d)
      PROVE  UNCHANGED answer
  BY <1>8 DEF ReviewCustomer, txVars
<1>9. ASSUME NEW t \in Request, NEW r \in Rule, CloseAlert(t, r) PROVE UNCHANGED answer
  BY <1>9 DEF CloseAlert, txVars
<1>10. CASE UNCHANGED vars
  BY <1>2, <1>10 DEF vars, txVars
<1> QED
  BY <1>2, <1>3, <1>4, <1>5, <1>6, <1>7, <1>8, <1>9, <1>10 DEF Next, Step, Quiet

(* Clients can rely on their answers for ever: the transaction they were   *)
(* told of stays the one of their key, and created or replayed, the answer *)
(* lists every alert that the monitoring rules ask for, whatever requests  *)
(* failed or raced before.                                                 *)
THEOREM AnswersStayTrue == Spec => []AnswersTrue
<1>1. Init => AnswersTrue
  <2>1. Init => \A i \in Request : answer[i].kind = "none"
    BY DEF Init, NoAnswer
  <2> QED
    BY <2>1 DEF AnswersTrue, AnswerIsTrue, KeyRaceNeverFails
<1>2. IngestionInv /\ IngestionInv' /\ AnswersTrue /\ [Next]_vars => AnswersTrue'
  BY AnswersPreserved
<1> QED
  BY <1>1, <1>2, IngestionSafety, PTL DEF Spec
=============================================================================
