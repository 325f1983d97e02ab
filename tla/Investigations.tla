--------------------------- MODULE Investigations ---------------------------
(***************************************************************************)
(* Alerts and investigation cases in PostgreSQL.                           *)
(*                                                                         *)
(* Analysts and reviewers work on the same alert through different         *)
(* requests.  Each request is one PostgreSQL transaction (READ COMMITTED)  *)
(* whose statements interleave with those of the others: row locks make it *)
(* wait, and a WHERE clause is evaluated on the row as it is once the wait *)
(* is over.  ResolveCase locks the case, then the alert; CreateCase locks  *)
(* the alert, then adds the case.  What a request wrote becomes visible at *)
(* its commit, or is gone when a statement fails or the process ends.      *)
(***************************************************************************)
EXTENDS Naturals, Sequences, FiniteSets

CONSTANTS
  Request,
  Alert,
  Operations   \* the operations that requests ask for

ASSUME OperationsAssumption ==
  Operations \subseteq {"create", "assign", "comment", "resolve", "close"}

VARIABLES
  req,       \* the operation and the alert (or the alert's case) of a request
  pc,        \* the next statement of each request
  answer,    \* what its client was told
  alert, case, comments, trail   \* the committed tables, as in CaseWorkflow

tables == <<alert, case, comments, trail>>
vars == <<req, pc, answer, tables>>

CaseEvents == {"case.created", "case.assigned", "case.comment_added", "case.resolved"}
Statement == {"lockCase", "lockAlert", "exists", "insert", "commit"}

TypeOK ==
  /\ req \in [Request -> [op : Operations, alert : Alert]]
  /\ pc \in [Request -> {"idle", "done"} \union Statement]
  /\ answer \in [Request -> {"none", "ok", "case_not_found", "case_conflict",
                             "alert_not_found", "alert_conflict", "alert_has_case",
                             "unique_violation", "internal_error"}]
  /\ alert \in [Alert -> {"open", "closed"}]
  /\ case \in [Alert -> {"none", "open", "in_progress", "resolved"}]
  /\ comments \in [Alert -> Nat]
  /\ trail \in [Alert -> Seq(CaseEvents \union {"alert.closed"})]

Atomic == INSTANCE CaseWorkflow

Init ==
  /\ req \in [Request -> [op : Operations, alert : Alert]]
  /\ pc = [i \in Request |-> "idle"]
  /\ answer = [i \in Request |-> "none"]
  /\ Atomic!Init

-----------------------------------------------------------------------------
A(i) == req[i].alert
Is(i, ops) == req[i].op \in ops

(* Mutant of HoldsCase: the transaction is never rolled back. *)
HoldsCaseForEver(i) ==
  Is(i, {"assign", "comment", "resolve"}) /\ pc[i] \in {"lockAlert", "commit", "done"}

(* The row locks that a request holds: taken by the statement, kept until  *)
(* the end of the transaction.                                             *)
HoldsCase(i) == Is(i, {"assign", "comment", "resolve"}) /\ pc[i] \in {"lockAlert", "commit"}
HoldsAlert(i) ==
  \/ Is(i, {"create"}) /\ pc[i] \in {"exists", "insert", "commit"}
  \/ Is(i, {"close", "resolve"}) /\ pc[i] = "commit"

(* Mutant of CaseIsFree and AlertIsFree: SELECT without FOR UPDATE. *)
NeverWait(i) == TRUE

CaseIsFree(i) == \A j \in Request \ {i} : HoldsCase(j) => A(j) # A(i)
AlertIsFree(i) == \A j \in Request \ {i} : HoldsAlert(j) => A(j) # A(i)

GoTo(i, step) ==
  /\ pc' = [pc EXCEPT ![i] = step]
  /\ UNCHANGED <<req, answer, tables>>

End(i, result) ==
  /\ pc' = [pc EXCEPT ![i] = "done"]
  /\ answer' = [answer EXCEPT ![i] = result]
  /\ UNCHANGED req

Rollback(i, result) == End(i, result) /\ UNCHANGED tables

(* The service has validated the command and built the audit event. *)
Begin(i) ==
  /\ pc[i] = "idle"
  /\ GoTo(i, IF Is(i, {"create", "close"}) THEN "lockAlert" ELSE "lockCase")

(* The alert id is none of those in the table. *)
AlertUnknown(i) ==
  /\ pc[i] = "idle"
  /\ Is(i, {"create", "close"})
  /\ Rollback(i, "alert_not_found")

(* UPDATE investigation_cases ... WHERE status <> 'resolved', or SELECT     *)
(* ... FOR UPDATE when a comment is added.                                  *)
LockCase(i) ==
  /\ pc[i] = "lockCase"
  /\ CaseIsFree(i)
  /\ case[A(i)] \in {"open", "in_progress"}
  /\ GoTo(i, IF Is(i, {"resolve"}) THEN "lockAlert" ELSE "commit")

(* No row was updated: caseMutationError tells why. *)
caseMutationError(i) ==
  /\ pc[i] = "lockCase"
  /\ CaseIsFree(i)
  /\ case[A(i)] \in {"none", "resolved"}
  /\ Rollback(i, IF case[A(i)] = "none" THEN "case_not_found" ELSE "case_conflict")

(* Mutant of LockAlert: the number of updated alerts is not looked at. *)
LockAlertAnyStatus(i) ==
  /\ pc[i] = "lockAlert"
  /\ AlertIsFree(i)
  /\ GoTo(i, IF Is(i, {"create"}) THEN "exists" ELSE "commit")

(* SELECT ... FOR UPDATE in CreateCase; UPDATE alerts ... WHERE status =    *)
(* 'open' in CloseAlert and ResolveCase.                                    *)
LockAlert(i) ==
  /\ pc[i] = "lockAlert"
  /\ AlertIsFree(i)
  /\ alert[A(i)] = "open"
  /\ GoTo(i, IF Is(i, {"create"}) THEN "exists" ELSE "commit")

AlertConflict(i) ==
  /\ pc[i] = "lockAlert"
  /\ AlertIsFree(i)
  /\ alert[A(i)] = "closed"
  /\ Rollback(i, "alert_conflict")

(* SELECT EXISTS: has the alert a case? *)
CaseExists(i) ==
  /\ pc[i] = "exists"
  /\ case[A(i)] # "none"
  /\ Rollback(i, "alert_has_case")

NoCaseYet(i) ==
  /\ pc[i] = "exists"
  /\ case[A(i)] = "none"
  /\ GoTo(i, "insert")

(* INSERT INTO investigation_cases: alert_id is unique. *)
Inserted(j) == Is(j, {"create"}) /\ pc[j] = "commit"

InsertCase(i) ==
  /\ pc[i] = "insert"
  /\ \A j \in Request \ {i} : Inserted(j) => A(j) # A(i)
  /\ IF case[A(i)] = "none" THEN GoTo(i, "commit")
                            ELSE Rollback(i, "unique_violation")

(* Mutant of Events: the event of the alert is forgotten. *)
EventsOfCaseOnly(op) ==
  CASE op = "create"  -> <<"case.created">>
    [] op = "assign"  -> <<"case.assigned">>
    [] op = "comment" -> <<"case.comment_added">>
    [] op = "resolve" -> <<"case.resolved">>
    [] op = "close"   -> <<"alert.closed">>

(* The audit events of an operation, in the order they are inserted. *)
Events(op) ==
  CASE op = "create"  -> <<"case.created">>
    [] op = "assign"  -> <<"case.assigned">>
    [] op = "comment" -> <<"case.comment_added">>
    [] op = "resolve" -> <<"case.resolved", "alert.closed">>
    [] op = "close"   -> <<"alert.closed">>

CaseAfter(op, status) ==
  CASE op = "create"  -> "open"
    [] op = "assign"  -> "in_progress"
    [] op = "resolve" -> "resolved"
    [] OTHER -> status

(* The audit events are inserted and the transaction commits. *)
Apply(i) ==
  LET a == A(i)
      op == req[i].op
  IN
  /\ case' = [case EXCEPT ![a] = CaseAfter(op, @)]
  /\ alert' = [alert EXCEPT ![a] = IF op \in {"resolve", "close"} THEN "closed" ELSE @]
  /\ comments' = [comments EXCEPT ![a] = IF op = "comment" THEN @ + 1 ELSE @]
  /\ trail' = [trail EXCEPT ![a] = @ \o Events(op)]

Commit(i) ==
  /\ pc[i] = "commit"
  /\ Apply(i)
  /\ End(i, "ok")

CommitUnanswered(i) ==
  /\ pc[i] = "commit"
  /\ Apply(i)
  /\ End(i, "internal_error")

(* A statement fails, the request is cancelled or the process ends. *)
Fail(i) ==
  /\ pc[i] \in Statement
  /\ Rollback(i, "internal_error")

Step(i) ==
  \/ LockCase(i) \/ caseMutationError(i)
  \/ LockAlert(i) \/ AlertConflict(i)
  \/ CaseExists(i) \/ NoCaseYet(i) \/ InsertCase(i)
  \/ Commit(i)

Quiet == (\A i \in Request : pc[i] \in {"idle", "done"}) /\ UNCHANGED vars

Next ==
  \/ \E i \in Request : Begin(i) \/ AlertUnknown(i) \/ Step(i) \/ CommitUnanswered(i) \/ Fail(i)
  \/ Quiet

Spec == Init /\ [][Next]_vars

-----------------------------------------------------------------------------
(* The statements of concurrent requests have the effect of the operations *)
(* of the in-memory repository one after another: no request overwrites or *)
(* acts on a status that another one has changed in the meantime.          *)
WorkflowSpec == Atomic!Spec

(* The audit trail explains the tables: a case is created once and before  *)
(* anything else happens to it, nothing happens to it after it is          *)
(* resolved, the resolution closes the alert in the same transaction, an   *)
(* alert is closed once, and every comment has its event.                  *)
Before(a, n, event) == \E m \in 1..n-1 : trail[a][m] = event
Has(a, event) == Before(a, Len(trail[a]) + 1, event)

EventInOrder(a, n) ==
  LET event == trail[a][n] IN
  /\ event = "case.created" =>
       ~Before(a, n, "case.created") /\ ~Before(a, n, "alert.closed")
  /\ event \in CaseEvents \ {"case.created"} => Before(a, n, "case.created")
  /\ event \in CaseEvents => ~Before(a, n, "case.resolved")
  /\ event = "alert.closed" => ~Before(a, n, "alert.closed")
  /\ event = "case.resolved" =>
       n < Len(trail[a]) /\ trail[a][n + 1] = "alert.closed"

CommentEvents(a) == {n \in 1..Len(trail[a]) : trail[a][n] = "case.comment_added"}

TrailExplains(a) ==
  /\ \A n \in 1..Len(trail[a]) : EventInOrder(a, n)
  /\ alert[a] = "closed" <=> Has(a, "alert.closed")
  /\ case[a] = "none" <=> ~Has(a, "case.created")
  /\ case[a] = "resolved" <=> Has(a, "case.resolved")
  /\ comments[a] = Cardinality(CommentEvents(a))

TrailExplainsTables == \A a \in Alert : TrailExplains(a)

(* A resolved case has a closed alert, and whoever is about to commit      *)
(* still finds what it checked: the row locks are held to the end.         *)
ChecksHold ==
  /\ \A a \in Alert : case[a] = "resolved" => alert[a] = "closed"
  /\ \A i \in Request :
       /\ HoldsCase(i) => case[A(i)] \in {"open", "in_progress"}
       /\ HoldsAlert(i) => alert[A(i)] = "open"
       /\ pc[i] \in {"insert", "commit"} /\ Is(i, {"create"}) => case[A(i)] = "none"

(* Two requests that open a case for the same alert are never told of a    *)
(* uniqueness violation: the second sees the first one's case.             *)
CaseRaceNeverFails == \A i \in Request : answer[i] # "unique_violation"

(* What a client was told stays true, whatever others do before and after: *)
(* ok means that the operation is in the tables and no later write undoes  *)
(* it, a conflict is for good, and of the requests that create one case,   *)
(* or that close one alert, only one is told ok.                           *)
AnswerIsTrue(i) ==
  LET a == A(i) IN
  /\ answer[i] = "ok" =>
       /\ Is(i, {"create"}) => case[a] # "none"
       /\ Is(i, {"assign"}) => case[a] \in {"in_progress", "resolved"}
       /\ Is(i, {"comment"}) => comments[a] > 0
       /\ Is(i, {"resolve"}) => case[a] = "resolved"
       /\ Is(i, {"resolve", "close"}) => alert[a] = "closed"
  /\ answer[i] = "alert_has_case" => case[a] # "none"
  /\ answer[i] = "case_conflict" => case[a] = "resolved"
  /\ answer[i] = "alert_conflict" => alert[a] = "closed"

OneWinner ==
  \A i, j \in Request : i # j /\ A(i) = A(j) /\ answer[i] = "ok" /\ answer[j] = "ok" =>
    /\ ~(Is(i, {"create"}) /\ Is(j, {"create"}))
    /\ ~(Is(i, {"resolve", "close"}) /\ Is(j, {"resolve", "close"}))

AnswersTrue ==
  /\ CaseRaceNeverFails
  /\ \A i \in Request : AnswerIsTrue(i)
  /\ OneWinner

(* The row locks of cases and alerts, which ResolveCase takes in the one   *)
(* order and CreateCase in the other, never form a cycle: while a request  *)
(* is open, one of them waits for nobody, and a request that waits for     *)
(* nobody can go on without failing.                                       *)
Waits(i) ==
  \/ pc[i] = "lockCase" /\ ~CaseIsFree(i)
  \/ pc[i] = "lockAlert" /\ ~AlertIsFree(i)
  \/ pc[i] = "insert" /\ \E j \in Request \ {i} : Inserted(j) /\ A(j) = A(i)

NoCircularWait ==
  (\E i \in Request : pc[i] \in Statement) =>
    \E i \in Request : pc[i] \in Statement /\ ~Waits(i)

NeverStuck ==
  /\ NoCircularWait
  /\ \A i \in Request : pc[i] \in Statement => (ENABLED Step(i) <=> ~Waits(i))

-----------------------------------------------------------------------------
(* Which statements an operation executes. *)
StatementFits ==
  \A i \in Request :
    /\ pc[i] = "lockCase" => Is(i, {"assign", "comment", "resolve"})
    /\ pc[i] = "lockAlert" => Is(i, {"create", "close", "resolve"})
    /\ pc[i] \in {"exists", "insert"} => Is(i, {"create"})

(* A row lock has one holder. *)
OneHolder ==
  \A i, j \in Request : i # j /\ A(i) = A(j) =>
    /\ ~(HoldsCase(i) /\ HoldsCase(j))
    /\ ~(HoldsAlert(i) /\ HoldsAlert(j))

(* The inductive invariant. *)
InvestigationsInv ==
  /\ TypeOK
  /\ StatementFits
  /\ OneHolder
  /\ ChecksHold
  /\ CaseRaceNeverFails
=============================================================================
