------------------------ MODULE InvestigationsProofs ------------------------
(***************************************************************************)
(* The requests of the PostgreSQL repository have the effect of atomic     *)
(* operations, for any number of requests and alerts.                      *)
(***************************************************************************)
EXTENDS Investigations, FiniteSetTheorems, TLAPS

(* No request is open and no row is locked at the start. *)
LEMMA InitHolds == Init => InvestigationsInv
<1> SUFFICES ASSUME Init PROVE InvestigationsInv
  OBVIOUS
<1> USE DEF Init, Atomic!Init
<1>1. TypeOK
  BY DEF TypeOK
<1>2. StatementFits /\ OneHolder /\ CaseRaceNeverFails
  BY DEF StatementFits, OneHolder, HoldsCase, HoldsAlert, CaseRaceNeverFails
<1>3. ChecksHold
  BY DEF ChecksHold, HoldsCase, HoldsAlert
<1> QED
  BY <1>1, <1>2, <1>3 DEF InvestigationsInv

(* A statement that takes locks, or none, and writes nothing yet. *)
LEMMA StatementStep ==
  ASSUME InvestigationsInv, NEW i \in Request, NEW step \in {"lockCase", "lockAlert", "exists", "insert", "commit"},
         GoTo(i, step),
         StatementFits',
         ~HoldsCase(i) /\ HoldsCase(i)' => CaseIsFree(i) /\ case[A(i)] \in {"open", "in_progress"},
         ~HoldsAlert(i) /\ HoldsAlert(i)' => AlertIsFree(i) /\ alert[A(i)] = "open",
         step \in {"insert", "commit"} /\ Is(i, {"create"}) => case[A(i)] = "none"
  PROVE  InvestigationsInv'
<1> USE DEF InvestigationsInv, GoTo, tables, A, Is
<1>1. TypeOK'
  BY DEF TypeOK, Statement
<1>2. /\ UNCHANGED <<req, answer, case, alert>>
      /\ \A j \in Request \ {i} : pc'[j] = pc[j]
      /\ pc'[i] = step
  BY DEF TypeOK
<1>3. \A j \in Request \ {i} : (HoldsCase(j)' <=> HoldsCase(j)) /\ (HoldsAlert(j)' <=> HoldsAlert(j))
  BY <1>2 DEF HoldsCase, HoldsAlert
<1>4. OneHolder'
  BY <1>2, <1>3 DEF OneHolder, CaseIsFree, AlertIsFree
<1>5. ChecksHold'
  BY <1>2, <1>3 DEF ChecksHold
<1>6. CaseRaceNeverFails'
  BY <1>2 DEF CaseRaceNeverFails
<1> QED
  BY <1>1, <1>4, <1>5, <1>6

(* A request that ends without effect. *)
LEMMA RollbackStep ==
  ASSUME InvestigationsInv, NEW i \in Request,
         NEW result \in {"case_not_found", "case_conflict", "alert_not_found", "alert_conflict",
                         "alert_has_case", "internal_error"},
         Rollback(i, result)
  PROVE  InvestigationsInv'
<1> USE DEF InvestigationsInv, Rollback, End, tables, A, Is
<1>1. TypeOK'
  BY DEF TypeOK
<1>2. /\ UNCHANGED <<req, case, alert>>
      /\ \A j \in Request \ {i} : pc'[j] = pc[j] /\ answer'[j] = answer[j]
      /\ pc'[i] = "done" /\ answer'[i] = result
  BY DEF TypeOK
<1>3. /\ \A j \in Request \ {i} : (HoldsCase(j)' <=> HoldsCase(j)) /\ (HoldsAlert(j)' <=> HoldsAlert(j))
      /\ ~HoldsCase(i)' /\ ~HoldsAlert(i)'
  BY <1>2 DEF HoldsCase, HoldsAlert
<1>4. StatementFits' /\ CaseRaceNeverFails'
  BY <1>2 DEF StatementFits, CaseRaceNeverFails
<1>5. OneHolder'
  BY <1>2, <1>3 DEF OneHolder
<1>6. ChecksHold'
  BY <1>2, <1>3 DEF ChecksHold
<1> QED
  BY <1>1, <1>4, <1>5, <1>6

(* A request commits: since it holds its locks, the operation is possible  *)
(* on the tables as they are.                                              *)
LEMMA ApplyIsAtomic ==
  ASSUME InvestigationsInv, NEW i \in Request, pc[i] = "commit", Apply(i)
  PROVE  Atomic!Next
<1> DEFINE a == A(i)
           op == req[i].op
<1> USE DEF InvestigationsInv
<1>1. a \in Alert /\ op \in Atomic!Op
  BY OperationsAssumption DEF TypeOK, A, Atomic!Op
<1>2. /\ op \in {"assign", "comment", "resolve"} => case[a] \in {"open", "in_progress"}
      /\ op \in {"create", "resolve", "close"} => alert[a] = "open"
      /\ op = "create" => case[a] = "none"
  BY DEF ChecksHold, HoldsCase, HoldsAlert, Is
<1>3. /\ case' = [case EXCEPT ![a] = CaseAfter(op, case[a])]
      /\ alert' = [alert EXCEPT ![a] = IF op \in {"resolve", "close"} THEN "closed" ELSE alert[a]]
      /\ comments' = [comments EXCEPT ![a] = IF op = "comment" THEN comments[a] + 1 ELSE comments[a]]
      /\ trail' = [trail EXCEPT ![a] = trail[a] \o Events(op)]
  BY DEF Apply
<1>4. Atomic!Perform(op, a)
  <2> HIDE DEF a, op
  <2> USE <1>1, <1>2, <1>3 DEF CaseAfter, Events, Atomic!Log, TypeOK
  <2>1. CASE op = "create"
    BY <2>1 DEF Atomic!Perform, Atomic!CreateCase
  <2>2. CASE op = "assign"
    BY <2>2 DEF Atomic!Perform, Atomic!AssignCase
  <2>3. CASE op = "comment"
    BY <2>3 DEF Atomic!Perform, Atomic!AddCaseComment
  <2>4. CASE op = "resolve"
    BY <2>4 DEF Atomic!Perform, Atomic!ResolveCase
  <2>5. CASE op = "close"
    BY <2>5 DEF Atomic!Perform, Atomic!CloseAlert
  <2> QED
    BY <2>1, <2>2, <2>3, <2>4, <2>5 DEF Atomic!Op
<1> QED
  BY <1>1, <1>4 DEF Atomic!Next

(* What a request writes at its commit is well typed. *)
LEMMA ApplyKeepsTypes ==
  ASSUME InvestigationsInv, NEW i \in Request, Apply(i)
  PROVE  /\ alert' \in [Alert -> {"open", "closed"}]
         /\ case' \in [Alert -> {"none", "open", "in_progress", "resolved"}]
         /\ comments' \in [Alert -> Nat]
         /\ trail' \in [Alert -> Seq(CaseEvents \union {"alert.closed"})]
<1> USE DEF InvestigationsInv, Apply, A
<1>0. A(i) \in Alert /\ req[i].op \in Atomic!Op
  BY OperationsAssumption DEF TypeOK, Atomic!Op
<1> DEFINE E == CaseEvents \union {"alert.closed"}
<1>1. Events(req[i].op) \in Seq(E)
  <2>1. \A x, y \in E : <<x>> \in Seq(E) /\ <<x, y>> \in Seq(E)
    OBVIOUS
  <2>2. {"case.created", "case.assigned", "case.comment_added", "case.resolved", "alert.closed"} = E
    BY DEF CaseEvents
  <2> HIDE DEF E
  <2> QED
    BY <1>0, <2>1, <2>2 DEF Events, Atomic!Op
<1> HIDE DEF E
<1>2. \A s, t \in Seq(E) : s \o t \in Seq(E)
  OBVIOUS
<1>3. trail' \in [Alert -> Seq(E)]
  BY <1>0, <1>1, <1>2 DEF TypeOK, E
<1>4. case' \in [Alert -> {"none", "open", "in_progress", "resolved"}]
  BY <1>0 DEF TypeOK, CaseAfter, Atomic!Op
<1>5. alert' \in [Alert -> {"open", "closed"}] /\ comments' \in [Alert -> Nat]
  BY <1>0 DEF TypeOK
<1> QED
  BY <1>3, <1>4, <1>5 DEF E

(* A commit keeps the locks and the other requests' reads valid. *)
LEMMA CommitStep ==
  ASSUME InvestigationsInv, NEW i \in Request, NEW result \in {"ok", "internal_error"},
         pc[i] = "commit", Apply(i), End(i, result)
  PROVE  InvestigationsInv'
<1> USE DEF InvestigationsInv, A, Is
<1>1. TypeOK'
  BY ApplyKeepsTypes DEF TypeOK, End
<1>2. /\ UNCHANGED req
      /\ \A j \in Request \ {i} : pc'[j] = pc[j] /\ answer'[j] = answer[j]
      /\ pc'[i] = "done" /\ answer'[i] = result
  BY DEF TypeOK, End
<1>3. /\ \A j \in Request \ {i} : (HoldsCase(j)' <=> HoldsCase(j)) /\ (HoldsAlert(j)' <=> HoldsAlert(j))
      /\ ~HoldsCase(i)' /\ ~HoldsAlert(i)'
  BY <1>2 DEF HoldsCase, HoldsAlert
<1>4. StatementFits' /\ CaseRaceNeverFails'
  BY <1>2 DEF StatementFits, CaseRaceNeverFails
<1>5. OneHolder'
  BY <1>2, <1>3 DEF OneHolder
<1>6. ChecksHold'
  <2>1. A(i) \in Alert /\ req[i].op \in Atomic!Op
    BY OperationsAssumption DEF TypeOK, Atomic!Op
  <2>2. \A a \in Alert \ {A(i)} : case'[a] = case[a] /\ alert'[a] = alert[a]
    BY DEF Apply, TypeOK
  <2>3. /\ case'[A(i)] = CaseAfter(req[i].op, case[A(i)])
        /\ alert'[A(i)] = IF req[i].op \in {"resolve", "close"} THEN "closed" ELSE alert[A(i)]
    BY <2>1 DEF Apply, TypeOK
  <2>4. \A a \in Alert : case'[a] = "resolved" => alert'[a] = "closed"
    BY <2>1, <2>2, <2>3 DEF ChecksHold, CaseAfter, Atomic!Op
  <2>5. ASSUME NEW j \in Request \ {i}, A(j) = A(i)
        PROVE  /\ HoldsCase(j) => ~HoldsCase(i) /\ case[A(i)] \in {"open", "in_progress"}
               /\ HoldsAlert(j) => ~HoldsAlert(i) /\ alert[A(i)] = "open"
    BY <2>5 DEF OneHolder, ChecksHold
  <2>6. ASSUME NEW j \in Request
        PROVE  /\ HoldsCase(j)' => case'[A(j)] \in {"open", "in_progress"}
               /\ HoldsAlert(j)' => alert'[A(j)] = "open"
               /\ pc'[j] \in {"insert", "commit"} /\ Is(j, {"create"}) => case'[A(j)] = "none"
    <3>1. CASE j = i
      BY <1>2, <1>3, <3>1
    <3>2. CASE j # i /\ A(j) # A(i)
      BY <1>2, <1>3, <2>2, <3>2 DEF ChecksHold, TypeOK
    <3>3. CASE j # i /\ A(j) = A(i)
      <4>1. HoldsCase(j) => req[i].op \in {"create", "close"}
        BY <2>1, <2>5, <3>3 DEF HoldsCase, Atomic!Op
      <4>2. HoldsAlert(j) => req[i].op \in {"assign", "comment"}
        BY <2>1, <2>5, <3>3 DEF HoldsAlert, Atomic!Op
      <4>3. HoldsCase(j) => req[i].op = "close"
        BY <2>5, <3>3, <4>1 DEF ChecksHold
      <4>4. pc[j] \in {"insert", "commit"} /\ Is(j, {"create"}) => HoldsAlert(j) /\ case[A(i)] = "none"
        BY <3>3 DEF HoldsAlert, ChecksHold
      <4>5. ~(HoldsAlert(j) /\ case[A(i)] = "none")
        BY <3>3, <4>2 DEF ChecksHold, HoldsCase
      <4> QED
        BY <1>2, <1>3, <2>3, <2>5, <3>3, <4>2, <4>3, <4>4, <4>5 DEF CaseAfter
    <3> QED
      BY <3>1, <3>2, <3>3
  <2> QED
    BY <1>2, <2>4, <2>6 DEF ChecksHold
<1> QED
  BY <1>1, <1>4, <1>5, <1>6

(* Every step keeps the invariant. *)
LEMMA NextPreserves == InvestigationsInv /\ [Next]_vars => InvestigationsInv'
<1> SUFFICES ASSUME InvestigationsInv, [Next]_vars PROVE InvestigationsInv'
  OBVIOUS
<1> USE DEF InvestigationsInv
<1>op. \A i \in Request : req[i].op \in {"create", "assign", "comment", "resolve", "close"}
  BY OperationsAssumption DEF TypeOK
<1>1. ASSUME NEW i \in Request, Begin(i) PROVE InvestigationsInv'
  <2>1. /\ pc[i] = "idle"
        /\ GoTo(i, IF Is(i, {"create", "close"}) THEN "lockAlert" ELSE "lockCase")
    BY <1>1 DEF Begin
  <2>2. StatementFits'
    BY <1>op, <2>1 DEF StatementFits, GoTo, Is, TypeOK
  <2>3. ~HoldsAlert(i)' /\ ~HoldsCase(i)'
    BY <2>1 DEF HoldsAlert, HoldsCase, GoTo, Is, TypeOK
  <2> QED
    BY <2>1, <2>2, <2>3, StatementStep
<1>2. ASSUME NEW i \in Request, LockCase(i) PROVE InvestigationsInv'
  <2>1. /\ pc[i] = "lockCase" /\ CaseIsFree(i) /\ case[A(i)] \in {"open", "in_progress"}
        /\ GoTo(i, IF Is(i, {"resolve"}) THEN "lockAlert" ELSE "commit")
        /\ Is(i, {"assign", "comment", "resolve"})
    BY <1>2 DEF LockCase, StatementFits
  <2>2. StatementFits'
    BY <2>1 DEF StatementFits, GoTo, Is, TypeOK
  <2>3. ~HoldsAlert(i)'
    BY <2>1 DEF HoldsAlert, GoTo, Is, TypeOK
  <2> QED
    BY <2>1, <2>2, <2>3, StatementStep DEF Is
<1>3. ASSUME NEW i \in Request, caseMutationError(i) PROVE InvestigationsInv'
  BY <1>3, RollbackStep DEF caseMutationError
<1>4. ASSUME NEW i \in Request, LockAlert(i) PROVE InvestigationsInv'
  <2>1. /\ pc[i] = "lockAlert" /\ AlertIsFree(i) /\ alert[A(i)] = "open"
        /\ GoTo(i, IF Is(i, {"create"}) THEN "exists" ELSE "commit")
        /\ Is(i, {"create", "close", "resolve"})
    BY <1>4 DEF LockAlert, StatementFits
  <2>2. StatementFits'
    BY <2>1 DEF StatementFits, GoTo, Is, TypeOK
  <2>3. HoldsCase(i)' => HoldsCase(i)
    BY <2>1 DEF HoldsCase, GoTo, Is, TypeOK
  <2> QED
    BY <2>1, <2>2, <2>3, StatementStep DEF Is
<1>5. ASSUME NEW i \in Request, AlertConflict(i) PROVE InvestigationsInv'
  BY <1>5, RollbackStep DEF AlertConflict
<1>6. ASSUME NEW i \in Request, CaseExists(i) PROVE InvestigationsInv'
  BY <1>6, RollbackStep DEF CaseExists
<1>7. ASSUME NEW i \in Request, NoCaseYet(i) PROVE InvestigationsInv'
  <2>1. pc[i] = "exists" /\ case[A(i)] = "none" /\ GoTo(i, "insert") /\ Is(i, {"create"})
    BY <1>7 DEF NoCaseYet, StatementFits
  <2>2. StatementFits'
    BY <2>1 DEF StatementFits, GoTo, Is, TypeOK
  <2>3. HoldsAlert(i) /\ ~HoldsCase(i)'
    BY <2>1 DEF HoldsAlert, HoldsCase, GoTo, Is
  <2> QED
    BY <2>1, <2>2, <2>3, StatementStep
<1>8. ASSUME NEW i \in Request, InsertCase(i) PROVE InvestigationsInv'
  <2>1. pc[i] = "insert" /\ Is(i, {"create"})
    BY <1>8 DEF InsertCase, StatementFits
  <2>2. case[A(i)] = "none" /\ GoTo(i, "commit")
    BY <1>8, <2>1 DEF InsertCase, ChecksHold
  <2>3. StatementFits'
    BY <2>1, <2>2 DEF StatementFits, GoTo, Is, TypeOK
  <2>4. HoldsAlert(i) /\ ~HoldsCase(i)'
    BY <2>1, <2>2 DEF HoldsAlert, HoldsCase, GoTo, Is
  <2> QED
    BY <2>2, <2>3, <2>4, StatementStep
<1>9. ASSUME NEW i \in Request, Commit(i) \/ CommitUnanswered(i) PROVE InvestigationsInv'
  BY <1>9, CommitStep DEF Commit, CommitUnanswered
<1>10. ASSUME NEW i \in Request, Fail(i) PROVE InvestigationsInv'
  BY <1>10, RollbackStep DEF Fail
<1>11. ASSUME NEW i \in Request, AlertUnknown(i) PROVE InvestigationsInv'
  BY <1>11, RollbackStep DEF AlertUnknown
<1>12. CASE UNCHANGED vars
  BY <1>12 DEF vars, tables, TypeOK, StatementFits, OneHolder, ChecksHold, CaseRaceNeverFails,
     HoldsCase, HoldsAlert, Is, A
<1> QED
  BY <1>1, <1>2, <1>3, <1>4, <1>5, <1>6, <1>7, <1>8, <1>9, <1>10, <1>11, <1>12
     DEF Next, Step, Quiet

(* The inductive invariant holds: locks have one holder, and what a        *)
(* request has checked stays true until it commits.                        *)
THEOREM InvestigationsSafety == Spec => []InvestigationsInv
<1>1. InvestigationsInv /\ [Next]_vars => InvestigationsInv'
  BY NextPreserves
<1> QED
  BY InitHolds, <1>1, PTL DEF Spec

(* Under any interleaving of their statements, requests find at the commit *)
(* what they checked, and a resolved case has a closed alert.              *)
THEOREM LocksProtectChecks == Spec => []ChecksHold
<1>1. InvestigationsInv => ChecksHold
  BY DEF InvestigationsInv
<1> QED
  BY InvestigationsSafety, <1>1, PTL

(* Racing CreateCase requests never run into the unique index of alert_id. *)
THEOREM CreateRaceIsHandled == Spec => []CaseRaceNeverFails
<1>1. InvestigationsInv => CaseRaceNeverFails
  BY DEF InvestigationsInv
<1> QED
  BY InvestigationsSafety, <1>1, PTL

(* Every step of the PostgreSQL repository is one whole operation of the   *)
(* in-memory repository, or changes none of the tables.                    *)
THEOREM InvestigationsImplementWorkflow == Spec => WorkflowSpec
<1>1. Init => Atomic!Init
  BY DEF Init
<1>2. InvestigationsInv /\ [Next]_vars => [Atomic!Next]_(Atomic!tables)
  <2> SUFFICES ASSUME InvestigationsInv, [Next]_vars PROVE Atomic!Next \/ UNCHANGED tables
    BY DEF tables, Atomic!tables
  <2>1. ASSUME NEW i \in Request, Commit(i) \/ CommitUnanswered(i) PROVE Atomic!Next
    BY <2>1, ApplyIsAtomic DEF Commit, CommitUnanswered
  <2>2. ASSUME NEW i \in Request, Begin(i) \/ LockCase(i) \/ LockAlert(i) \/ NoCaseYet(i)
        PROVE  UNCHANGED tables
    BY <2>2 DEF Begin, LockCase, LockAlert, NoCaseYet, GoTo
  <2>3. ASSUME NEW i \in Request,
               caseMutationError(i) \/ AlertConflict(i) \/ CaseExists(i) \/ Fail(i)
                 \/ AlertUnknown(i)
        PROVE  UNCHANGED tables
    BY <2>3 DEF caseMutationError, AlertConflict, CaseExists, Fail, AlertUnknown, Rollback
  <2>4. ASSUME NEW i \in Request, InsertCase(i) PROVE UNCHANGED tables
    BY <2>4 DEF InsertCase, GoTo, Rollback
  <2>5. CASE UNCHANGED vars
    BY <2>5 DEF vars
  <2> QED
    BY <2>1, <2>2, <2>3, <2>4, <2>5 DEF Next, Step, Quiet
<1> QED
  BY <1>1, <1>2, InvestigationsSafety, PTL DEF Spec, WorkflowSpec, Atomic!Spec

(* Every variable keeps its type: cases, alerts and the statements of a    *)
(* request have no states but those of the workflow.                       *)
THEOREM InvestigationsTypeCorrect == Spec => []TypeOK
<1>1. InvestigationsInv => TypeOK
  BY DEF InvestigationsInv
<1> QED
  BY InvestigationsSafety, <1>1, PTL

-----------------------------------------------------------------------------
(* The audit trail *)

Event == CaseEvents \union {"alert.closed"}

LEMMA AppendOne ==
  ASSUME NEW s \in Seq(Event), NEW e \in Event
  PROVE  /\ Len(s \o <<e>>) = Len(s) + 1
         /\ \A n \in 1..Len(s) : (s \o <<e>>)[n] = s[n]
         /\ (s \o <<e>>)[Len(s) + 1] = e
OBVIOUS

LEMMA AppendTwo ==
  ASSUME NEW s \in Seq(Event), NEW d \in Event, NEW e \in Event
  PROVE  /\ Len(s \o <<d, e>>) = Len(s) + 2
         /\ \A n \in 1..Len(s) : (s \o <<d, e>>)[n] = s[n]
         /\ (s \o <<d, e>>)[Len(s) + 1] = d
         /\ (s \o <<d, e>>)[Len(s) + 2] = e
OBVIOUS

(* What happened before is not changed by what is added. *)
LEMMA OldEvents ==
  ASSUME TypeOK, TypeOK', NEW a \in Alert, TrailExplains(a),
         Len(trail'[a]) >= Len(trail[a]),
         \A n \in 1..Len(trail[a]) : trail'[a][n] = trail[a][n]
  PROVE  /\ \A n \in 1..Len(trail[a]) + 1, e \in Event : Before(a, n, e)' <=> Before(a, n, e)
         /\ \A n \in 1..Len(trail[a]) : EventInOrder(a, n)'
<1> DEFINE L == Len(trail[a])
<1>0. L \in Nat /\ Len(trail'[a]) \in Nat
  BY DEF TypeOK
<1>1. \A n \in 1..L + 1, e \in Event : Before(a, n, e)' <=> Before(a, n, e)
  BY <1>0 DEF Before
<1>2. ASSUME NEW n \in 1..L PROVE EventInOrder(a, n)'
  <2>1. EventInOrder(a, n)
    BY DEF TrailExplains
  <2>2. \A e \in Event : Before(a, n, e)' <=> Before(a, n, e)
    BY <1>0, <1>1
  <2>3. trail'[a][n] = trail[a][n] /\ (n < L => trail'[a][n + 1] = trail[a][n + 1])
    BY <1>0
  <2> QED
    BY <1>0, <2>1, <2>2, <2>3 DEF EventInOrder, Event, CaseEvents
<1> QED
  BY <1>1, <1>2

LEMMA CommentsCountable ==
  ASSUME TypeOK, NEW a \in Alert
  PROVE  IsFiniteSet(CommentEvents(a)) /\ Len(trail[a]) \in Nat
<1>1. Len(trail[a]) \in Nat
  BY DEF TypeOK
<1>2. IsFiniteSet(1..Len(trail[a]))
  BY <1>1, FS_Interval
<1>3. CommentEvents(a) \subseteq 1..Len(trail[a])
  BY DEF CommentEvents
<1> QED
  BY <1>1, <1>2, <1>3, FS_Subset

(* One event is added that the tables allow. *)
LEMMA OneEventAdded ==
  ASSUME TypeOK, TypeOK', NEW a \in Alert, TrailExplains(a), NEW e \in Event,
         trail'[a] = trail[a] \o <<e>>,
         e # "case.resolved",
         e = "case.created" => case[a] = "none" /\ alert[a] = "open",
         e \in {"case.assigned", "case.comment_added"} => case[a] \in {"open", "in_progress"},
         e = "alert.closed" => alert[a] = "open"
  PROVE  /\ \A n \in 1..Len(trail'[a]) : EventInOrder(a, n)'
         /\ \A x \in Event : Has(a, x)' <=> Has(a, x) \/ x = e
         /\ Cardinality(CommentEvents(a)') =
              Cardinality(CommentEvents(a)) + (IF e = "case.comment_added" THEN 1 ELSE 0)
<1>0. PICK k \in Nat : k = Len(trail[a])
  BY DEF TypeOK
<1>1. /\ Len(trail'[a]) = k + 1
      /\ \A n \in 1..k : trail'[a][n] = trail[a][n]
      /\ trail'[a][k + 1] = e
  <2>1. trail[a] \in Seq(Event)
    BY DEF TypeOK, Event
  <2> QED
    BY <1>0, <2>1, AppendOne
<1>n. \A n \in 1..k + 1 : n \in 1..k \/ n = k + 1
  OBVIOUS
<1>2. /\ \A n \in 1..k + 1, x \in Event : Before(a, n, x)' <=> Before(a, n, x)
      /\ \A n \in 1..k : EventInOrder(a, n)'
  <2>1. Len(trail'[a]) >= Len(trail[a])
    BY <1>0, <1>1
  <2> QED
    BY <1>0, <1>1, <2>1, OldEvents
<1>3. \A x \in Event : Before(a, k + 1, x)' <=> Has(a, x)
  <2>1. k + 1 \in 1..k + 1
    OBVIOUS
  <2> QED
    BY <1>0, <1>2, <2>1 DEF Has
<1>4. EventInOrder(a, k + 1)'
  <2>1. /\ e = "case.created" => ~Has(a, "case.created") /\ ~Has(a, "alert.closed")
        /\ e \in CaseEvents \ {"case.created"} => Has(a, "case.created")
        /\ e \in CaseEvents => ~Has(a, "case.resolved")
        /\ e = "alert.closed" => ~Has(a, "alert.closed")
    BY DEF TrailExplains, CaseEvents
  <2>2. \A x \in {"case.created", "case.resolved", "alert.closed"} :
          Before(a, k + 1, x)' <=> Has(a, x)
    BY <1>3 DEF Event, CaseEvents
  <2> QED
    BY <1>1, <2>1, <2>2 DEF EventInOrder
<1>5. ASSUME NEW x \in Event PROVE Has(a, x)' <=> Has(a, x) \/ x = e
  <2>1. Has(a, x)' <=> \E m \in 1..k + 1 : trail'[a][m] = x
    <3>1. 1..(k + 1 + 1) - 1 = 1..k + 1
      OBVIOUS
    <3> QED
      BY <1>1, <3>1 DEF Has, Before
  <2>2. Has(a, x) <=> \E m \in 1..k : trail[a][m] = x
    BY <1>0 DEF Has, Before
  <2> QED
    BY <1>n, <1>1, <2>1, <2>2
<1>6. Cardinality(CommentEvents(a)') =
        Cardinality(CommentEvents(a)) + (IF e = "case.comment_added" THEN 1 ELSE 0)
  <2>1. IsFiniteSet(CommentEvents(a)) /\ k + 1 \notin CommentEvents(a)
    BY <1>0, CommentsCountable DEF CommentEvents
  <2>2. CASE e = "case.comment_added"
    <3>1. CommentEvents(a)' = CommentEvents(a) \union {k + 1}
      BY <1>0, <1>1, <2>2 DEF CommentEvents
    <3>2. Cardinality(CommentEvents(a) \union {k + 1}) = Cardinality(CommentEvents(a)) + 1
      BY <2>1, FS_AddElement
    <3> QED
      BY <2>2, <3>1, <3>2
  <2>3. CASE e # "case.comment_added"
    <3>1. CommentEvents(a)' = CommentEvents(a)
      BY <1>0, <1>1, <2>3 DEF CommentEvents
    <3>2. Cardinality(CommentEvents(a)) \in Nat
      BY <2>1, FS_CardinalityType
    <3> QED
      BY <2>3, <3>1, <3>2
  <2> QED
    BY <2>2, <2>3
<1>7. \A n \in 1..Len(trail'[a]) : EventInOrder(a, n)'
  BY <1>n, <1>1, <1>2, <1>4
<1> QED
  BY <1>5, <1>6, <1>7

(* ResolveCase adds two: the resolution and the closing of the alert. *)
LEMMA ResolutionAdded ==
  ASSUME TypeOK, TypeOK', NEW a \in Alert, TrailExplains(a),
         trail'[a] = trail[a] \o <<"case.resolved", "alert.closed">>,
         case[a] \in {"open", "in_progress"}, alert[a] = "open"
  PROVE  /\ \A n \in 1..Len(trail'[a]) : EventInOrder(a, n)'
         /\ \A x \in Event : Has(a, x)' <=> Has(a, x) \/ x \in {"case.resolved", "alert.closed"}
         /\ CommentEvents(a)' = CommentEvents(a)
<1>0. PICK k \in Nat : k = Len(trail[a])
  BY DEF TypeOK
<1>1. /\ Len(trail'[a]) = k + 2
      /\ \A n \in 1..k : trail'[a][n] = trail[a][n]
      /\ trail'[a][k + 1] = "case.resolved"
      /\ trail'[a][k + 2] = "alert.closed"
  <2>1. trail[a] \in Seq(Event) /\ "case.resolved" \in Event /\ "alert.closed" \in Event
    BY DEF TypeOK, Event, CaseEvents
  <2> QED
    BY <1>0, <2>1, AppendTwo
<1>n. /\ \A n \in 1..k + 1 : n \in 1..k \/ n = k + 1
      /\ \A n \in 1..k + 2 : n \in 1..k \/ n = k + 1 \/ n = k + 2
      /\ k + 1 \in 1..k + 2 /\ k + 2 \in 1..k + 2
  OBVIOUS
<1>h. ASSUME NEW x \in Event PROVE Has(a, x) <=> \E m \in 1..k : trail[a][m] = x
  <2>1. 1..(k + 1) - 1 = 1..k
    OBVIOUS
  <2> QED
    BY <1>0, <2>1 DEF Has, Before
<1>t. /\ ~Has(a, "alert.closed") /\ Has(a, "case.created") /\ ~Has(a, "case.resolved")
      /\ {"alert.closed", "case.created", "case.resolved"} \subseteq Event
  BY DEF TrailExplains, Event, CaseEvents
<1>2. /\ \A n \in 1..k + 1, x \in Event : Before(a, n, x)' <=> Before(a, n, x)
      /\ \A n \in 1..k : EventInOrder(a, n)'
  <2>1. Len(trail'[a]) >= Len(trail[a])
    BY <1>0, <1>1
  <2> QED
    BY <1>0, <1>1, <2>1, OldEvents
<1>3. \A x \in Event : Before(a, k + 1, x)' <=> Has(a, x)
  <2>1. k + 1 \in 1..k + 1
    OBVIOUS
  <2> QED
    BY <1>0, <1>2, <2>1 DEF Has
<1>4. EventInOrder(a, k + 1)'
  <2>1. Before(a, k + 1, "case.created")' /\ ~Before(a, k + 1, "case.resolved")'
    BY <1>3, <1>t
  <2>2. k + 1 < Len(trail'[a]) /\ trail'[a][(k + 1) + 1] = "alert.closed"
    <3>1. k + 1 < k + 2 /\ (k + 1) + 1 = k + 2
      OBVIOUS
    <3> QED
      BY <1>1, <3>1
  <2> QED
    BY <1>1, <2>1, <2>2 DEF EventInOrder
<1>5. ASSUME NEW x \in Event PROVE Before(a, k + 2, x)' <=> Has(a, x) \/ x = "case.resolved"
  <2>1. Before(a, k + 2, x)' <=> \E m \in 1..k + 1 : trail'[a][m] = x
    <3>1. 1..(k + 2) - 1 = 1..k + 1
      OBVIOUS
    <3> QED
      BY <3>1 DEF Before
  <2> QED
    BY <1>n, <1>1, <1>h, <2>1
<1>6. EventInOrder(a, k + 2)'
  <2>1. ~Before(a, k + 2, "alert.closed")'
    BY <1>5, <1>t
  <2> QED
    BY <1>1, <2>1 DEF EventInOrder, CaseEvents
<1>7. ASSUME NEW x \in Event
      PROVE  Has(a, x)' <=> Has(a, x) \/ x \in {"case.resolved", "alert.closed"}
  <2>1. Has(a, x)' <=> \E m \in 1..k + 2 : trail'[a][m] = x
    <3>1. 1..(k + 2 + 1) - 1 = 1..k + 2
      OBVIOUS
    <3> QED
      BY <1>1, <3>1 DEF Has, Before
  <2>2. \A m \in 1..k : m \in 1..k + 2
    OBVIOUS
  <2> QED
    BY <1>n, <1>1, <1>h, <2>1, <2>2
<1>8. CommentEvents(a)' = CommentEvents(a)
  BY <1>0, <1>1 DEF CommentEvents
<1>9. \A n \in 1..Len(trail'[a]) : EventInOrder(a, n)'
  BY <1>n, <1>1, <1>2, <1>4, <1>6
<1> QED
  BY <1>7, <1>8, <1>9

(* Where nothing was written, nothing is to be explained. *)
LEMMA OtherTrails ==
  ASSUME NEW b \in Alert, TrailExplains(b), trail'[b] = trail[b],
         case'[b] = case[b], alert'[b] = alert[b], comments'[b] = comments[b]
  PROVE  TrailExplains(b)'
<1>1. \A n, e : Before(b, n, e)' <=> Before(b, n, e)
  BY DEF Before
<1>2. \A n : EventInOrder(b, n)' <=> EventInOrder(b, n)
  BY <1>1 DEF EventInOrder
<1>3. \A e : Has(b, e)' <=> Has(b, e)
  BY DEF Has, Before
<1>4. CommentEvents(b)' = CommentEvents(b)
  BY DEF CommentEvents
<1> QED
  BY <1>2, <1>3, <1>4 DEF TrailExplains

(* An operation of the workflow leaves the trail and the tables of other   *)
(* alerts alone and keeps those of its own alert in step.                  *)
LEMMA OperationKeepsTrail ==
  ASSUME TypeOK, TypeOK', TrailExplainsTables, NEW a \in Alert,
         NEW op \in Atomic!Op, Atomic!Perform(op, a)
  PROVE  TrailExplainsTables'
<1> USE DEF Atomic!Perform, Atomic!Log
<1>1. ASSUME NEW b \in Alert, b # a PROVE TrailExplains(b)'
  <2>1. /\ trail'[b] = trail[b] /\ case'[b] = case[b] /\ alert'[b] = alert[b]
        /\ comments'[b] = comments[b]
    BY <1>1 DEF TypeOK, Atomic!CreateCase, Atomic!AssignCase, Atomic!AddCaseComment,
                Atomic!ResolveCase, Atomic!CloseAlert
  <2>2. TrailExplains(b)
    BY DEF TrailExplainsTables
  <2> QED
    BY <2>1, <2>2, OtherTrails
<1>2. TrailExplains(a)'
  <2>0. /\ TrailExplains(a) /\ CaseEvents \subseteq Event /\ "alert.closed" \in Event
        /\ {"case.created", "case.assigned", "case.comment_added", "case.resolved"} = CaseEvents
    BY DEF TrailExplainsTables, Event, CaseEvents
  <2>c. Cardinality(CommentEvents(a)) \in Nat
    BY CommentsCountable, FS_CardinalityType
  <2>1. CASE op = "create"
    <3>1. /\ trail'[a] = trail[a] \o <<"case.created">> /\ case[a] = "none" /\ alert[a] = "open"
          /\ case'[a] = "open" /\ alert'[a] = "open" /\ comments'[a] = comments[a]
      BY <2>1 DEF TypeOK, Atomic!CreateCase
    <3> QED
      BY <2>0, <2>c, <3>1, OneEventAdded DEF TrailExplains
  <2>2. CASE op = "assign"
    <3>1. /\ trail'[a] = trail[a] \o <<"case.assigned">> /\ case[a] \in {"open", "in_progress"}
          /\ case'[a] = "in_progress" /\ alert'[a] = alert[a] /\ comments'[a] = comments[a]
      BY <2>2 DEF TypeOK, Atomic!AssignCase
    <3> QED
      BY <2>0, <2>c, <3>1, OneEventAdded DEF TrailExplains
  <2>3. CASE op = "comment"
    <3>1. /\ trail'[a] = trail[a] \o <<"case.comment_added">> /\ case[a] \in {"open", "in_progress"}
          /\ case'[a] = case[a] /\ alert'[a] = alert[a] /\ comments'[a] = comments[a] + 1
      BY <2>3 DEF TypeOK, Atomic!AddCaseComment
    <3>2. /\ \A n \in 1..Len(trail'[a]) : EventInOrder(a, n)'
          /\ \A x \in Event : Has(a, x)' <=> Has(a, x) \/ x = "case.comment_added"
          /\ Cardinality(CommentEvents(a)') = Cardinality(CommentEvents(a)) + 1
      BY <2>0, <3>1, OneEventAdded
    <3>3. \A x \in {"alert.closed", "case.created", "case.resolved"} : Has(a, x)' <=> Has(a, x)
      BY <2>0, <3>2
    <3>4. comments[a] = Cardinality(CommentEvents(a))
      BY <2>0 DEF TrailExplains
    <3>5. comments'[a] = Cardinality(CommentEvents(a)')
      BY <3>1, <3>2, <3>4
    <3> QED
      BY <2>0, <3>1, <3>2, <3>3, <3>5 DEF TrailExplains
  <2>4. CASE op = "resolve"
    <3>1. /\ trail'[a] = trail[a] \o <<"case.resolved", "alert.closed">>
          /\ case[a] \in {"open", "in_progress"} /\ alert[a] = "open"
          /\ case'[a] = "resolved" /\ alert'[a] = "closed" /\ comments'[a] = comments[a]
      BY <2>4 DEF TypeOK, Atomic!ResolveCase
    <3> QED
      BY <2>0, <3>1, ResolutionAdded DEF TrailExplains
  <2>5. CASE op = "close"
    <3>1. /\ trail'[a] = trail[a] \o <<"alert.closed">> /\ alert[a] = "open"
          /\ case'[a] = case[a] /\ alert'[a] = "closed" /\ comments'[a] = comments[a]
      BY <2>5 DEF TypeOK, Atomic!CloseAlert
    <3>2. /\ \A n \in 1..Len(trail'[a]) : EventInOrder(a, n)'
          /\ \A x \in Event : Has(a, x)' <=> Has(a, x) \/ x = "alert.closed"
          /\ Cardinality(CommentEvents(a)') = Cardinality(CommentEvents(a)) + 0
      BY <2>0, <3>1, OneEventAdded
    <3>3. /\ Has(a, "case.created")' <=> Has(a, "case.created")
          /\ Has(a, "case.resolved")' <=> Has(a, "case.resolved")
          /\ Has(a, "alert.closed")'
      BY <2>0, <3>2
    <3>4. comments'[a] = Cardinality(CommentEvents(a)')
      BY <2>0, <2>c, <3>1, <3>2 DEF TrailExplains
    <3> QED
      BY <2>0, <3>1, <3>2, <3>3, <3>4 DEF TrailExplains
  <2> QED
    BY <2>1, <2>2, <2>3, <2>4, <2>5 DEF Atomic!Op
<1> QED
  BY <1>1, <1>2 DEF TrailExplainsTables

(* The audit trail explains the tables after any interleaving of requests: *)
(* since every commit is one operation of the workflow, the order in which *)
(* events may follow one another is that of the workflow.                  *)
THEOREM TrailStaysTrue == Spec => []TrailExplainsTables
<1>1. Init => TrailExplainsTables
  <2> SUFFICES ASSUME Init, NEW a \in Alert PROVE TrailExplains(a)
    BY DEF TrailExplainsTables
  <2>1. /\ trail[a] = <<>> /\ case[a] = "none" /\ alert[a] = "open" /\ comments[a] = 0
    BY DEF Init, Atomic!Init
  <2>2. CommentEvents(a) = {} /\ Len(trail[a]) = 0
    BY <2>1 DEF CommentEvents
  <2>3. Cardinality(CommentEvents(a)) = 0
    BY <2>2, FS_EmptySet
  <2>4. \A e : ~Has(a, e)
    BY <2>2 DEF Has, Before
  <2> QED
    BY <2>1, <2>2, <2>3, <2>4 DEF TrailExplains
<1>2. ASSUME TypeOK, TypeOK', TrailExplainsTables, [Atomic!Next]_(Atomic!tables)
      PROVE  TrailExplainsTables'
  <2>1. CASE Atomic!Next
    BY <1>2, <2>1, OperationKeepsTrail DEF Atomic!Next
  <2>2. CASE UNCHANGED Atomic!tables
    <3>1. trail' = trail /\ case' = case /\ alert' = alert /\ comments' = comments
      BY <2>2 DEF Atomic!tables
    <3>2. ASSUME NEW b \in Alert PROVE TrailExplains(b)'
      <4>1. TrailExplains(b)
        BY <1>2 DEF TrailExplainsTables
      <4> QED
        BY <3>1, <4>1, OtherTrails
    <3> QED
      BY <3>2 DEF TrailExplainsTables
  <2> QED
    BY <1>2, <2>1, <2>2
<1>3. TypeOK /\ TypeOK' /\ TrailExplainsTables /\ [Atomic!Next]_(Atomic!tables)
        => TrailExplainsTables'
  BY <1>2
<1> QED
  BY <1>1, <1>3, InvestigationsTypeCorrect, InvestigationsImplementWorkflow, PTL
     DEF Spec, WorkflowSpec, Atomic!Spec

-----------------------------------------------------------------------------
(* The answers *)

(* The workflow never goes back. *)
LEMMA WorkflowGoesForward ==
  ASSUME TypeOK, [Atomic!Next]_(Atomic!tables), NEW a \in Alert
  PROVE  /\ case[a] # "none" => case'[a] # "none"
         /\ case[a] \in {"in_progress", "resolved"} => case'[a] \in {"in_progress", "resolved"}
         /\ case[a] = "resolved" => case'[a] = "resolved"
         /\ alert[a] = "closed" => alert'[a] = "closed"
         /\ comments[a] > 0 => comments'[a] > 0
<1>1. ASSUME NEW op \in Atomic!Op, NEW b \in Alert, Atomic!Perform(op, b)
      PROVE  /\ case[a] # "none" => case'[a] # "none"
             /\ case[a] \in {"in_progress", "resolved"} => case'[a] \in {"in_progress", "resolved"}
             /\ case[a] = "resolved" => case'[a] = "resolved"
             /\ alert[a] = "closed" => alert'[a] = "closed"
             /\ comments[a] > 0 => comments'[a] > 0
  <2> USE DEF TypeOK
  <2>1. CASE Atomic!CreateCase(b)
    BY <2>1 DEF Atomic!CreateCase
  <2>2. CASE Atomic!AssignCase(b)
    BY <2>2 DEF Atomic!AssignCase
  <2>3. CASE Atomic!AddCaseComment(b)
    BY <2>3 DEF Atomic!AddCaseComment
  <2>4. CASE Atomic!ResolveCase(b)
    BY <2>4 DEF Atomic!ResolveCase
  <2>5. CASE Atomic!CloseAlert(b)
    BY <2>5 DEF Atomic!CloseAlert
  <2> QED
    BY <1>1, <2>1, <2>2, <2>3, <2>4, <2>5 DEF Atomic!Perform
<1>2. CASE UNCHANGED Atomic!tables
  BY <1>2 DEF Atomic!tables
<1> QED
  BY <1>1, <1>2 DEF Atomic!Next

(* Answers given earlier stay true; it is enough to look at the request    *)
(* that is answered.                                                       *)
LEMMA OneAnswerGiven ==
  ASSUME InvestigationsInv, InvestigationsInv', AnswersTrue, [Atomic!Next]_(Atomic!tables),
         NEW i \in Request, UNCHANGED req,
         \A j \in Request \ {i} : answer'[j] = answer[j],
         AnswerIsTrue(i)',
         answer'[i] = "ok" => /\ Is(i, {"create"}) => case[A(i)] = "none"
                              /\ Is(i, {"resolve", "close"}) => alert[A(i)] = "open"
  PROVE  AnswersTrue'
<1>1. \A j \in Request : A(j) \in Alert /\ A(j)' = A(j) /\ \A ops : Is(j, ops)' <=> Is(j, ops)
  BY DEF InvestigationsInv, TypeOK, A, Is
<1>2. ASSUME NEW j \in Request \ {i} PROVE AnswerIsTrue(j)'
  <2>1. AnswerIsTrue(j)
    BY DEF AnswersTrue
  <2>2. /\ case[A(j)] # "none" => case'[A(j)] # "none"
        /\ case[A(j)] \in {"in_progress", "resolved"} => case'[A(j)] \in {"in_progress", "resolved"}
        /\ case[A(j)] = "resolved" => case'[A(j)] = "resolved"
        /\ alert[A(j)] = "closed" => alert'[A(j)] = "closed"
        /\ comments[A(j)] > 0 => comments'[A(j)] > 0
    BY <1>1, WorkflowGoesForward DEF InvestigationsInv
  <2>3. answer'[j] = answer[j]
    OBVIOUS
  <2> QED
    BY <1>1, <2>1, <2>2, <2>3 DEF AnswerIsTrue
<1>3. ASSUME NEW j \in Request, NEW k \in Request, j # k, A(j)' = A(k)',
             answer'[j] = "ok", answer'[k] = "ok"
      PROVE  /\ ~(Is(j, {"create"})' /\ Is(k, {"create"})')
             /\ ~(Is(j, {"resolve", "close"})' /\ Is(k, {"resolve", "close"})')
  <2>1. A(j) = A(k)
    BY <1>1, <1>3
  <2>2. ASSUME NEW x \in Request \ {i}, A(x) = A(i), answer'[x] = "ok", answer'[i] = "ok"
        PROVE  /\ ~(Is(x, {"create"}) /\ Is(i, {"create"}))
               /\ ~(Is(x, {"resolve", "close"}) /\ Is(i, {"resolve", "close"}))
    <3>1. AnswerIsTrue(x) /\ answer[x] = "ok"
      BY <2>2 DEF AnswersTrue
    <3>2. /\ Is(x, {"create"}) => case[A(x)] # "none"
          /\ Is(x, {"resolve", "close"}) => alert[A(x)] = "closed"
      BY <3>1 DEF AnswerIsTrue
    <3>3. /\ Is(i, {"create"}) => case[A(i)] = "none"
          /\ Is(i, {"resolve", "close"}) => alert[A(i)] = "open"
      BY <2>2
    <3> QED
      BY <2>2, <3>2, <3>3
  <2>3. CASE j # i /\ k # i
    BY <1>1, <1>3, <2>1, <2>3 DEF AnswersTrue, OneWinner
  <2>4. CASE j = i \/ k = i
    BY <1>1, <1>3, <2>1, <2>2, <2>4
  <2> QED
    BY <2>3, <2>4
<1>4. OneWinner'
  BY <1>3 DEF OneWinner
<1>5. CaseRaceNeverFails'
  BY DEF InvestigationsInv
<1> QED
  BY <1>2, <1>4, <1>5 DEF AnswersTrue

LEMMA AnswersPreserved ==
  ASSUME InvestigationsInv, InvestigationsInv', AnswersTrue, [Next]_vars,
         [Atomic!Next]_(Atomic!tables)
  PROVE  AnswersTrue'
<1> USE DEF InvestigationsInv
<1>1. ASSUME NEW i \in Request, NEW result, Rollback(i, result),
             result \in {"case_not_found", "case_conflict", "alert_not_found", "alert_conflict",
                         "alert_has_case", "internal_error"},
             result = "alert_has_case" => case[A(i)] # "none",
             result = "case_conflict" => case[A(i)] = "resolved",
             result = "alert_conflict" => alert[A(i)] = "closed"
      PROVE  AnswersTrue'
  <2>1. /\ UNCHANGED <<req, case, alert, comments>> /\ answer'[i] = result
        /\ \A j \in Request \ {i} : answer'[j] = answer[j]
    BY <1>1 DEF Rollback, End, tables, TypeOK
  <2>2. AnswerIsTrue(i)'
    BY <1>1, <2>1 DEF AnswerIsTrue, A
  <2> QED
    BY <1>1, <2>1, <2>2, OneAnswerGiven
<1>2. ASSUME NEW i \in Request, NEW result \in {"ok", "internal_error"},
             pc[i] = "commit", Apply(i), End(i, result)
      PROVE  AnswersTrue'
  <2>0. A(i) \in Alert /\ A(i)' = A(i) /\ \A ops : Is(i, ops)' <=> Is(i, ops)
    BY <1>2 DEF End, TypeOK, A, Is
  <2>1. /\ UNCHANGED req /\ answer'[i] = result
        /\ \A j \in Request \ {i} : answer'[j] = answer[j]
    BY <1>2 DEF End, TypeOK
  <2>2. /\ Is(i, {"create"}) => case[A(i)] = "none"
        /\ Is(i, {"resolve", "close"}) => alert[A(i)] = "open"
    BY <1>2 DEF ChecksHold, HoldsAlert, Is
  <2>3. /\ case'[A(i)] = CaseAfter(req[i].op, case[A(i)])
        /\ alert'[A(i)] = IF req[i].op \in {"resolve", "close"} THEN "closed" ELSE alert[A(i)]
        /\ comments'[A(i)] = IF req[i].op = "comment" THEN comments[A(i)] + 1 ELSE comments[A(i)]
    BY <1>2, <2>0 DEF Apply, TypeOK
  <2>4. comments[A(i)] \in Nat
    BY <2>0 DEF TypeOK
  <2>5. AnswerIsTrue(i)'
    <3>1. /\ Is(i, {"create"}) => case'[A(i)] = "open"
          /\ Is(i, {"assign"}) => case'[A(i)] = "in_progress"
          /\ Is(i, {"resolve"}) => case'[A(i)] = "resolved"
          /\ Is(i, {"resolve", "close"}) => alert'[A(i)] = "closed"
          /\ Is(i, {"comment"}) => comments'[A(i)] > 0
      BY <2>3, <2>4 DEF Is, CaseAfter
    <3> QED
      BY <2>0, <2>1, <3>1 DEF AnswerIsTrue
  <2> QED
    BY <2>1, <2>2, <2>5, OneAnswerGiven
<1>3. ASSUME UNCHANGED <<req, answer, case, alert, comments>> PROVE AnswersTrue'
  BY <1>3 DEF AnswersTrue, CaseRaceNeverFails, AnswerIsTrue, OneWinner, A, Is
<1>4. ASSUME NEW i \in Request, Begin(i) \/ LockCase(i) \/ LockAlert(i) \/ NoCaseYet(i)
      PROVE  AnswersTrue'
  BY <1>3, <1>4 DEF Begin, LockCase, LockAlert, NoCaseYet, GoTo, tables
<1>5. ASSUME NEW i \in Request, InsertCase(i) PROVE AnswersTrue'
  <2>1. case[A(i)] = "none"
    BY <1>5 DEF InsertCase, ChecksHold, StatementFits
  <2> QED
    BY <1>3, <1>5, <2>1 DEF InsertCase, GoTo, tables
<1>6. ASSUME NEW i \in Request,
             AlertUnknown(i) \/ AlertConflict(i) \/ CaseExists(i) \/ Fail(i)
      PROVE  AnswersTrue'
  BY <1>1, <1>6 DEF AlertUnknown, AlertConflict, CaseExists, Fail
<1>7. ASSUME NEW i \in Request, caseMutationError(i) PROVE AnswersTrue'
  BY <1>1, <1>7 DEF caseMutationError
<1>8. ASSUME NEW i \in Request, Commit(i) \/ CommitUnanswered(i) PROVE AnswersTrue'
  BY <1>2, <1>8 DEF Commit, CommitUnanswered
<1>9. CASE UNCHANGED vars
  BY <1>3, <1>9 DEF vars, tables
<1> QED
  BY <1>4, <1>5, <1>6, <1>7, <1>8, <1>9 DEF Next, Step, Quiet

(* Clients can rely on their answers for ever: an operation that was       *)
(* answered with ok is never undone or overwritten, and of the analysts    *)
(* who open one case or close one alert at once, one is told so.           *)
THEOREM AnswersStayTrue == Spec => []AnswersTrue
<1>1. Init => AnswersTrue
  BY DEF Init, AnswersTrue, CaseRaceNeverFails, AnswerIsTrue, OneWinner
<1>2. /\ InvestigationsInv /\ InvestigationsInv' /\ AnswersTrue
      /\ [Next]_vars /\ [Atomic!Next]_(Atomic!tables)
      => AnswersTrue'
  BY AnswersPreserved
<1> QED
  BY <1>1, <1>2, InvestigationsSafety, InvestigationsImplementWorkflow, PTL
     DEF Spec, WorkflowSpec, Atomic!Spec

-----------------------------------------------------------------------------
(* The waits of requests for each other end with a request that waits for  *)
(* nobody: whoever waits for a case waits for a request that goes on to    *)
(* the alert, and whoever has locked the alert waits for nothing more.     *)
THEOREM InvestigationsHaveNoDeadlock == Spec => []NoCircularWait
<1>1. ASSUME TypeOK, NEW i \in Request, pc[i] \in Statement
      PROVE  \E j \in Request : pc[j] \in Statement /\ ~Waits(j)
  <2> USE DEF Waits, Statement
  <2>1. CASE \E j \in Request : pc[j] \in {"commit", "exists"}
    BY <2>1
  <2>2. CASE /\ ~\E j \in Request : pc[j] \in {"commit", "exists"}
             /\ \E j \in Request : pc[j] = "insert"
    BY <2>2 DEF Inserted
  <2>3. CASE /\ ~\E j \in Request : pc[j] \in {"commit", "exists", "insert"}
             /\ \E j \in Request : pc[j] = "lockAlert"
    BY <2>3 DEF AlertIsFree, HoldsAlert
  <2>4. CASE ~\E j \in Request : pc[j] \in {"commit", "exists", "insert", "lockAlert"}
    BY <1>1, <2>4 DEF CaseIsFree, HoldsCase
  <2> QED
    BY <2>1, <2>2, <2>3, <2>4
<1>2. TypeOK => NoCircularWait
  BY <1>1 DEF NoCircularWait
<1> QED
  BY <1>2, InvestigationsTypeCorrect, PTL
=============================================================================
