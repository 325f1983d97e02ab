-------------------------- MODULE OnboardingProofs --------------------------
(***************************************************************************)
(* Onboarding and review keep the four-eyes principle, the references and  *)
(* the order of risk for any number of requests, actors and customers.     *)
(***************************************************************************)
EXTENDS Onboarding, SequenceTheorems, TLAPS

-----------------------------------------------------------------------------
(* The risk engine *)

(* No rule of Assess gives fewer points for a worse factor. *)
LEMMA ScoreMonotone ==
  ASSUME NEW f \in RiskFactors, NEW g \in RiskFactors, AtLeastAsRisky(g, f)
  PROVE  /\ Score(f) \in Nat
         /\ Score(g) \in Nat
         /\ Score(g) >= Score(f)
<1>1. \A k \in Flag \ {"SourceOfFundsVerified"} : k \in f.flags => k \in g.flags
  BY DEF AtLeastAsRisky, Bad, Flag
<1>2. "SourceOfFundsVerified" \in g.flags => "SourceOfFundsVerified" \in f.flags
  BY DEF AtLeastAsRisky, Bad, Flag, RiskFactors
<1>3. Points(f.country = "high", 35) + Points(f.country = "medium", 15)
        <= Points(g.country = "high", 35) + Points(g.country = "medium", 15)
  BY DEF AtLeastAsRisky, Level, RiskFactors, Points
<1> QED
  BY <1>1, <1>2, <1>3 DEF Score, Points, Flag

(* The engine is monotone: when every factor of g is at least as bad as    *)
(* that of f, then g's score is no lower, nor are its rating and the due   *)
(* diligence it gets.  Points, bands and the sanctions override agree.     *)
THEOREM AssessMonotone ==
  ASSUME NEW f \in RiskFactors, NEW g \in RiskFactors, AtLeastAsRisky(g, f)
  PROVE  NoLower(Assess(g), Assess(f))
<1>1. /\ Score(f) \in Nat
      /\ Score(g) \in Nat
      /\ Score(g) >= Score(f)
  BY ScoreMonotone
<1>2. "SanctionsPotentialMatch" \in f.flags => "SanctionsPotentialMatch" \in g.flags
  BY DEF AtLeastAsRisky, Bad
<1>3. Level[Rating(g)] >= Level[Rating(f)]
  BY <1>1, <1>2 DEF Rating, Level
<1>4. Level[DueDiligence(g)] >= Level[DueDiligence(f)]
  BY <1>1, <1>2 DEF DueDiligence, Level
<1> QED
  BY <1>1, <1>3, <1>4 DEF NoLower, Assess

-----------------------------------------------------------------------------
(* Requests and reviews *)

(* Appending an event to one trail. *)
LEMMA AppendEvent ==
  ASSUME NEW E, NEW t \in [Request -> Seq(E)], NEW e \in E, NEW c \in Request
  PROVE  [t EXCEPT ![c] = Append(@, e)] \in [Request -> Seq(E)]
  OBVIOUS

(* The audit trail of a reviewed customer. *)
LEMMA AppendToOne == ASSUME NEW a, NEW e PROVE Append(<<a>>, e) = <<a, e>>
<1>1. <<a>> \in Seq({a, e}) /\ Len(<<a>>) = 1 /\ <<a>>[1] = a
  OBVIOUS
<1>2. /\ Append(<<a>>, e) \in Seq({a, e})
      /\ Len(Append(<<a>>, e)) = 2
      /\ Append(<<a>>, e)[1] = a
      /\ Append(<<a>>, e)[2] = e
  BY <1>1
<1>3. /\ <<a, e>> \in Seq({a, e})
      /\ Len(<<a, e>>) = 2
      /\ <<a, e>>[1] = a
      /\ <<a, e>>[2] = e
  OBVIOUS
<1> DEFINE s == Append(<<a>>, e)
           t == <<a, e>>
<1> HIDE DEF s, t
<1>4. /\ s \in Seq({a, e}) /\ t \in Seq({a, e})
      /\ Len(s) = Len(t)
      /\ \A i \in 1..Len(s) : s[i] = t[i]
  BY <1>2, <1>3 DEF s, t
<1>5. s = t
  BY <1>4, SeqEqual
<1> QED
  BY <1>5 DEF s, t

(* No customer is stored and no request is open at the start. *)
LEMMA InitHolds == Init => OnboardingInv
<1> SUFFICES ASSUME Init PROVE OnboardingInv
  OBVIOUS
<1> USE DEF Init, NoRow
<1>1. TypeOK
  BY DEF TypeOK, Status, Row
<1>2. StepFitsRequest /\ RowFromRequest /\ CheckedStays /\ RefReserved
  BY DEF StepFitsRequest, RowFromRequest, CheckedStays, Reviewing, RefReserved, Inserted
<1>3. MakerChecker /\ OkIsTrue /\ RefsUnique
  BY DEF MakerChecker, TrailOf, OkIsTrue, RefsUnique
<1> QED
  BY <1>1, <1>2, <1>3 DEF OnboardingInv

(* A step that neither writes a row nor starts to: the request moves on to *)
(* a statement that it may execute, or ends with an error.                 *)
LEMMA QuietStep ==
  ASSUME OnboardingInv, NEW i \in Request,
         pc[i] # "done",
         UNCHANGED <<req, target, tables>>,
         \/ pc' = [pc EXCEPT ![i] = "insert"] /\ IsCustomer(i) /\ UNCHANGED answer
         \/ pc' = [pc EXCEPT ![i] = "inspect"] /\ req[i].op \in Review /\ UNCHANGED answer
         \/ /\ pc' = [pc EXCEPT ![i] = "done"]
            /\ \E e \in {"unique_violation", "maker_checker_violation", "review_conflict",
                         "customer_not_found", "internal_error"} : answer' = [answer EXCEPT ![i] = e]
  PROVE  OnboardingInv'
<1> USE DEF OnboardingInv, tables
<1>1. TypeOK'
  <2>1. pc' \in [Request -> {"idle", "insert", "update", "inspect", "commit", "done"}]
    BY DEF TypeOK
  <2>2. answer' \in [Request -> {"none", "ok", "unique_violation", "maker_checker_violation",
                                "review_conflict", "customer_not_found", "internal_error"}]
    BY DEF TypeOK
  <2> QED
    BY <2>1, <2>2 DEF TypeOK
<1>2. StepFitsRequest'
  BY DEF StepFitsRequest, TypeOK, Review, Evidence, IsCustomer
<1>3. RowFromRequest'
  BY DEF RowFromRequest, TypeOK, IsCustomer
<1>4. CheckedStays'
  BY DEF CheckedStays, Reviewing, Reviewable, IsCustomer, TypeOK
<1>5. RefReserved'
  BY DEF RefReserved, SameRef, Inserted, TypeOK
<1>6. MakerChecker'
  BY DEF MakerChecker, IsCustomer, TrailOf, SubmittedBy, DecidedBy
<1>7. OkIsTrue'
  BY DEF OkIsTrue, TypeOK
<1>8. RefsUnique'
  BY DEF RefsUnique, SameRef
<1> QED
  BY <1>1, <1>2, <1>3, <1>4, <1>5, <1>6, <1>7, <1>8

(* The INSERT found the reference free. *)
LEMMA InsertStep ==
  ASSUME OnboardingInv, NEW i \in Request, InsertRow(i)
  PROVE  OnboardingInv'
<1> USE DEF OnboardingInv, InsertRow, GoTo, tables
<1>0. req[i].op \notin Review /\ pc[i] # "done"
  BY DEF StepFitsRequest
<1>1. TypeOK'
  BY DEF TypeOK
<1>2. StepFitsRequest' /\ RowFromRequest'
  BY <1>0 DEF StepFitsRequest, RowFromRequest, TypeOK, Review, IsCustomer, Evidence
<1>4. CheckedStays'
  BY <1>0 DEF CheckedStays, Reviewing, Reviewable, IsCustomer, TypeOK, Review
<1>5. RefReserved'
  BY <1>0 DEF RefReserved, SameRef, Inserted, TypeOK
<1>6. MakerChecker' /\ OkIsTrue' /\ RefsUnique'
  BY DEF MakerChecker, IsCustomer, TrailOf, SubmittedBy, DecidedBy, OkIsTrue, RefsUnique, SameRef
<1> QED
  BY <1>1, <1>2, <1>4, <1>5, <1>6

(* The UPDATE matched the row and has locked it. *)
LEMMA UpdateStep ==
  ASSUME OnboardingInv, NEW i \in Request, UpdateRow(i)
  PROVE  OnboardingInv'
<1> USE DEF OnboardingInv, UpdateRow, GoTo, tables
<1>0. req[i].op \in Review /\ pc[i] # "done"
  BY DEF StepFitsRequest
<1>1. TypeOK'
  BY DEF TypeOK
<1>2. StepFitsRequest' /\ RowFromRequest'
  BY <1>0 DEF StepFitsRequest, RowFromRequest, TypeOK, Review, IsCustomer, Evidence
<1>4. CheckedStays'
  BY <1>0 DEF CheckedStays, Reviewing, RowIsFree, Reviewable, IsCustomer, TypeOK
<1>5. RefReserved'
  BY <1>0 DEF RefReserved, SameRef, Inserted, TypeOK, Review
<1>6. MakerChecker' /\ OkIsTrue' /\ RefsUnique'
  BY DEF MakerChecker, IsCustomer, TrailOf, SubmittedBy, DecidedBy, OkIsTrue, RefsUnique, SameRef
<1> QED
  BY <1>1, <1>2, <1>4, <1>5, <1>6

(* A review of a row that exists, or a submission of evidence, begins. *)
LEMMA ReviewStep ==
  ASSUME OnboardingInv, NEW i \in Request, NEW c \in Request, ReviewRow(i, c) \/ AddEvidence(i, c)
  PROVE  OnboardingInv'
<1> USE DEF OnboardingInv, tables
<1>0. PICK step \in {"insert", "update"} :
        /\ pc[i] = "idle" /\ row[c].status # "none"
        /\ req[i].op \in IF step = "insert" THEN Evidence ELSE Review
        /\ target' = [target EXCEPT ![i] = c]
        /\ pc' = [pc EXCEPT ![i] = step]
        /\ UNCHANGED <<req, answer, row, trail>>
  BY DEF ReviewRow, AddEvidence
<1>1. TypeOK'
  BY <1>0 DEF TypeOK
<1>2. StepFitsRequest'
  BY <1>0 DEF StepFitsRequest, TypeOK, Review, Evidence
<1>3. RowFromRequest'
  BY <1>0 DEF RowFromRequest, TypeOK, IsCustomer
<1>4. CheckedStays'
  BY <1>0 DEF CheckedStays, Reviewing, Reviewable, IsCustomer, TypeOK
<1>5. RefReserved'
  BY <1>0 DEF RefReserved, SameRef, Inserted, TypeOK
<1>6. MakerChecker' /\ RefsUnique'
  BY <1>0 DEF MakerChecker, IsCustomer, TrailOf, SubmittedBy, DecidedBy, RefsUnique, SameRef
<1>7. OkIsTrue'
  BY <1>0 DEF OkIsTrue, TypeOK, StepFitsRequest
<1> QED
  BY <1>1, <1>2, <1>3, <1>4, <1>5, <1>6, <1>7

(* The transaction of a submission commits. *)
LEMMA CommitSubmission ==
  ASSUME OnboardingInv, NEW i \in Request, NEW result \in {"ok", "internal_error"},
         pc[i] = "commit", Apply(i), End(i, result), req[i].op \notin Review
  PROVE  OnboardingInv'
<1> DEFINE new == [status |-> "pending", by |-> req[i].actor, reviewer |-> NoActor,
                   risk |-> IF IsCustomer(i) THEN Assess(req[i].factors) ELSE NoRisk]
           event == [type |-> "submitted", actor |-> req[i].actor]
<1> USE DEF OnboardingInv
<1>0. /\ row' = [row EXCEPT ![i] = new]
      /\ trail' = [trail EXCEPT ![i] = Append(@, event)]
      /\ pc' = [pc EXCEPT ![i] = "done"]
      /\ answer' = [answer EXCEPT ![i] = result]
      /\ UNCHANGED <<req, target>>
  BY DEF Apply, End, Log
<1>a. /\ req[i].actor \in Actor
      /\ IsCustomer(i) => req[i].factors \in Factors
      /\ IsCustomer(i) \/ req[i].op \in Evidence
  BY DEF TypeOK, Requests, Review, Evidence, IsCustomer
<1>b. row[i].status = "none" /\ trail[i] = <<>>
  BY DEF RowFromRequest, MakerChecker, TrailOf
<1>1. TypeOK'
  <2>1. new \in Row
    BY <1>a DEF Status, Row
  <2>2. event \in [type : EventType, actor : Actor]
    BY <1>a DEF EventType
  <2> HIDE DEF new, event
  <2>3. row' \in [Request -> Row]
    BY <1>0, <2>1 DEF TypeOK
  <2>4. trail' \in [Request -> Seq([type : EventType, actor : Actor])]
    BY <1>0, <2>2, AppendEvent DEF TypeOK
  <2>5. /\ pc' \in [Request -> {"idle", "insert", "update", "inspect", "commit", "done"}]
        /\ answer' \in [Request -> {"none", "ok", "unique_violation",
                                   "maker_checker_violation", "review_conflict",
                                   "customer_not_found", "internal_error"}]
    BY <1>0 DEF TypeOK
  <2> QED
    BY <1>0, <2>3, <2>4, <2>5 DEF TypeOK
<1>2. StepFitsRequest'
  BY <1>0 DEF StepFitsRequest, TypeOK
<1>3. RowFromRequest'
  BY <1>0, <1>a DEF RowFromRequest, TypeOK, IsCustomer
<1>4. CheckedStays'
  BY <1>0, <1>b DEF CheckedStays, Reviewing, Reviewable, IsCustomer, TypeOK, Review
<1>5. RefReserved'
  BY <1>0 DEF RefReserved, SameRef, Inserted, TypeOK
<1>6. MakerChecker'
  <2>1. trail'[i] = <<event>>
    BY <1>0, <1>b DEF TypeOK
  <2>2. \A c \in Request \ {i} : row'[c] = row[c] /\ trail'[c] = trail[c]
    BY <1>0 DEF TypeOK
  <2>3. row'[i] = new
    BY <1>0 DEF TypeOK
  <2>4. /\ row'[i].status \in {"approved", "rejected"} =>
             row'[i].reviewer \in Actor /\ (IsCustomer(i) => row'[i].reviewer # row'[i].by)
        /\ trail'[i] = TrailOf(i)'
    BY <2>1, <2>3 DEF TrailOf, SubmittedBy, DecidedBy
  <2>5. \A d \in Request \ {i} : TrailOf(d)' = TrailOf(d)
    BY <2>2 DEF TrailOf, SubmittedBy, DecidedBy
  <2> QED
    BY <1>0, <2>2, <2>4, <2>5 DEF MakerChecker, IsCustomer
<1>7. OkIsTrue'
  <2> SUFFICES ASSUME NEW j \in Request, answer'[j] = "ok"
               PROVE  IF req[j].op \in Review
                        THEN /\ row'[target[j]].reviewer = req[j].actor
                             /\ row'[target[j]].status =
                                  IF req[j].op = "approve" THEN "approved" ELSE "rejected"
                        ELSE /\ row'[j].by = req[j].actor
                             /\ req[j].op \in Evidence => row'[target[j]].status # "none"
    BY <1>0 DEF OkIsTrue
  <2>0. target[j] \in Request
    BY DEF TypeOK
  <2>1. row'[i] = new /\ \A d \in Request \ {i} : row'[d] = row[d]
    BY <1>0 DEF TypeOK
  <2>2. new.by = req[i].actor /\ new.status # "none"
    OBVIOUS
  <2> HIDE DEF new
  <2>3. CASE j = i
    BY <1>b, <2>0, <2>1, <2>2, <2>3 DEF StepFitsRequest
  <2>4. CASE j # i
    <3>1. answer[j] = "ok"
      BY <1>0, <2>4 DEF TypeOK
    <3> QED BY <1>b, <2>0, <2>1, <2>2, <2>4, <3>1 DEF OkIsTrue
  <2> QED BY <2>3, <2>4
<1>8. RefsUnique'
  BY <1>0 DEF RefsUnique, RefReserved, SameRef, Inserted, TypeOK
<1> QED
  BY <1>1, <1>2, <1>3, <1>4, <1>5, <1>6, <1>7, <1>8

(* The transaction of a review commits. *)
LEMMA CommitReview ==
  ASSUME OnboardingInv, NEW i \in Request, NEW result \in {"ok", "internal_error"},
         pc[i] = "commit", Apply(i), End(i, result), req[i].op \in Review,
         NEW c \in Request, c = target[i]
  PROVE  OnboardingInv'
<1> DEFINE approved == req[i].op = "approve"
           new == [status |-> IF approved THEN "approved" ELSE "rejected",
                   by |-> row[c].by, reviewer |-> req[i].actor,
                   risk |-> row[c].risk]
           event == [type |-> IF approved THEN "approved" ELSE "rejected",
                     actor |-> req[i].actor]
<1> USE DEF OnboardingInv
<1>a. /\ req[i].actor \in Actor
      /\ req[i].op \in Review
  BY DEF TypeOK, Requests
<1>0. /\ row' = [row EXCEPT ![c] = new]
      /\ trail' = [trail EXCEPT ![c] = Append(@, event)]
      /\ pc' = [pc EXCEPT ![i] = "done"]
      /\ answer' = [answer EXCEPT ![i] = result]
      /\ UNCHANGED <<req, target>>
  BY <1>a DEF Apply, End, Log, TypeOK
<1>b. /\ row[c].status = "pending"
      /\ IsCustomer(c) => row[c].by # req[i].actor
      /\ \A j \in Request \ {i} : Reviewing(j) => target[j] # c
  BY <1>a DEF CheckedStays, Reviewing, Reviewable
<1>c. trail[c] = <<SubmittedBy(c)>>
  BY <1>a, <1>b DEF MakerChecker, TrailOf
<1>1. TypeOK'
  <2>1. new \in Row
    BY <1>a DEF Status, TypeOK, Row
  <2>2. event \in [type : EventType, actor : Actor]
    BY <1>a DEF EventType
  <2> HIDE DEF new, event
  <2>3. row' \in [Request -> Row]
    BY <1>0, <1>a, <2>1 DEF TypeOK
  <2>4. trail' \in [Request -> Seq([type : EventType, actor : Actor])]
    BY <1>0, <1>a, <2>2, AppendEvent DEF TypeOK
  <2>5. /\ pc' \in [Request -> {"idle", "insert", "update", "inspect", "commit", "done"}]
        /\ answer' \in [Request -> {"none", "ok", "unique_violation",
                                   "maker_checker_violation", "review_conflict",
                                   "customer_not_found", "internal_error"}]
    BY <1>0 DEF TypeOK
  <2> QED
    BY <1>0, <2>3, <2>4, <2>5 DEF TypeOK
<1>2. StepFitsRequest'
  BY <1>0 DEF StepFitsRequest, TypeOK
<1>3. RowFromRequest'
  BY <1>0, <1>a, <1>b DEF RowFromRequest, TypeOK, IsCustomer
<1>4. CheckedStays'
  BY <1>0, <1>a, <1>b DEF CheckedStays, Reviewing, Reviewable, IsCustomer, TypeOK
<1>5. RefReserved'
  BY <1>0, <1>a, <1>b DEF RefReserved, SameRef, Inserted, TypeOK
<1>6. MakerChecker'
  <2>1. trail'[c] = <<SubmittedBy(c), event>>
    <3>1. trail'[c] = Append(trail[c], event)
      BY <1>0, <1>a DEF TypeOK
    <3> QED
      BY <1>c, <3>1, AppendToOne
  <2>2. \A d \in Request \ {c} : row'[d] = row[d] /\ trail'[d] = trail[d]
    BY <1>0 DEF TypeOK
  <2>3. row'[c] = new
    BY <1>0, <1>a DEF TypeOK
  <2>4. /\ row'[c].status \in {"approved", "rejected"} =>
             row'[c].reviewer \in Actor /\ (IsCustomer(c) => row'[c].reviewer # row'[c].by)
        /\ trail'[c] = TrailOf(c)'
    BY <1>a, <1>b, <2>1, <2>3 DEF TrailOf, SubmittedBy, DecidedBy
  <2>5. \A d \in Request \ {c} : TrailOf(d)' = TrailOf(d)
    BY <2>2 DEF TrailOf, SubmittedBy, DecidedBy
  <2> QED
    BY <1>0, <2>2, <2>4, <2>5 DEF MakerChecker, IsCustomer
<1>7. OkIsTrue'
  BY <1>0, <1>a, <1>b DEF OkIsTrue, TypeOK, Review
<1>8. RefsUnique'
  BY <1>0, <1>a, <1>b DEF RefsUnique, SameRef, TypeOK
<1> QED
  BY <1>1, <1>2, <1>3, <1>4, <1>5, <1>6, <1>7, <1>8

(* Every step keeps the invariant. *)
LEMMA NextPreserves == OnboardingInv /\ [Next]_vars => OnboardingInv'
<1> SUFFICES ASSUME OnboardingInv, [Next]_vars PROVE OnboardingInv'
  OBVIOUS
<1>1. ASSUME NEW i \in Request, Onboard(i) PROVE OnboardingInv'
  BY <1>1, QuietStep DEF Onboard, GoTo, IsCustomer
<1>2. ASSUME NEW i \in Request, InsertRow(i) PROVE OnboardingInv'
  BY <1>2, InsertStep
<1>3. ASSUME NEW i \in Request, RefInUse(i) PROVE OnboardingInv'
  BY <1>3, QuietStep DEF RefInUse, Rollback, End
<1>4. ASSUME NEW i \in Request, NEW c \in Request, ReviewRow(i, c) \/ AddEvidence(i, c)
      PROVE  OnboardingInv'
  BY <1>4, ReviewStep
<1>5. ASSUME NEW i \in Request, UpdateRow(i) \/ NothingUpdated(i) PROVE OnboardingInv'
  <2>1. CASE UpdateRow(i)
    BY <2>1, UpdateStep
  <2>2. CASE NothingUpdated(i)
    <3>1. req[i].op \in Review
      BY <2>2 DEF NothingUpdated, OnboardingInv, StepFitsRequest
    <3> QED
      BY <2>2, <3>1, QuietStep DEF NothingUpdated, GoTo, Rollback, End
  <2> QED
    BY <1>5, <2>1, <2>2
<1>6. ASSUME NEW i \in Request, InspectCustomer(i) PROVE OnboardingInv'
  BY <1>6, QuietStep DEF InspectCustomer, Rollback, End
<1>7. ASSUME NEW i \in Request, NEW result \in {"ok", "internal_error"},
             pc[i] = "commit", Apply(i), End(i, result)
      PROVE  OnboardingInv'
  <2>1. target[i] \in Request
    BY DEF OnboardingInv, TypeOK
  <2> QED
    BY <1>7, <2>1, CommitSubmission, CommitReview
<1>8. ASSUME NEW i \in Request, Commit(i) \/ CommitUnanswered(i) PROVE OnboardingInv'
  BY <1>7, <1>8 DEF Commit, CommitUnanswered
<1>9. ASSUME NEW i \in Request, Fail(i) PROVE OnboardingInv'
  BY <1>9, QuietStep DEF Fail, Rollback, End
<1>10. ASSUME NEW i \in Request, IdUnknown(i) PROVE OnboardingInv'
  BY <1>10, QuietStep DEF IdUnknown, Rollback, End
<1>11. CASE UNCHANGED vars
  <2> USE <1>11 DEF vars, tables, OnboardingInv
  <2>1. TypeOK' /\ StepFitsRequest' /\ RowFromRequest'
    BY DEF TypeOK, StepFitsRequest, RowFromRequest, IsCustomer
  <2>2. CheckedStays' /\ RefReserved'
    BY DEF CheckedStays, Reviewing, Reviewable, IsCustomer, RefReserved, SameRef, Inserted
  <2>3. MakerChecker' /\ OkIsTrue' /\ RefsUnique'
    BY DEF MakerChecker, IsCustomer, TrailOf, SubmittedBy, DecidedBy, OkIsTrue, RefsUnique, SameRef
  <2> QED
    BY <2>1, <2>2, <2>3
<1> QED
  BY <1>1, <1>2, <1>3, <1>4, <1>5, <1>6, <1>8, <1>9, <1>10, <1>11 DEF Next, Quiet

(* The inductive invariant holds: among others, a customer is decided once *)
(* by somebody other than its maker, every "ok" stays true, and no two     *)
(* customers share an external reference.                                  *)
THEOREM OnboardingSafety == Spec => []OnboardingInv
<1>1. OnboardingInv /\ [Next]_vars => OnboardingInv'
  BY NextPreserves
<1> QED
  BY InitHolds, <1>1, PTL DEF Spec

(* Whichever reviews race, a decided customer has two different people and *)
(* both are in its audit trail.                                            *)
THEOREM FourEyes == Spec => []MakerChecker
<1>1. OnboardingInv => MakerChecker
  BY DEF OnboardingInv
<1> QED
  BY OnboardingSafety, <1>1, PTL

(* What a client was told with "ok" is still so.  *)
THEOREM AnswersStayTrue == Spec => []OkIsTrue
<1>1. OnboardingInv => OkIsTrue
  BY DEF OnboardingInv
<1> QED
  BY OnboardingSafety, <1>1, PTL

(* A submission that is sent again makes no second customer with its       *)
(* external reference.                                                     *)
THEOREM ReferencesStayUnique == Spec => []RefsUnique
<1>1. OnboardingInv => RefsUnique
  BY DEF OnboardingInv
<1> QED
  BY OnboardingSafety, <1>1, PTL

(* The stored assessments order all customers by their risk factors. *)
THEOREM BookIsOrdered == Spec => []RiskOrdered
<1>1. ASSUME OnboardingInv PROVE RiskOrdered
  <2> SUFFICES ASSUME NEW c \in Request, NEW d \in Request,
                      IsCustomer(c), row[c].status # "none",
                      IsCustomer(d), row[d].status # "none",
                      AtLeastAsRisky(req[d].factors, req[c].factors)
               PROVE  NoLower(row[d].risk, row[c].risk)
    BY DEF RiskOrdered
  <2>1. /\ req[c].op = "onboard" /\ row[c].risk = Assess(req[c].factors)
        /\ req[d].op = "onboard" /\ row[d].risk = Assess(req[d].factors)
    BY <1>1 DEF OnboardingInv, RowFromRequest, IsCustomer
  <2>2. req[c].factors \in RiskFactors /\ req[d].factors \in RiskFactors
    BY <1>1, <2>1, OnboardingAssumption DEF OnboardingInv, TypeOK, Requests, Review, Evidence
  <2> QED
    BY <2>1, <2>2, AssessMonotone
<1> QED
  BY OnboardingSafety, <1>1, PTL

(* Every variable keeps its type: among others, a stored assessment is one *)
(* that Assess computes, and every audit event names an actor.             *)
THEOREM OnboardingTypeCorrect == Spec => []TypeOK
<1>1. OnboardingInv => TypeOK
  BY DEF OnboardingInv
<1> QED
  BY OnboardingSafety, <1>1, PTL
=============================================================================
