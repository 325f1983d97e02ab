----------------------------- MODULE Onboarding -----------------------------
(***************************************************************************)
(* Customer onboarding, evidence and reviews in PostgreSQL.                *)
(*                                                                         *)
(* A maker submits a customer, which is assessed and held for approval; a  *)
(* reviewer approves or rejects it.  KYC documents and the matches that a  *)
(* screening found are added to a customer and reviewed in the same way,   *)
(* but no statement compares the reviewer of those with whoever added      *)
(* them.  Every request is one transaction: several reviewers, the maker   *)
(* among them, decide on the same row at the same time, clients send a     *)
(* request again when its answer is lost, and processes end before the     *)
(* commit.  The risk assessment (Risk) is stored with the customer.        *)
(***************************************************************************)
EXTENDS Risk, Sequences

CONSTANTS
  Request,  \* requests; the id of a new row is the request that made it
  Actor,    \* subjects of the tokens
  NoActor,
  Ref,      \* external references
  NoRef,    \* the empty external_ref
  Factors,  \* the risk factors that customers are submitted with
  NoRisk    \* the assessment of a customer that does not exist

ASSUME OnboardingAssumption ==
  /\ NoActor \notin Actor
  /\ NoRef \notin Ref
  /\ Factors \subseteq RiskFactors

VARIABLES
  req,       \* what each request asks for, and who asks
  target,    \* the customer that evidence is about, the row that a review is about
  pc,        \* the next statement of each request
  answer,    \* what its client was told
  row,       \* customers, KYC documents and screening matches, by id
  trail      \* audit events about each row, oldest first

tables == <<row, trail>>
vars == <<req, target, pc, answer, tables>>

(* "document": AddKYCDocument; "match": a screening that found one.        *)
Evidence == {"document", "match"}
Review == {"approve", "reject"}
Requests ==
  [op : {"onboard"}, actor : Actor, ref : Ref \union {NoRef}, factors : Factors]
    \union [op : Evidence \union Review, actor : Actor]

(* "pending" is pending_approval of a customer, pending of a document,     *)
(* potential of a match; "approved" is active, verified, confirmed;        *)
(* "rejected" is rejected, rejected, false_positive.                       *)
NoRow == [status |-> "none", by |-> NoActor, reviewer |-> NoActor, risk |-> NoRisk]
Status == {"none", "pending", "approved", "rejected"}
EventType == {"submitted", "approved", "rejected"}

Row == [status : Status, by : Actor \union {NoActor}, reviewer : Actor \union {NoActor},
        risk : {Assess(f) : f \in Factors} \union {NoRisk}]

TypeOK ==
  /\ req \in [Request -> Requests]
  /\ target \in [Request -> Request]
  /\ pc \in [Request -> {"idle", "insert", "update", "inspect", "commit", "done"}]
  /\ answer \in [Request -> {"none", "ok", "unique_violation", "maker_checker_violation",
                             "review_conflict", "customer_not_found",
                             "internal_error"}]
  /\ row \in [Request -> Row]
  /\ trail \in [Request -> Seq([type : EventType, actor : Actor])]

Init ==
  /\ req \in [Request -> Requests]
  /\ target = [i \in Request |-> i]
  /\ pc = [i \in Request |-> "idle"]
  /\ answer = [i \in Request |-> "none"]
  /\ row = [i \in Request |-> NoRow]
  /\ trail = [i \in Request |-> <<>>]

-----------------------------------------------------------------------------
GoTo(i, step) ==
  /\ pc' = [pc EXCEPT ![i] = step]
  /\ UNCHANGED <<req, target, answer, tables>>

End(i, result) ==
  /\ pc' = [pc EXCEPT ![i] = "done"]
  /\ answer' = [answer EXCEPT ![i] = result]
  /\ UNCHANGED <<req, target>>

Rollback(i, result) == End(i, result) /\ UNCHANGED tables

(* Onboard has validated the command and assessed the customer. *)
Onboard(i) == pc[i] = "idle" /\ req[i].op = "onboard" /\ GoTo(i, "insert")

(* A document is filed, or a screening run saved, for a customer. *)
AddEvidence(i, c) ==
  /\ pc[i] = "idle"
  /\ req[i].op \in Evidence
  /\ row[c].status # "none"
  /\ req[c].op = "onboard"
  /\ target' = [target EXCEPT ![i] = c]
  /\ pc' = [pc EXCEPT ![i] = "insert"]
  /\ UNCHANGED <<req, answer, tables>>

(* A reviewer decides on a customer, document or match that a list has shown. *)
ReviewRow(i, c) ==
  /\ pc[i] = "idle"
  /\ req[i].op \in Review
  /\ row[c].status # "none"
  /\ target' = [target EXCEPT ![i] = c]
  /\ pc' = [pc EXCEPT ![i] = "update"]
  /\ UNCHANGED <<req, answer, tables>>

(* The id is none of those in the table.  An unknown document or match is  *)
(* a conflict, and filing a document for an unknown customer an internal   *)
(* error.                                                                  *)
IdUnknown(i) ==
  /\ pc[i] = "idle"
  /\ \/ req[i].op \in Review /\ Rollback(i, "customer_not_found")
     \/ req[i].op \in Review /\ Rollback(i, "review_conflict")
     \/ req[i].op = "match" /\ Rollback(i, "customer_not_found")
     \/ req[i].op = "document" /\ Rollback(i, "internal_error")

(* INSERT: external_ref of a customer is unique unless it is empty.  Rows  *)
(* of a running transaction are waited for.                                *)
SameRef(i, j) ==
  /\ i # j
  /\ req[i].op = "onboard" /\ req[j].op = "onboard"
  /\ req[i].ref # NoRef /\ req[i].ref = req[j].ref

Inserted(j) == req[j].op = "onboard" /\ pc[j] = "commit"

(* Mutant of InsertRow: no unique index. *)
InsertRowUnchecked(i) == pc[i] = "insert" /\ GoTo(i, "commit")

InsertRow(i) ==
  /\ pc[i] = "insert"
  /\ \A j \in Request : SameRef(i, j) => row[j].status = "none" /\ ~Inserted(j)
  /\ GoTo(i, "commit")

RefInUse(i) ==
  /\ pc[i] = "insert"
  /\ \E j \in Request : SameRef(i, j) /\ row[j].status # "none"
  /\ Rollback(i, "unique_violation")

(* Mutant of RowIsFree: the status is read without locking the row. *)
NeverWait(i) == TRUE

(* UPDATE ... WHERE status is pending, and for customers AND created_by <> *)
(* the reviewer: evaluated on the committed row once its lock is free.     *)
RowIsFree(i) ==
  \A j \in Request \ {i} : req[j].op \in Review /\ pc[j] = "commit" => target[j] # target[i]

IsCustomer(c) == req[c].op = "onboard"

(* Mutant of Reviewable: without created_by <> the reviewer. *)
ReviewableByAnybody(i) == row[target[i]].status = "pending"

Reviewable(i) ==
  /\ row[target[i]].status = "pending"
  /\ IsCustomer(target[i]) => row[target[i]].by # req[i].actor

UpdateRow(i) ==
  /\ pc[i] = "update"
  /\ RowIsFree(i)
  /\ Reviewable(i)
  /\ GoTo(i, "commit")

(* No row was updated.  For a customer, a SELECT of its own tells why. *)
NothingUpdated(i) ==
  /\ pc[i] = "update"
  /\ RowIsFree(i)
  /\ ~Reviewable(i)
  /\ IF IsCustomer(target[i]) THEN GoTo(i, "inspect") ELSE Rollback(i, "review_conflict")

InspectCustomer(i) ==
  /\ pc[i] = "inspect"
  /\ Rollback(i, IF row[target[i]].by = req[i].actor
                   THEN "maker_checker_violation" ELSE "review_conflict")

(* Mutant of Log: the event does not name the actor. *)
LogWithoutActor(c, type, actor) ==
  trail' = [trail EXCEPT ![c] = Append(@, [type |-> type, actor |-> NoActor])]

Log(c, type, actor) == trail' = [trail EXCEPT ![c] = Append(@, [type |-> type, actor |-> actor])]

(* The audit event is inserted and the transaction commits. *)
Apply(i) ==
  LET actor == req[i].actor
      decision == IF req[i].op = "approve" THEN "approved" ELSE "rejected"
  IN
  IF req[i].op \in Review
    THEN /\ row' = [row EXCEPT ![target[i]] =
                      [status |-> decision, by |-> @.by, reviewer |-> actor, risk |-> @.risk]]
         /\ Log(target[i], decision, actor)
    ELSE /\ row' = [row EXCEPT ![i] =
                      [status |-> "pending", by |-> actor, reviewer |-> NoActor,
                       risk |-> IF IsCustomer(i) THEN Assess(req[i].factors) ELSE NoRisk]]
         /\ Log(i, "submitted", actor)

Commit(i) == pc[i] = "commit" /\ Apply(i) /\ End(i, "ok")

CommitUnanswered(i) == pc[i] = "commit" /\ Apply(i) /\ End(i, "internal_error")

(* A statement fails, the request is cancelled or the process ends. *)
Fail(i) ==
  /\ pc[i] \in {"insert", "update", "inspect", "commit"}
  /\ Rollback(i, "internal_error")

Quiet == (\A i \in Request : pc[i] \in {"idle", "done"}) /\ UNCHANGED vars

Next ==
  \/ \E i \in Request :
       \/ Onboard(i) \/ InsertRow(i) \/ RefInUse(i)
       \/ \E c \in Request : AddEvidence(i, c) \/ ReviewRow(i, c)
       \/ IdUnknown(i) \/ UpdateRow(i) \/ NothingUpdated(i) \/ InspectCustomer(i)
       \/ Commit(i) \/ CommitUnanswered(i) \/ Fail(i)
  \/ Quiet

Spec == Init /\ [][Next]_vars

-----------------------------------------------------------------------------
(* Maker-checker for customers: a customer is decided by somebody other    *)
(* than its maker.  For customers, documents and matches alike: a row is   *)
(* decided once and the audit trail names who submitted and who decided    *)
(* it, whichever reviews race and whichever request failed or was sent     *)
(* again.                                                                  *)
SubmittedBy(c) == [type |-> "submitted", actor |-> row[c].by]
DecidedBy(c) == [type |-> row[c].status, actor |-> row[c].reviewer]

TrailOf(c) ==
  CASE row[c].status = "none" -> <<>>
    [] row[c].status = "pending" -> <<SubmittedBy(c)>>
    [] OTHER -> <<SubmittedBy(c), DecidedBy(c)>>

MakerChecker ==
  \A c \in Request :
    /\ row[c].status \in {"approved", "rejected"} =>
         /\ row[c].reviewer \in Actor
         /\ IsCustomer(c) => row[c].reviewer # row[c].by
    /\ trail[c] = TrailOf(c)

(* "Independently verify or reject KYC evidence" (docs/openapi.yaml:188),  *)
(* "KYC document evidence with independent reviewer verification or        *)
(* rejection" (README.md:56): nobody decides on a document they filed.     *)
IndependentReview ==
  \A c \in Request :
    req[c].op = "document" /\ row[c].status \in {"approved", "rejected"} =>
      row[c].reviewer # row[c].by

(* A client that was told "ok" can rely on it: what it submitted exists,   *)
(* evidence belongs to a customer that exists, and the decision it took is *)
(* the one that stands.                                                    *)
OkIsTrue ==
  \A i \in Request : answer[i] = "ok" =>
    IF req[i].op \in Review
      THEN /\ row[target[i]].reviewer = req[i].actor
           /\ row[target[i]].status = IF req[i].op = "approve" THEN "approved" ELSE "rejected"
      ELSE /\ row[i].by = req[i].actor
           /\ req[i].op \in Evidence => row[target[i]].status # "none"

(* A submission that is sent again, because its answer was lost or the     *)
(* client gave up, does not make a second customer with the same           *)
(* external_ref.                                                           *)
RefsUnique ==
  \A c, d \in Request :
    SameRef(c, d) => row[c].status = "none" \/ row[d].status = "none"

(* The book of customers is ordered by risk: of two customers, the one     *)
(* whose factors are all at least as bad has no lower score, rating or due *)
(* diligence, whatever has been decided about either since.                *)
RiskOrdered ==
  \A c, d \in Request :
    /\ IsCustomer(c) /\ row[c].status # "none"
    /\ IsCustomer(d) /\ row[d].status # "none"
    /\ AtLeastAsRisky(req[d].factors, req[c].factors)
    => NoLower(row[d].risk, row[c].risk)

-----------------------------------------------------------------------------
(* What the statements of a request rely on. *)
StepFitsRequest ==
  \A i \in Request :
    /\ pc[i] = "insert" => req[i].op \notin Review
    /\ pc[i] \in {"update", "inspect"} => req[i].op \in Review
    /\ pc[i] # "done" => answer[i] = "none"
    /\ pc[i] \in {"insert", "commit"} /\ req[i].op \in Evidence => row[target[i]].status # "none"

(* A row is what its request asked for; only the review has changed. *)
RowFromRequest ==
  \A c \in Request : row[c].status # "none" =>
    /\ req[c].op \notin Review
    /\ pc[c] = "done"
    /\ row[c].by = req[c].actor
    /\ IsCustomer(c) => row[c].risk = Assess(req[c].factors)

(* The condition of the UPDATE holds until the commit: the row is locked. *)
Reviewing(i) == req[i].op \in Review /\ pc[i] = "commit"

CheckedStays ==
  \A i \in Request : Reviewing(i) =>
    /\ Reviewable(i)
    /\ \A j \in Request \ {i} : Reviewing(j) => target[j] # target[i]

(* Until the commit, the reference is reserved in the unique index. *)
RefReserved ==
  \A i, j \in Request : SameRef(i, j) /\ Inserted(i) =>
    row[j].status = "none" /\ ~Inserted(j)

(* The inductive invariant. *)
OnboardingInv ==
  /\ TypeOK
  /\ StepFitsRequest
  /\ RowFromRequest
  /\ CheckedStays
  /\ RefReserved
  /\ MakerChecker
  /\ OkIsTrue
  /\ RefsUnique
=============================================================================
