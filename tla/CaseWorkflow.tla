---------------------------- MODULE CaseWorkflow ----------------------------
(***************************************************************************)
(* Alerts and their investigation cases as the in-memory repository keeps  *)
(* them: every operation is one step under the repository's mutex.  It is  *)
(* the specification that the PostgreSQL repository (Investigations) has   *)
(* to meet.  An alert has at most one case, so the case is named by its    *)
(* alert.                                                                  *)
(***************************************************************************)
EXTENDS Naturals, Sequences

CONSTANTS Alert

VARIABLES
  alert,     \* "open" or "closed"
  case,      \* "none", "open", "in_progress" or "resolved"
  comments,  \* number of comments of the case
  trail      \* audit events of the alert and its case, oldest first

tables == <<alert, case, comments, trail>>

Init ==
  /\ alert = [a \in Alert |-> "open"]
  /\ case = [a \in Alert |-> "none"]
  /\ comments = [a \in Alert |-> 0]
  /\ trail = [a \in Alert |-> <<>>]

Log(a, events) == trail' = [trail EXCEPT ![a] = @ \o events]

CreateCase(a) ==
  /\ alert[a] = "open"
  /\ case[a] = "none"
  /\ case' = [case EXCEPT ![a] = "open"]
  /\ Log(a, <<"case.created">>)
  /\ UNCHANGED <<alert, comments>>

AssignCase(a) ==
  /\ case[a] \in {"open", "in_progress"}
  /\ case' = [case EXCEPT ![a] = "in_progress"]
  /\ Log(a, <<"case.assigned">>)
  /\ UNCHANGED <<alert, comments>>

AddCaseComment(a) ==
  /\ case[a] \in {"open", "in_progress"}
  /\ comments' = [comments EXCEPT ![a] = @ + 1]
  /\ Log(a, <<"case.comment_added">>)
  /\ UNCHANGED <<alert, case>>

ResolveCase(a) ==
  /\ case[a] \in {"open", "in_progress"}
  /\ alert[a] = "open"
  /\ case' = [case EXCEPT ![a] = "resolved"]
  /\ alert' = [alert EXCEPT ![a] = "closed"]
  /\ Log(a, <<"case.resolved", "alert.closed">>)
  /\ UNCHANGED comments

CloseAlert(a) ==
  /\ alert[a] = "open"
  /\ alert' = [alert EXCEPT ![a] = "closed"]
  /\ Log(a, <<"alert.closed">>)
  /\ UNCHANGED <<case, comments>>

Perform(op, a) ==
  \/ op = "create" /\ CreateCase(a)
  \/ op = "assign" /\ AssignCase(a)
  \/ op = "comment" /\ AddCaseComment(a)
  \/ op = "resolve" /\ ResolveCase(a)
  \/ op = "close" /\ CloseAlert(a)

Op == {"create", "assign", "comment", "resolve", "close"}

Next == \E op \in Op, a \in Alert : Perform(op, a)

Spec == Init /\ [][Next]_tables
=============================================================================
