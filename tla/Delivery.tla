------------------------------ MODULE Delivery ------------------------------
(***************************************************************************)
(* Delivery of notifications from the transactional outbox.                *)
(*                                                                         *)
(* A row of notification_outbox is saved together with the screening match *)
(* it reports.  The delivery worker of each replica claims due rows, sends *)
(* them one by one through the channel's sender (webhook or SMTP), and     *)
(* records each outcome.  Sending is a step of its own: between the claim, *)
(* the send and the record, time passes, other replicas run, and the       *)
(* process may end.                                                        *)
(***************************************************************************)
EXTENDS LeasedWork, Backoff

CONSTANTS
  NoJob,         \* no message is being sent
  Unroutable,    \* messages whose channel has no sender: every send fails
  BackoffBase,   \* deliveryBackoff's first delay (one minute)
  BackoffCap,    \* deliveryBackoff's cap (one hour)
  MaxAttempts,   \* bound: attempts that fail because the destination does
  Faults         \* which of "stop", "dbError", "lostReply" happen

ASSUME DeliveryAssumption ==
  /\ NoJob \notin Job
  /\ Unroutable \subseteq Job
  /\ BackoffBase \in Nat /\ BackoffCap \in Nat
  /\ BackoffCap <= MaxDelay
  /\ MaxAge >= MaxSkew + BackoffCap
  /\ MaxAttempts \in Nat
  /\ Faults \subseteq {"stop", "dbError", "lostReply"}

VARIABLES
  status,    \* "absent" before the row exists, then "pending" or "delivered"
  attempts,  \* the attempts column
  seen,      \* attempts of the batch's rows as the claim returned them
  current,   \* the message that was sent and is not yet recorded
  failed,    \* did Send return an error
  accepted   \* how often the destination accepted the message, counted to 2

rowVars == <<status, attempts>>
sendVars == <<seen, current, failed>>
vars == <<leaseVars, rowVars, sendVars, accepted>>

TypeOK ==
  /\ LeaseTypeOK
  /\ status \in [Job -> {"absent", "pending", "delivered"}]
  /\ attempts \in [Job -> Nat]
  /\ seen \in [Worker -> [Job -> Nat]]
  /\ current \in [Worker -> Job \union {NoJob}]
  /\ failed \in [Worker -> BOOLEAN]
  /\ accepted \in [Job -> 0..2]

Init ==
  /\ LeaseInit
  /\ status = [j \in Job |-> "absent"]
  /\ attempts = [j \in Job |-> 0]
  /\ seen = [w \in Worker |-> [j \in Job |-> 0]]
  /\ current = [w \in Worker |-> NoJob]
  /\ failed = [w \in Worker |-> FALSE]
  /\ accepted = [j \in Job |-> 0]

(* Mutant: the cap is applied before the last doubling. *)
deliveryBackoffPastCap(attempt) == 2 * DoublingBackoff(BackoffBase, BackoffCap, attempt)

deliveryBackoff(attempt) == DoublingBackoff(BackoffBase, BackoffCap, attempt)

(* The local variables of RunDue are gone. *)
Forget(w) ==
  /\ seen' = [seen EXCEPT ![w] = [j \in Job |-> 0]]
  /\ current' = [current EXCEPT ![w] = NoJob]
  /\ failed' = [failed EXCEPT ![w] = FALSE]

-----------------------------------------------------------------------------
(* A replica saves a screening result: the row is due at once. *)
Enqueue(r, j) ==
  /\ status[j] = "absent"
  /\ status' = [status EXCEPT ![j] = "pending"]
  /\ Reschedule(r, j, 0)
  /\ UNCHANGED <<attempts, sendVars, accepted>>

(* Rows that a CompleteOutbox may hold locked: a claim skips them. *)
Completing == {j \in Job : \E v \in Worker : current[v] = j /\ owner[j] = v}

(* RunDue reads the clock and claims the earliest due rows. *)
ClaimStep(w, isAnswered) ==
  \E locked \in SUBSET Completing, S \in SUBSET Job :
    LET batch == IF isAnswered THEN S ELSE {} IN
    /\ Earliest({j \in DueFor(w) : status[j] = "pending"} \ locked, S)
    /\ Claim(w, S, batch)
    /\ seen' = [seen EXCEPT ![w] = [j \in Job |-> IF j \in batch THEN attempts[j] ELSE 0]]
    /\ UNCHANGED <<rowVars, current, failed, accepted>>

ClaimOutbox(w) == ClaimStep(w, TRUE)

ClaimUnanswered(w) == "dbError" \in Faults /\ ClaimStep(w, FALSE)

(* w takes a message of its batch to its sender and gets an answer.  The   *)
(* order in which UPDATE ... RETURNING returns the batch is unspecified.   *)
SendStep(w, j, isAccepted, isError) ==
  /\ up[w]
  /\ j \in mine[w]
  /\ current[w] = NoJob
  /\ current' = [current EXCEPT ![w] = j]
  /\ failed' = [failed EXCEPT ![w] = isError]
  /\ accepted' = IF isAccepted
                   THEN [accepted EXCEPT ![j] = IF @ = 0 THEN 1 ELSE 2]
                   ELSE accepted
  /\ UNCHANGED <<leaseVars, rowVars, seen>>

SendAccepted(w, j) == j \notin Unroutable /\ SendStep(w, j, TRUE, FALSE)

(* Refused, or timed out before it arrived. *)
SendRefused(w, j) ==
  /\ j \notin Unroutable
  /\ attempts[j] < MaxAttempts
  /\ SendStep(w, j, FALSE, TRUE)

(* The router has no sender for the channel: the deployment that saved the *)
(* message had one configured and this one has not.                        *)
SendUnroutable(w, j) == j \in Unroutable /\ SendStep(w, j, FALSE, TRUE)

(* The destination took the message but the answer did not come back.      *)
SendUnanswered(w, j) ==
  /\ "lostReply" \in Faults
  /\ j \notin Unroutable
  /\ attempts[j] < MaxAttempts
  /\ SendStep(w, j, TRUE, TRUE)

(* attempts + 1, counted up to MaxAttempts + 1: an unroutable message is   *)
(* tried for ever.                                                         *)
Counted(n) == IF n <= MaxAttempts THEN n + 1 ELSE n

(* CompleteOutbox finds the row still leased to w and records the outcome. *)
(* With rest = {} although the batch has more rows, the UPDATE was applied *)
(* but its answer lost.                                                    *)
Record(w, rest) ==
  LET j == current[w] IN
  /\ j # NoJob
  /\ status' = [status EXCEPT ![j] = IF failed[w] THEN "pending" ELSE "delivered"]
  /\ attempts' = [attempts EXCEPT ![j] = Counted(@)]
  /\ Settle(w, j, IF failed[w] THEN deliveryBackoff(seen[w][j] + 1) ELSE 0, rest)
  /\ IF rest = {}
       THEN Forget(w)
       ELSE /\ seen' = [seen EXCEPT ![w][j] = 0]
            /\ current' = [current EXCEPT ![w] = NoJob]
            /\ failed' = [failed EXCEPT ![w] = FALSE]
  /\ UNCHANGED accepted

CompleteOutbox(w) == Record(w, mine[w] \ {current[w]})

(* CompleteOutbox updates no row, or the database refuses it: RunDue ends. *)
CompleteFails(w) ==
  /\ current[w] # NoJob
  /\ owner[current[w]] # w \/ "dbError" \in Faults
  /\ Abandon(w)
  /\ Forget(w)
  /\ UNCHANGED <<rowVars, accepted>>

CompleteUnanswered(w) ==
  /\ "dbError" \in Faults
  /\ Record(w, {})

(* The process ends, at any point of its batch. *)
StopWorker(w) ==
  /\ "stop" \in Faults
  /\ Stop(w)
  /\ Forget(w)
  /\ UNCHANGED <<rowVars, accepted>>

StartWorker(w) == Start(w) /\ UNCHANGED <<rowVars, sendVars, accepted>>

TimePasses == Tick /\ UNCHANGED <<rowVars, sendVars, accepted>>

Next ==
  \/ \E w \in Worker :
       \/ \E j \in Job : \/ Enqueue(w, j)
                         \/ SendAccepted(w, j)
                         \/ SendRefused(w, j)
                         \/ SendUnroutable(w, j)
                         \/ SendUnanswered(w, j)
       \/ ClaimOutbox(w)
       \/ ClaimUnanswered(w)
       \/ CompleteOutbox(w)
       \/ CompleteFails(w)
       \/ CompleteUnanswered(w)
       \/ StopWorker(w)
       \/ StartWorker(w)
  \/ TimePasses

Spec == Init /\ [][Next]_vars

(* Time passes, a stopped process is restarted, and a call ends.  Strong   *)
(* fairness, message by message: it is not every single time that all      *)
(* replicas end before they claim the message or lose the answer of the    *)
(* claim, that the destination fails or answers only after the lease (two  *)
(* minutes, while a send times out after seconds), or that the lease runs  *)
(* out before the record.  Nothing makes a replica save a message, and     *)
(* nothing is assumed of the messages that have no sender.                 *)
GoesOn(w) ==
  \/ StartWorker(w)
  \/ \E j \in Job : SendAccepted(w, j) \/ SendUnroutable(w, j)
  \/ CompleteFails(w)

Fairness ==
  /\ WF_vars(TimePasses)
  /\ \A w \in Worker : WF_vars(GoesOn(w))
  /\ \A j \in Job \ Unroutable :
       /\ SF_vars(\E w \in Worker : ClaimOutbox(w) /\ j \in mine'[w])
       /\ SF_vars(\E w \in Worker : owner[j] = w /\ SendAccepted(w, j))
       /\ SF_vars(\E w \in Worker : current[w] = j /\ ~failed[w] /\ CompleteOutbox(w))

FairSpec == Spec /\ Fairness

-----------------------------------------------------------------------------
(* The outbox keeps its promise: a message is recorded as delivered only   *)
(* after its destination accepted it, and that record is final, although   *)
(* workers that lost their lease still report outcomes.                    *)
Promise == INSTANCE AtLeastOnce WITH Message <- Job
AtLeastOnceSpec == Promise!Spec

(* An attempt is recorded only by the worker that holds the lease, and the *)
(* attempts value its backoff was computed from, read at the claim, is     *)
(* still the one in the row: no update of another worker is overwritten.   *)
FreshAttempt ==
  \A j \in Job : attempts'[j] # attempts[j] =>
     /\ attempts'[j] = attempts[j] + 1
     /\ \E w \in Worker : /\ owner[j] = w
                          /\ current[w] = j
                          /\ seen[w][j] = attempts[j]

AttemptFromFreshClaim == [][FreshAttempt]_vars

(* A worker whose batch is younger than its leases sends a message only    *)
(* while it is pending and due on the worker's clock, and never one that   *)
(* another such worker has sent and not yet recorded: neither the record   *)
(* of a worker that is late nor a claim takes a message away from it.      *)
InLease(w) == age[w] + MaxSkew < LeaseTime

SendInLease ==
  \A w \in Worker : current[w] = NoJob /\ current'[w] # NoJob /\ InLease(w) =>
     /\ status[current'[w]] = "pending"
     /\ nextIn[current'[w]] <= Skew[w]
     /\ \A v \in Worker \ {w} : current[v] = current'[w] => ~InLease(v)

SendsWithinLease == [][SendInLease]_vars

(* The inductive invariant behind the properties above: what a worker      *)
(* remembers of a row is current for as long as it owns the row, and what  *)
(* it is about to record did happen.                                       *)
BatchIsSaved ==
  \A w \in Worker : \A j \in mine[w] : status[j] # "absent"

ClaimedCopyIsFresh ==
  \A w \in Worker : \A j \in mine[w] :
     owner[j] = w => status[j] = "pending" /\ seen[w][j] = attempts[j]

SentIsInBatch ==
  \A w \in Worker : current[w] # NoJob =>
     /\ current[w] \in mine[w]
     /\ ~failed[w] => accepted[current[w]] > 0

DeliveredWasAccepted ==
  \A j \in Job : status[j] = "delivered" => accepted[j] > 0

DeliveryInv ==
  /\ TypeOK
  /\ BatchIsSaved
  /\ ClaimedCopyIsFresh
  /\ SentIsInBatch
  /\ DeliveredWasAccepted

(* Every saved message that has a sender is delivered in the end, whatever *)
(* process ends, answer is lost or lease runs out on the way, and although *)
(* unroutable messages come back in batch after batch for ever.            *)
EventuallyDelivered ==
  \A j \in Job \ Unroutable : status[j] = "pending" ~> status[j] = "delivered"

(* "allowing multiple API replicas without duplicate ... notification      *)
(* delivery" (docs/ARCHITECTURE.md:69): no message is accepted twice.      *)
NoDuplicateDelivery == \A j \in Job : accepted[j] <= 1

(* When it is true: no process ends and no call to the database or to the  *)
(* destination fails without an answer (Faults = {}), and no batch takes   *)
(* so long that its leases may run out.                                    *)
BatchesWithinLease ==
  \A w \in Worker : mine[w] # {} => age[w] + MaxSkew < LeaseTime

(* The inductive invariant: a message is accepted once, and from then on   *)
(* it is in the hands of the worker that will record it, or delivered.     *)
SentOnce ==
  /\ \A w \in Worker : revoked[w] = {}
  /\ \A j \in Job :
       /\ accepted[j] <= 1
       /\ accepted[j] = 1 =>
            \/ status[j] = "delivered"
            \/ \E w \in Worker : current[w] = j /\ ~failed[w] /\ owner[j] = w
=============================================================================
