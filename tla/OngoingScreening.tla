-------------------------- MODULE OngoingScreening --------------------------
(***************************************************************************)
(* Recurring screening of customers and their beneficial owners.           *)
(*                                                                         *)
(* An operator configures a schedule per customer.  The screening worker   *)
(* of each replica claims due schedules and, for each, reads the customer  *)
(* and the owners, asks the provider about every one of them, saves all    *)
(* results in one transaction, and completes the schedule.  None of these  *)
(* steps is in one transaction with another: owners are added, schedules   *)
(* rewritten and processes ended in between.                               *)
(***************************************************************************)
EXTENDS LeasedWork, Backoff

CONSTANTS
  Owner,         \* possible beneficial owners of a customer
  Intervals,     \* values an operator gives interval_hours
  NoJob,         \* no customer is being screened
  BackoffBase,   \* screeningRetryBackoff's first delay (five minutes)
  BackoffCap,    \* screeningRetryBackoff's cap (24 hours)
  MaxFailures,   \* bound: runs of a schedule with this many failures succeed
  MaxConfigs,    \* bound on how often schedules are configured
  Faults         \* which of "stop", "dbError" happen

ASSUME ScreeningAssumption ==
  /\ NoJob \notin Job
  /\ Intervals \subseteq 1..MaxDelay
  /\ Intervals # {}
  /\ BackoffBase \in Nat /\ BackoffCap \in Nat
  /\ BackoffCap <= MaxDelay
  /\ MaxAge >= MaxSkew + MaxDelay
  /\ MaxFailures \in Nat /\ MaxConfigs \in Nat
  /\ Faults \subseteq {"stop", "dbError"}

VARIABLES
  enabled,   \* is there a schedule, and is it enabled
  interval,  \* interval_hours
  failureCount,  \* failure_count
  copy,      \* schedules of the batch as the claim returned them
  current,   \* the customer that ScreenCustomer was called for
  phase,     \* where that call is: "read", "ok" or "error"
  subjects,  \* owners the call has read and will screen
  owners,    \* beneficial_owners
  screened,  \* history: owners that a saved screening covers
  configs    \* number of configurations so far

scheduleVars == <<enabled, interval, failureCount>>
callVars == <<copy, current, phase, subjects>>
resultVars == <<owners, screened, configs>>
vars == <<leaseVars, scheduleVars, callVars, resultVars>>

AnyInterval == CHOOSE i \in Intervals : TRUE
NoCopy == [c \in Job |-> [interval |-> AnyInterval, failureCount |-> 0]]

TypeOK ==
  /\ LeaseTypeOK
  /\ enabled \in [Job -> BOOLEAN]
  /\ interval \in [Job -> Intervals]
  /\ failureCount \in [Job -> Nat]
  /\ copy \in [Worker -> [Job -> [interval : Intervals, failureCount : Nat]]]
  /\ current \in [Worker -> Job \union {NoJob}]
  /\ phase \in [Worker -> {"none", "read", "ok", "error"}]
  /\ subjects \in [Worker -> SUBSET Owner]
  /\ owners \in [Job -> SUBSET Owner]
  /\ screened \in [Job -> SUBSET Owner]
  /\ configs \in Nat

Init ==
  /\ LeaseInit
  /\ enabled = [c \in Job |-> FALSE]
  /\ interval = [c \in Job |-> AnyInterval]
  /\ failureCount = [c \in Job |-> 0]
  /\ copy = [w \in Worker |-> NoCopy]
  /\ current = [w \in Worker |-> NoJob]
  /\ phase = [w \in Worker |-> "none"]
  /\ subjects = [w \in Worker |-> {}]
  /\ owners = [c \in Job |-> {}]
  /\ screened = [c \in Job |-> {}]
  /\ configs = 0

(* Mutant: the cap is applied before the last doubling. *)
screeningRetryBackoffPastCap(n) == 2 * DoublingBackoff(BackoffBase, BackoffCap, n)

screeningRetryBackoff(n) == DoublingBackoff(BackoffBase, BackoffCap, n)

-----------------------------------------------------------------------------
(* Mutant of ConfigureSchedule: the upsert leaves the lease columns alone. *)
ConfigureScheduleKeepingLease(r, c, isEnabled, hours) ==
  /\ up[r]
  /\ configs < MaxConfigs
  /\ configs' = configs + 1
  /\ enabled' = [enabled EXCEPT ![c] = isEnabled]
  /\ interval' = [interval EXCEPT ![c] = hours]
  /\ failureCount' = [failureCount EXCEPT ![c] = 0]
  /\ nextIn' = [nextIn EXCEPT ![c] = Skew[r] + hours]
  /\ UNCHANGED <<owner, leaseIn, up, mine, age, revoked, callVars, owners, screened>>

(* ConfigureSchedule and UpsertScreeningSchedule: the whole row is         *)
(* rewritten, a running worker's lease included, and the next run is one   *)
(* interval from now.                                                      *)
ConfigureSchedule(r, c, isEnabled, hours) ==
  /\ configs < MaxConfigs
  /\ configs' = configs + 1
  /\ enabled' = [enabled EXCEPT ![c] = isEnabled]
  /\ interval' = [interval EXCEPT ![c] = hours]
  /\ failureCount' = [failureCount EXCEPT ![c] = 0]
  /\ Reschedule(r, c, hours)
  /\ UNCHANGED <<callVars, owners, screened>>

AddBeneficialOwner(c, o) ==
  /\ o \notin owners[c]
  /\ owners' = [owners EXCEPT ![c] = @ \union {o}]
  /\ UNCHANGED <<leaseVars, scheduleVars, callVars, screened, configs>>

(* Rows that a CompleteScreeningSchedule may hold locked. *)
Completing ==
  {c \in Job : \E v \in Worker : /\ current[v] = c /\ owner[c] = v
                                 /\ phase[v] \in {"ok", "error"}}

(* RunDue reads the clock and claims the earliest due schedules. *)
ClaimStep(w, isAnswered) ==
  \E locked \in SUBSET Completing, S \in SUBSET Job :
    LET batch == IF isAnswered THEN S ELSE {} IN
    /\ Earliest({c \in DueFor(w) : enabled[c]} \ locked, S)
    /\ Claim(w, S, batch)
    /\ copy' = [copy EXCEPT ![w] = [c \in Job |->
                  IF c \in batch THEN [interval |-> interval[c], failureCount |-> failureCount[c]]
                                 ELSE NoCopy[c]]]
    /\ UNCHANGED <<scheduleVars, current, phase, subjects, resultVars>>

ClaimDueScreeningSchedules(w) == ClaimStep(w, TRUE)

ClaimUnanswered(w) == "dbError" \in Faults /\ ClaimStep(w, FALSE)

(* ScreenCustomer reads the customer, the owners and the recipients. *)
ReadSubjects(w, c) ==
  /\ up[w]
  /\ c \in mine[w]
  /\ current[w] = NoJob
  /\ current' = [current EXCEPT ![w] = c]
  /\ phase' = [phase EXCEPT ![w] = "read"]
  /\ subjects' = [subjects EXCEPT ![w] = owners[c]]
  /\ UNCHANGED <<leaseVars, scheduleVars, copy, resultVars>>

CallEnds(w, outcome) ==
  /\ phase[w] = "read"
  /\ phase' = [phase EXCEPT ![w] = outcome]
  /\ subjects' = [subjects EXCEPT ![w] = {}]
  /\ UNCHANGED <<leaseVars, scheduleVars, copy, current, owners, configs>>

(* The provider answered for every subject, and SaveScreening committed    *)
(* the runs, matches, notifications and outbox rows together.              *)
SaveScreening(w) ==
  /\ CallEnds(w, "ok")
  /\ screened' = [screened EXCEPT ![current[w]] = @ \union subjects[w]]

(* The provider failed for one of the subjects, or a statement did:        *)
(* nothing is saved.                                                       *)
ScreeningFails(w) ==
  /\ CallEnds(w, "error")
  /\ failureCount[current[w]] < MaxFailures
  /\ UNCHANGED screened

(* The commit of SaveScreening was applied but its answer was lost. *)
SaveUnanswered(w) ==
  /\ "dbError" \in Faults
  /\ CallEnds(w, "error")
  /\ failureCount[current[w]] < MaxFailures
  /\ screened' = [screened EXCEPT ![current[w]] = @ \union subjects[w]]

(* An analyst has a customer screened on request: replica r runs the same  *)
(* ScreenCustomer without a lease, next to any worker.  S is what the      *)
(* owners were when it read them; owners are never removed.  A request     *)
(* that fails saves nothing.                                               *)
ScreenOnRequest(r, c, S) ==
  /\ up[r]
  /\ screened' = [screened EXCEPT ![c] = @ \union S]
  /\ UNCHANGED <<leaseVars, scheduleVars, callVars, owners, configs>>

(* The local variables of RunDue are gone. *)
Forget(w) ==
  /\ copy' = [copy EXCEPT ![w] = NoCopy]
  /\ current' = [current EXCEPT ![w] = NoJob]
  /\ phase' = [phase EXCEPT ![w] = "none"]
  /\ subjects' = [subjects EXCEPT ![w] = {}]

(* CompleteScreeningSchedule finds the row still leased to w. *)
Record(w, rest) ==
  LET c == current[w] IN
  /\ phase[w] \in {"ok", "error"}
  /\ failureCount' = [failureCount EXCEPT ![c] = IF phase[w] = "ok" THEN 0 ELSE @ + 1]
  /\ Settle(w, c, IF phase[w] = "ok" THEN copy[w][c].interval
                  ELSE screeningRetryBackoff(copy[w][c].failureCount + 1), rest)
  /\ IF rest = {}
       THEN Forget(w)
       ELSE /\ copy' = [copy EXCEPT ![w] = [copy[w] EXCEPT ![c] = NoCopy[c]]]
            /\ current' = [current EXCEPT ![w] = NoJob]
            /\ phase' = [phase EXCEPT ![w] = "none"]
            /\ UNCHANGED subjects
  /\ UNCHANGED <<enabled, interval, resultVars>>

CompleteScreeningSchedule(w) == Record(w, mine[w] \ {current[w]})

(* It updates no row, or the database refuses it: RunDue ends. *)
CompleteFails(w) ==
  /\ phase[w] \in {"ok", "error"}
  /\ owner[current[w]] # w \/ "dbError" \in Faults
  /\ Abandon(w)
  /\ Forget(w)
  /\ UNCHANGED <<scheduleVars, resultVars>>

CompleteUnanswered(w) ==
  /\ "dbError" \in Faults
  /\ Record(w, {})

StopWorker(w) ==
  /\ "stop" \in Faults
  /\ Stop(w)
  /\ Forget(w)
  /\ UNCHANGED <<scheduleVars, resultVars>>

StartWorker(w) == Start(w) /\ UNCHANGED <<scheduleVars, callVars, resultVars>>

TimePasses == Tick /\ UNCHANGED <<scheduleVars, callVars, resultVars>>

Next ==
  \/ \E w \in Worker :
       \/ \E c \in Job :
            \/ \E e \in BOOLEAN, i \in Intervals : ConfigureSchedule(w, c, e, i)
            \/ \E S \in SUBSET owners[c] : ScreenOnRequest(w, c, S)
            \/ ReadSubjects(w, c)
       \/ ClaimDueScreeningSchedules(w)
       \/ ClaimUnanswered(w)
       \/ SaveScreening(w)
       \/ ScreeningFails(w)
       \/ SaveUnanswered(w)
       \/ CompleteScreeningSchedule(w)
       \/ CompleteFails(w)
       \/ CompleteUnanswered(w)
       \/ StopWorker(w)
       \/ StartWorker(w)
  \/ \E c \in Job, o \in Owner : AddBeneficialOwner(c, o)
  \/ TimePasses

Spec == Init /\ [][Next]_vars

(* As in Delivery: time passes, processes are restarted and calls end; for *)
(* every customer, it is not every single time that all replicas end       *)
(* before their first poll, that the provider fails or takes longer than   *)
(* the lease, or that the lease runs out before the record.  Nobody has to *)
(* configure anything.                                                     *)
GoesOn(w) ==
  \/ StartWorker(w)
  \/ \E c \in Job : ReadSubjects(w, c)
  \/ SaveScreening(w)
  \/ CompleteFails(w)

Fairness ==
  /\ WF_vars(TimePasses)
  /\ \A w \in Worker : WF_vars(GoesOn(w))
  /\ \A c \in Job :
       /\ SF_vars(\E w \in Worker : ClaimDueScreeningSchedules(w) /\ c \in mine'[w])
       /\ SF_vars(\E w \in Worker : owner[c] = w /\ ReadSubjects(w, c))
       /\ SF_vars(\E w \in Worker : current[w] = c /\ owner[c] = w /\ SaveScreening(w))

FairSpec == Spec /\ Fairness

-----------------------------------------------------------------------------
(* A run is recorded only on an enabled schedule, by the worker that holds *)
(* its lease, and with a next run computed from the interval and failure   *)
(* count that are still in the row: a worker that was running while an     *)
(* operator rewrote the schedule never overwrites what the operator set.   *)
EndsCall(w) == phase[w] \in {"ok", "error"} /\ phase'[w] = "none" /\ up'[w]

FreshRecord ==
  \A w \in Worker, c \in Job :
    current[w] = c /\ EndsCall(w) =>
      \/ <<nextIn[c], failureCount[c], owner[c]>>' = <<nextIn[c], failureCount[c], owner[c]>>
      \/ /\ enabled[c]
         /\ owner[c] = w
         /\ c \notin revoked[w]
         /\ copy[w][c] = [interval |-> interval[c], failureCount |-> failureCount[c]]

OperatorConfigKept == [][FreshRecord]_vars

-----------------------------------------------------------------------------
(* The inductive invariant behind OperatorConfigKept *)

(* ScreenCustomer runs for one row of the batch. *)
CallIsInBatch ==
  \A w \in Worker :
    /\ current[w] = NoJob <=> phase[w] = "none"
    /\ current[w] # NoJob => current[w] \in mine[w]

(* Only rows of the batch count as rewritten under its worker. *)
RevokedIsInBatch == \A w \in Worker : revoked[w] \subseteq mine[w]

(* As long as w owns a row of its batch, nobody has rewritten the row:     *)
(* the schedule that the claim returned is the one in the table.           *)
ClaimedScheduleIsFresh ==
  \A w \in Worker : \A c \in mine[w] :
    owner[c] = w =>
      /\ enabled[c]
      /\ c \notin revoked[w]
      /\ copy[w][c] = [interval |-> interval[c], failureCount |-> failureCount[c]]

ScreeningInv ==
  /\ TypeOK
  /\ CallIsInBatch
  /\ RevokedIsInBatch
  /\ ClaimedScheduleIsFresh

-----------------------------------------------------------------------------
(* While a schedule stays enabled, every beneficial owner is covered by a  *)
(* saved screening in the end, although an owner that is added after the   *)
(* worker has read the owners is missing from the run that is under way:   *)
(* no failed run, rewritten row or process that ended with the lease       *)
(* leaves a schedule that is never run again.                              *)
OwnersEventuallyScreened ==
  \A c \in Job, o \in Owner :
     (o \in owners[c] /\ enabled[c]) ~> (o \in screened[c] \/ ~enabled[c])
=============================================================================
