-------------------------- MODULE ScreeningProofs ---------------------------
(***************************************************************************)
(* Screening: the worker that runs the schedules keeps the leases'         *)
(* exclusion and never overwrites what an operator configured, and the     *)
(* circuit breaker of the provider it calls opens only after a streak of   *)
(* failed calls.  Both hold for any number of replicas, customers and      *)
(* callers and any setting of the intervals, delays and thresholds.        *)
(***************************************************************************)
EXTENDS OngoingScreening, ScreeningProvider, LeasedWorkProofs

(* The delay before the next run, after a good run or a failed one, is one *)
(* the lease protocol allows.                                              *)
LEMMA NextRunDelay ==
  ASSUME NEW ok \in BOOLEAN, NEW i \in Intervals, NEW n
  PROVE  (IF ok THEN i ELSE screeningRetryBackoff(n)) \in 0..MaxDelay
<1>1. screeningRetryBackoff(n) \in 0..BackoffCap
  BY ScreeningAssumption DEF screeningRetryBackoff, DoublingBackoff
<1>2. i \in 1..MaxDelay
  BY ScreeningAssumption
<1> QED BY <1>1, <1>2, ScreeningAssumption, TimeAssumption

LEMMA NoCopyType ==
  /\ AnyInterval \in Intervals
  /\ NoCopy \in [Job -> [interval : Intervals, failureCount : Nat]]
<1>1. AnyInterval \in Intervals
  BY ScreeningAssumption DEF AnyInterval
<1> QED BY <1>1 DEF NoCopy

-----------------------------------------------------------------------------
(* The steps of the screening workers are steps of the lease protocol *)

(* Recording a run settles its schedule. *)
LEMMA RecordLease ==
  ASSUME ScreeningInv, NEW w \in Worker, NEW rest \in SUBSET Job, Record(w, rest)
  PROVE  LeaseNext
<1> DEFINE c == current[w]
           delay == IF phase[w] = "ok" THEN copy[w][c].interval
                    ELSE screeningRetryBackoff(copy[w][c].failureCount + 1)
<1>1. Settle(w, c, delay, rest)
  BY DEF Record
<1>2. c \in Job
  BY <1>1 DEF Settle, ScreeningInv, TypeOK, LeaseTypeOK
<1>3. copy[w][c].interval \in Intervals
  BY <1>2 DEF ScreeningInv, TypeOK
<1>4. delay \in 0..MaxDelay
  BY <1>3, NextRunDelay
<1> QED BY <1>1, <1>2, <1>4 DEF LeaseNext

(* Every step of OngoingScreening is a step of the lease protocol or       *)
(* leaves it alone.                                                        *)
LEMMA StepLease ==
  ASSUME ScreeningInv, [Next]_vars
  PROVE  [LeaseNext]_leaseVars
<1>1. ASSUME NEW w \in Worker, NEW c \in Job, NEW e \in BOOLEAN, NEW i \in Intervals,
             ConfigureSchedule(w, c, e, i)
      PROVE  LeaseNext
  <2>1. Reschedule(w, c, i)
    BY <1>1 DEF ConfigureSchedule
  <2>2. i \in 0..MaxDelay
    BY ScreeningAssumption, TimeAssumption
  <2> QED BY <2>1, <2>2 DEF LeaseNext
<1>2. ASSUME NEW w \in Worker,
             \/ \E c \in Job : ReadSubjects(w, c) \/ \E S \in SUBSET owners[c] : ScreenOnRequest(w, c, S)
             \/ SaveScreening(w) \/ ScreeningFails(w) \/ SaveUnanswered(w)
      PROVE  UNCHANGED leaseVars
  BY <1>2 DEF ReadSubjects, ScreenOnRequest, SaveScreening, ScreeningFails, SaveUnanswered, CallEnds
<1>3. ASSUME NEW w \in Worker, ClaimDueScreeningSchedules(w) \/ ClaimUnanswered(w)
      PROVE  LeaseNext
  <2>1. PICK S \in SUBSET Job, batch \in SUBSET Job : Claim(w, S, batch)
    BY <1>3 DEF ClaimDueScreeningSchedules, ClaimUnanswered, ClaimStep
  <2> QED BY <2>1 DEF LeaseNext
<1>4. ASSUME NEW w \in Worker, CompleteScreeningSchedule(w) \/ CompleteUnanswered(w)
      PROVE  LeaseNext
  <2>1. mine[w] \ {current[w]} \in SUBSET Job /\ {} \in SUBSET Job
    BY DEF ScreeningInv, TypeOK, LeaseTypeOK
  <2> QED BY <1>4, <2>1, RecordLease DEF CompleteScreeningSchedule, CompleteUnanswered
<1>5. ASSUME NEW w \in Worker, CompleteFails(w) \/ StopWorker(w) \/ StartWorker(w)
      PROVE  LeaseNext
  BY <1>5 DEF CompleteFails, StopWorker, StartWorker, LeaseNext
<1>6. ASSUME NEW c \in Job, NEW o \in Owner, AddBeneficialOwner(c, o)
      PROVE  UNCHANGED leaseVars
  BY <1>6 DEF AddBeneficialOwner
<1>7. CASE TimePasses
  BY <1>7 DEF TimePasses, LeaseNext
<1>8. CASE UNCHANGED vars
  BY <1>8 DEF vars
<1> QED BY <1>1, <1>2, <1>3, <1>4, <1>5, <1>6, <1>7, <1>8 DEF Next

-----------------------------------------------------------------------------
(* The schedules and the calls of ScreenCustomer *)

(* No schedule, no batch and no call at first. *)
LEMMA ScreeningInitInv == Init => ScreeningInv
<1> SUFFICES ASSUME Init PROVE ScreeningInv
  OBVIOUS
<1>1. LeaseTypeOK
  BY LeaseInitInv DEF Init, LeaseInv
<1>2. TypeOK
  BY <1>1, NoCopyType DEF Init, TypeOK
<1> QED BY <1>2 DEF Init, LeaseInit, ScreeningInv, CallIsInBatch, RevokedIsInBatch,
                    ClaimedScheduleIsFresh

(* A rewritten schedule loses its owner: no worker's copy of it counts. *)
LEMMA ConfigureInv ==
  ASSUME ScreeningInv, LeaseTypeOK', NEW r \in Worker, NEW k \in Job,
         NEW e \in BOOLEAN, NEW i \in Intervals, ConfigureSchedule(r, k, e, i)
  PROVE  ScreeningInv'
<1> USE OwnerAssumption DEF ScreeningInv
<1>0. /\ owner' = [owner EXCEPT ![k] = NoOwner]
      /\ revoked' = [w \in Worker |-> IF k \in mine[w] THEN revoked[w] \union {k} ELSE revoked[w]]
      /\ UNCHANGED <<mine, copy, current, phase, subjects, owners, screened>>
  BY DEF ConfigureSchedule, Reschedule, callVars
<1>1. TypeOK'
  BY <1>0 DEF TypeOK, ConfigureSchedule
<1>2. CallIsInBatch'
  BY <1>0 DEF CallIsInBatch
<1>3. RevokedIsInBatch'
  BY <1>0 DEF RevokedIsInBatch
<1>4. ClaimedScheduleIsFresh'
  <2> SUFFICES ASSUME NEW w \in Worker, NEW c \in mine[w], owner'[c] = w
               PROVE  /\ enabled'[c] /\ c \notin revoked'[w]
                      /\ copy[w][c] = [interval |-> interval'[c], failureCount |-> failureCount'[c]]
    BY <1>0 DEF ClaimedScheduleIsFresh
  <2>1. c \in Job /\ c # k /\ owner[c] = w
    BY <1>0 DEF TypeOK, LeaseTypeOK
  <2>2. /\ enabled'[c] = enabled[c] /\ interval'[c] = interval[c]
        /\ failureCount'[c] = failureCount[c]
    BY <2>1 DEF ConfigureSchedule, TypeOK
  <2>3. c \notin revoked'[w]
    BY <1>0, <2>1 DEF ClaimedScheduleIsFresh
  <2> QED BY <2>1, <2>2, <2>3 DEF ClaimedScheduleIsFresh
<1> QED BY <1>1, <1>2, <1>3, <1>4

(* A claim returns enabled schedules as they are. *)
LEMMA ClaimScheduleInv ==
  ASSUME ScreeningInv, LeaseTypeOK', NEW v \in Worker,
         ClaimDueScreeningSchedules(v) \/ ClaimUnanswered(v)
  PROVE  ScreeningInv'
<1> USE DEF ScreeningInv
<1>0. PICK S \in SUBSET Job, batch \in SUBSET Job :
        /\ Claim(v, S, batch)
        /\ \A c \in S : enabled[c]
        /\ copy' = [copy EXCEPT ![v] = [c \in Job |->
             IF c \in batch THEN [interval |-> interval[c], failureCount |-> failureCount[c]]
                            ELSE NoCopy[c]]]
  BY DEF ClaimDueScreeningSchedules, ClaimUnanswered, ClaimStep, Earliest
<1>a. UNCHANGED <<enabled, interval, failureCount, current, phase, subjects, owners,
                  screened, configs, revoked>>
  BY <1>0 DEF ClaimDueScreeningSchedules, ClaimUnanswered, ClaimStep, Claim, scheduleVars, resultVars
<1>b. /\ mine[v] = {} /\ revoked[v] = {} /\ current[v] = NoJob
      /\ mine' = [mine EXCEPT ![v] = batch] /\ batch \subseteq S
      /\ owner' = [j \in Job |-> IF j \in S THEN v ELSE owner[j]]
  BY <1>0 DEF Claim, RevokedIsInBatch, CallIsInBatch
<1>1. TypeOK'
  <2>1. [c \in Job |-> IF c \in batch THEN [interval |-> interval[c], failureCount |-> failureCount[c]]
                                      ELSE NoCopy[c]]
        \in [Job -> [interval : Intervals, failureCount : Nat]]
    BY NoCopyType DEF TypeOK
  <2> QED BY <1>0, <1>a, <2>1 DEF TypeOK
<1>2. CallIsInBatch'
  BY <1>a, <1>b DEF CallIsInBatch, TypeOK, LeaseTypeOK
<1>3. RevokedIsInBatch'
  BY <1>a, <1>b DEF RevokedIsInBatch, TypeOK, LeaseTypeOK
<1>4. ClaimedScheduleIsFresh'
  <2> SUFFICES ASSUME NEW w \in Worker, NEW c \in mine'[w], owner'[c] = w
               PROVE  /\ enabled[c] /\ c \notin revoked[w]
                      /\ copy'[w][c] = [interval |-> interval[c], failureCount |-> failureCount[c]]
    BY <1>a DEF ClaimedScheduleIsFresh
  <2>1. CASE w = v
    BY <1>0, <1>b, <2>1 DEF TypeOK, LeaseTypeOK
  <2>2. CASE w # v
    <3>1. c \in mine[w] /\ owner[c] = w /\ copy'[w] = copy[w]
      BY <1>0, <1>b, <2>2 DEF TypeOK, LeaseTypeOK
    <3> QED BY <3>1 DEF ClaimedScheduleIsFresh
  <2> QED BY <2>1, <2>2
<1> QED BY <1>1, <1>2, <1>3, <1>4

(* A call of ScreenCustomer leaves batches and schedules alone. *)
LEMMA CallInv ==
  ASSUME ScreeningInv, NEW v \in Worker,
         \/ \E c \in Job : ReadSubjects(v, c)
         \/ SaveScreening(v) \/ ScreeningFails(v) \/ SaveUnanswered(v)
  PROVE  ScreeningInv'
<1> USE ScreeningAssumption DEF ScreeningInv
<1>0. UNCHANGED <<leaseVars, enabled, interval, failureCount, copy, owners, configs>>
  BY DEF ReadSubjects, SaveScreening, ScreeningFails, SaveUnanswered, CallEnds, scheduleVars, resultVars
<1>a. LeaseTypeOK'
  BY <1>0 DEF TypeOK, LeaseTypeOK, leaseVars
<1>1. TypeOK' /\ CallIsInBatch'
  <2>1. CASE \E c \in Job : ReadSubjects(v, c)
    <3>0. PICK c \in Job : ReadSubjects(v, c)
      BY <2>1
    <3>1. TypeOK'
      BY <1>0, <1>a, <3>0 DEF TypeOK, ReadSubjects, resultVars
    <3>2. CallIsInBatch'
      BY <1>0, <3>0 DEF TypeOK, ReadSubjects, CallIsInBatch, leaseVars
    <3> QED BY <3>1, <3>2
  <2>2. CASE SaveScreening(v) \/ ScreeningFails(v) \/ SaveUnanswered(v)
    <3>0. PICK result \in {"ok", "error"} : CallEnds(v, result)
      BY <2>2 DEF SaveScreening, ScreeningFails, SaveUnanswered
    <3>1. current[v] \in Job /\ UNCHANGED current
      BY <3>0 DEF CallEnds, CallIsInBatch, TypeOK
    <3>2. screened' \in [Job -> SUBSET Owner]
      BY <2>2, <3>1 DEF SaveScreening, ScreeningFails, SaveUnanswered, TypeOK
    <3>3. TypeOK'
      BY <1>0, <1>a, <3>0, <3>1, <3>2 DEF TypeOK, CallEnds
    <3>4. CallIsInBatch'
      BY <1>0, <3>0, <3>1 DEF TypeOK, CallEnds, CallIsInBatch, leaseVars
    <3> QED BY <3>3, <3>4
  <2> QED BY <2>1, <2>2
<1>2. RevokedIsInBatch' /\ ClaimedScheduleIsFresh'
  BY <1>0 DEF RevokedIsInBatch, ClaimedScheduleIsFresh, leaseVars
<1> QED BY <1>1, <1>2

(* Recording touches a row that no other worker may record. *)
LEMMA RecordInv ==
  ASSUME ScreeningInv, LeaseTypeOK', NEW v \in Worker, NEW rest, Record(v, rest)
  PROVE  ScreeningInv'
<1> USE OwnerAssumption, ScreeningAssumption DEF ScreeningInv
<1> DEFINE k == current[v]
           delay == IF phase[v] = "ok" THEN copy[v][k].interval
                    ELSE screeningRetryBackoff(copy[v][k].failureCount + 1)
<1>s. Settle(v, k, delay, rest)
  BY DEF Record
<1> HIDE DEF delay
<1>0. /\ k \in Job /\ k \in mine[v] /\ owner[k] = v
      /\ owner' = [owner EXCEPT ![k] = NoOwner]
      /\ failureCount' = [failureCount EXCEPT ![k] = IF phase[v] = "ok" THEN 0 ELSE @ + 1]
      /\ UNCHANGED <<enabled, interval, owners, screened, configs>>
  BY <1>s DEF Record, Settle, TypeOK, LeaseTypeOK, resultVars
<1>a. /\ mine'[v] = rest /\ rest \subseteq mine[v] \ {k}
      /\ revoked'[v] \subseteq rest
      /\ revoked'[v] \subseteq revoked[v]
      /\ \A w \in Worker : w # v => mine'[w] = mine[w] /\ revoked'[w] = revoked[w]
  <2>1. rest \in {mine[v] \ {k}, {}} /\ k \notin revoked[v]
    BY <1>s, <1>0 DEF Settle, ClaimedScheduleIsFresh
  <2>2. CASE rest = {}
    BY <1>s, <2>1, <2>2 DEF Settle, BatchOver, TypeOK, LeaseTypeOK
  <2>3. CASE rest # {}
    BY <1>s, <2>1, <2>3 DEF Settle, TypeOK, LeaseTypeOK, RevokedIsInBatch
  <2> QED BY <2>2, <2>3
<1>b. /\ current'[v] = NoJob /\ phase'[v] = "none"
      /\ \A w \in Worker : w # v => /\ current'[w] = current[w]
                                   /\ phase'[w] = phase[w]
                                   /\ copy'[w] = copy[w]
      /\ rest # {} => \A c \in Job \ {k} : copy'[v][c] = copy[v][c]
  BY DEF Record, Forget, TypeOK
<1>1. TypeOK'
  <2>1. /\ copy' \in [Worker -> [Job -> [interval : Intervals, failureCount : Nat]]]
        /\ current' \in [Worker -> Job \union {NoJob}]
        /\ phase' \in [Worker -> {"none", "read", "ok", "error"}]
        /\ subjects' \in [Worker -> SUBSET Owner]
    <3>1. CASE rest = {}
      <4>1. Forget(v)
        BY <3>1 DEF Record
      <4> QED BY <4>1, NoCopyType DEF Forget, TypeOK
    <3>2. CASE rest # {}
      <4>1. copy' = [copy EXCEPT ![v] = [copy[v] EXCEPT ![k] = NoCopy[k]]]
        BY <3>2 DEF Record
      <4>2. [copy[v] EXCEPT ![k] = NoCopy[k]] \in [Job -> [interval : Intervals, failureCount : Nat]]
        BY <1>0, NoCopyType DEF TypeOK
      <4> QED BY <3>2, <4>1, <4>2 DEF Record, TypeOK
    <3> QED BY <3>1, <3>2
  <2>2. failureCount' \in [Job -> Nat]
    BY <1>0 DEF TypeOK
  <2> QED BY <1>0, <2>1, <2>2 DEF TypeOK
<1>2. CallIsInBatch'
  BY <1>a, <1>b DEF CallIsInBatch
<1>3. RevokedIsInBatch'
  BY <1>a DEF RevokedIsInBatch
<1>4. ClaimedScheduleIsFresh'
  <2> SUFFICES ASSUME NEW w \in Worker, NEW c \in mine'[w], owner'[c] = w
               PROVE  /\ enabled'[c] /\ c \notin revoked'[w]
                      /\ copy'[w][c] = [interval |-> interval'[c], failureCount |-> failureCount'[c]]
    BY DEF ClaimedScheduleIsFresh
  <2>1. c \in mine[w] /\ c \in Job
    BY <1>a DEF TypeOK, LeaseTypeOK
  <2>2. c # k /\ owner[c] = w
    BY <1>0, <2>1 DEF TypeOK, LeaseTypeOK
  <2>3. /\ enabled'[c] = enabled[c] /\ interval'[c] = interval[c]
        /\ failureCount'[c] = failureCount[c]
    BY <1>0, <2>1, <2>2 DEF TypeOK
  <2>4. copy'[w][c] = copy[w][c] /\ revoked'[w] \subseteq revoked[w]
    BY <1>a, <1>b, <2>1, <2>2
  <2> QED BY <2>1, <2>2, <2>3, <2>4 DEF ClaimedScheduleIsFresh
<1> QED BY <1>1, <1>2, <1>3, <1>4

(* A batch that ends without a record leaves the schedules alone. *)
LEMMA ForgetInv ==
  ASSUME ScreeningInv, LeaseTypeOK', NEW v \in Worker, CompleteFails(v) \/ StopWorker(v)
  PROVE  ScreeningInv'
<1> USE OwnerAssumption DEF ScreeningInv
<1>0. /\ Forget(v) /\ BatchOver(v)
      /\ UNCHANGED <<enabled, interval, failureCount, owners, screened, configs>>
      /\ \A c \in Job : owner'[c] = owner[c] \/ owner'[c] = Gone
  BY DEF CompleteFails, StopWorker, Stop, Abandon, scheduleVars, resultVars, TypeOK, LeaseTypeOK
<1>1. TypeOK'
  BY <1>0, NoCopyType DEF TypeOK, Forget
<1>2. CallIsInBatch' /\ RevokedIsInBatch'
  BY <1>0 DEF TypeOK, LeaseTypeOK, BatchOver, Forget, CallIsInBatch, RevokedIsInBatch
<1>3. ClaimedScheduleIsFresh'
  BY <1>0 DEF TypeOK, LeaseTypeOK, BatchOver, Forget, ClaimedScheduleIsFresh
<1> QED BY <1>1, <1>2, <1>3

(* Requests of analysts, new owners, restarts and time change neither the  *)
(* schedules nor the calls.                                                *)
LEMMA IdleInv ==
  ASSUME ScreeningInv, LeaseTypeOK',
         \/ \E w \in Worker, c \in Job : \E S \in SUBSET owners[c] : ScreenOnRequest(w, c, S)
         \/ \E c \in Job, o \in Owner : AddBeneficialOwner(c, o)
         \/ \E w \in Worker : StartWorker(w)
         \/ TimePasses
         \/ UNCHANGED vars
  PROVE  ScreeningInv'
<1> USE DEF ScreeningInv
<1>1. UNCHANGED <<owner, mine, revoked, enabled, interval, failureCount, copy, current, phase,
                  subjects, configs>>
  BY DEF ScreenOnRequest, AddBeneficialOwner, StartWorker, Start, TimePasses, Tick, vars,
         leaseVars, scheduleVars, callVars, resultVars
<1>2. owners' \in [Job -> SUBSET Owner] /\ screened' \in [Job -> SUBSET Owner]
  BY DEF ScreenOnRequest, AddBeneficialOwner, StartWorker, TimePasses, vars, resultVars, TypeOK
<1>3. TypeOK'
  BY <1>1, <1>2 DEF TypeOK
<1> QED BY <1>1, <1>3 DEF CallIsInBatch, RevokedIsInBatch, ClaimedScheduleIsFresh

(* Every step keeps the invariant. *)
LEMMA ScreeningNextInv ==
  ASSUME ScreeningInv, LeaseTypeOK', [Next]_vars
  PROVE  ScreeningInv'
<1>1. ASSUME NEW w \in Worker, NEW c \in Job,
             \/ \E e \in BOOLEAN, i \in Intervals : ConfigureSchedule(w, c, e, i)
             \/ \E S \in SUBSET owners[c] : ScreenOnRequest(w, c, S)
             \/ ReadSubjects(w, c)
      PROVE  ScreeningInv'
  BY <1>1, ConfigureInv, IdleInv, CallInv
<1>2. ASSUME NEW w \in Worker,
             \/ ClaimDueScreeningSchedules(w) \/ ClaimUnanswered(w)
             \/ SaveScreening(w) \/ ScreeningFails(w) \/ SaveUnanswered(w)
      PROVE  ScreeningInv'
  BY <1>2, ClaimScheduleInv, CallInv
<1>3. ASSUME NEW w \in Worker, CompleteScreeningSchedule(w) \/ CompleteUnanswered(w)
      PROVE  ScreeningInv'
  BY <1>3, RecordInv DEF CompleteScreeningSchedule, CompleteUnanswered
<1>4. ASSUME NEW w \in Worker, CompleteFails(w) \/ StopWorker(w) \/ StartWorker(w)
      PROVE  ScreeningInv'
  BY <1>4, ForgetInv, IdleInv
<1>5. CASE \/ \E c \in Job, o \in Owner : AddBeneficialOwner(c, o)
           \/ TimePasses \/ UNCHANGED vars
  BY <1>5, IdleInv
<1> QED BY <1>1, <1>2, <1>3, <1>4, <1>5 DEF Next

(* The leases and the schedules, together: the delays that the lease       *)
(* protocol bounds come from the schedules the workers hold.               *)
THEOREM ScreeningSafety == Spec => [](LeaseInv /\ ScreeningInv)
<1>1. Init => LeaseInv /\ ScreeningInv
  BY LeaseInitInv, ScreeningInitInv DEF Init
<1>2. ASSUME LeaseInv, ScreeningInv, [Next]_vars PROVE LeaseInv' /\ ScreeningInv'
  <2>1. LeaseInv'
    BY <1>2, StepLease, LeaseNextInv
  <2> QED BY <1>2, <2>1, ScreeningNextInv DEF LeaseInv
<1>3. LeaseInv /\ ScreeningInv /\ [Next]_vars => (LeaseInv /\ ScreeningInv)'
  BY <1>2
<1> QED BY <1>1, <1>3, PTL DEF Spec

(* Every variable keeps its type: however often a schedule has failed, its *)
(* next run is no further away than the cap.                               *)
THEOREM ScreeningTypeCorrect == Spec => []TypeOK
<1>1. ScreeningInv => TypeOK
  BY DEF ScreeningInv
<1> QED BY <1>1, ScreeningSafety, PTL

(* Two replicas screen the same customer at the same time only after one   *)
(* of them has outlived its lease, or an operator rewrote the schedule.    *)
THEOREM ScreeningExclusion == Spec => []ExclusiveWithinLease
BY ScreeningSafety, InvImpliesExclusion, PTL

(* A run is recorded only by the owner of the lease, on the schedule as    *)
(* the operator left it.                                                   *)
THEOREM OperatorsWin == Spec => OperatorConfigKept
<1>1. ASSUME ScreeningInv, [Next]_vars PROVE [FreshRecord]_vars
  <2> SUFFICES ASSUME NEW w \in Worker, NEW c \in Job, current[w] = c, EndsCall(w)
               PROVE  \/ UNCHANGED <<nextIn[c], failureCount[c], owner[c]>>
                      \/ /\ enabled[c] /\ owner[c] = w /\ c \notin revoked[w]
                         /\ copy[w][c] = [interval |-> interval[c], failureCount |-> failureCount[c]]
    BY DEF FreshRecord
  <2>1. phase'[w] # phase[w] /\ up'[w] /\ c # NoJob
    BY <1>1, ScreeningAssumption DEF EndsCall
  <2>2. c \in mine[w]
    BY <1>1, <2>1 DEF ScreeningInv, CallIsInBatch
  <2>3. ASSUME NEW v \in Worker, NEW rest, Record(v, rest)
        PROVE  v = w /\ owner[c] = w
    <3>1. v = w
      BY <1>1, <2>1, <2>3 DEF Record, Forget, ScreeningInv, TypeOK
    <3> QED BY <2>3, <3>1 DEF Record, Settle
  <2>4. ASSUME NEW v \in Worker, CompleteFails(v) \/ StopWorker(v)
        PROVE  UNCHANGED <<nextIn[c], failureCount[c], owner[c]>>
    <3>1. v = w
      BY <1>1, <2>1, <2>4 DEF CompleteFails, StopWorker, Forget, ScreeningInv, TypeOK
    <3>2. CompleteFails(v)
      BY <1>1, <2>1, <2>4, <3>1 DEF StopWorker, Stop, ScreeningInv, TypeOK, LeaseTypeOK
    <3> QED BY <3>2 DEF CompleteFails, Abandon, scheduleVars
  <2>5. ASSUME NEW v \in Worker,
               \/ \E k \in Job : \/ \E e \in BOOLEAN, i \in Intervals : ConfigureSchedule(v, k, e, i)
                                \/ \E S \in SUBSET owners[k] : ScreenOnRequest(v, k, S)
                                \/ ReadSubjects(v, k)
               \/ ClaimDueScreeningSchedules(v) \/ ClaimUnanswered(v)
               \/ SaveScreening(v) \/ ScreeningFails(v) \/ SaveUnanswered(v)
               \/ StartWorker(v)
        PROVE  phase'[w] = phase[w] \/ phase'[w] # "none"
    BY <1>1, <2>5 DEF ScreeningInv, TypeOK, ConfigureSchedule, ScreenOnRequest, ReadSubjects,
       ClaimDueScreeningSchedules, ClaimUnanswered, ClaimStep, SaveScreening, ScreeningFails,
       SaveUnanswered, CallEnds, StartWorker, callVars
  <2>6. CASE (\E k \in Job, o \in Owner : AddBeneficialOwner(k, o)) \/ TimePasses \/ UNCHANGED vars
    BY <2>1, <2>6 DEF AddBeneficialOwner, TimePasses, vars, callVars
  <2>7. owner[c] = w => /\ enabled[c] /\ c \notin revoked[w]
                        /\ copy[w][c] = [interval |-> interval[c], failureCount |-> failureCount[c]]
    BY <1>1, <2>2 DEF ScreeningInv, ClaimedScheduleIsFresh
  <2> QED BY <1>1, <2>1, <2>3, <2>4, <2>5, <2>6, <2>7
          DEF Next, EndsCall, CompleteScreeningSchedule, CompleteUnanswered
<1>2. ScreeningInv /\ [Next]_vars => [FreshRecord]_vars
  BY <1>1
<1> QED BY <1>2, ScreeningSafety, PTL DEF Spec, OperatorConfigKept

-----------------------------------------------------------------------------
(* The circuit breaker of the provider *)

(* Whoever reports first, p.failures is the length of the streak. *)
THEOREM ProviderSafety == ProviderSpec => []ProviderInv
<1> USE ProviderAssumption DEF ProviderInv, ProviderTypeOK, StreakCounted, Failure
<1>1. ProviderInit => ProviderInv
  BY DEF ProviderInit
<1>2. ASSUME ProviderInv, [ProviderNext]_providerVars PROVE ProviderInv'
  <2>1. ASSUME NEW c \in Caller,
               \/ Screen(c) \/ ScreenRefused(c) \/ RequestSucceeds(c) \/ RequestRetried(c)
               \/ \E f \in Failure : RequestFails(c, f)
        PROVE  ProviderInv'
    BY <1>2, <2>1 DEF Screen, ScreenRefused, RequestSucceeds, RequestRetried, RequestFails,
                      providerVars, requestVars, circuit
  <2>2. ASSUME NEW c \in Caller, Succeed(c) PROVE ProviderInv'
    BY <1>2, <2>2 DEF Succeed, EndCall
  <2>3. ASSUME NEW c \in Caller, CountFailure(c) PROVE ProviderInv'
    <3>1. CASE failures + 1 >= Threshold
      BY <1>2, <2>3, <3>1 DEF CountFailure, EndCall
    <3>2. CASE ~(failures + 1 >= Threshold)
      <4>1. /\ failures' = failures + 1 /\ failures' \in 0..Threshold - 1
            /\ recent' = [recent EXCEPT ![call[c]] = @ + 1]
            /\ call[c] \in {"transient", "contract"}
            /\ openIn' = openIn
        BY <1>2, <2>3, <3>2 DEF CountFailure
      <4>2. /\ recent' \in [{"transient", "contract"} -> Nat]
            /\ recent'["transient"] + recent'["contract"] = failures'
        <5>1. CASE call[c] = "transient"
          BY <1>2, <4>1, <5>1
        <5>2. CASE call[c] = "contract"
          BY <1>2, <4>1, <5>2
        <5> QED BY <4>1, <5>1, <5>2
      <4> QED BY <1>2, <2>3, <4>1, <4>2 DEF CountFailure, EndCall
    <3> QED BY <3>1, <3>2
  <2>4. CASE ProviderTimePasses
    BY <1>2, <2>4 DEF ProviderTimePasses, requestVars
  <2>5. CASE UNCHANGED providerVars
    BY <1>2, <2>5 DEF providerVars, requestVars, circuit
  <2> QED BY <1>2, <2>1, <2>2, <2>3, <2>4, <2>5 DEF ProviderNext
<1>3. ProviderInv /\ [ProviderNext]_providerVars => ProviderInv'
  BY <1>2
<1> QED BY <1>1, <1>3, PTL DEF ProviderSpec

(* The counters of the breaker and of the retry loops stay within bounds:  *)
(* no count survives the opening it caused.                                *)
THEOREM ProviderTypeCorrect == ProviderSpec => []ProviderTypeOK
<1>1. ProviderInv => ProviderTypeOK
  BY DEF ProviderInv
<1> QED BY <1>1, ProviderSafety, PTL

(* The circuit opens only on the last of Threshold failed calls in a row,  *)
(* for any number of concurrent callers.                                   *)
THEOREM OpensOnlyAfterStreak == ProviderSpec => OpensAfterStreak
<1>1. ASSUME ProviderInv, [ProviderNext]_providerVars PROVE [LastOfStreak]_providerVars
  <2> SUFFICES ASSUME openIn' > openIn PROVE LastOfStreak
    BY DEF LastOfStreak
  <2>1. openIn \in Nat /\ failures \in 0..Threshold - 1
    BY <1>1, ProviderAssumption DEF ProviderInv, ProviderTypeOK
  <2>2. ~ (openIn' = openIn) /\ ~ (openIn' = 0) /\ ~ (openIn' = openIn - 1)
    BY <2>1
  <2>3. PICK c \in Caller : CountFailure(c)
    BY <1>1, <2>2 DEF ProviderNext, Screen, ScreenRefused, RequestSucceeds, RequestRetried,
       RequestFails, Succeed, ProviderTimePasses, providerVars, circuit
  <2>4. failures + 1 >= Threshold
    BY <2>2, <2>3 DEF CountFailure
  <2>5. recent["transient"] + recent["contract"] = Threshold - 1
    BY <1>1, <2>1, <2>4, ProviderAssumption DEF ProviderInv, StreakCounted
  <2>6. call[c] \in Failure /\ call'[c] = "idle"
    BY <1>1, <2>3 DEF CountFailure, EndCall, ProviderInv, ProviderTypeOK
  <2> QED BY <2>5, <2>6 DEF LastOfStreak
<1>2. ProviderInv /\ [ProviderNext]_providerVars => [LastOfStreak]_providerVars
  BY <1>1
<1> QED BY <1>2, ProviderSafety, PTL DEF ProviderSpec, OpensAfterStreak
=============================================================================
