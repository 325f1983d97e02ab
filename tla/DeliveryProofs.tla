--------------------------- MODULE DeliveryProofs ---------------------------
(***************************************************************************)
(* Delivery: the leases exclude two senders, the outbox keeps the promise  *)
(* of AtLeastOnce and a worker within its lease sends only what is open,   *)
(* for any number of replicas and messages.                                *)
(***************************************************************************)
EXTENDS Delivery, LeasedWorkProofs

(* A retry delay never exceeds its cap. *)
LEMMA BackoffCapped ==
  ASSUME NEW a
  PROVE  deliveryBackoff(a) \in 0..BackoffCap
BY DeliveryAssumption DEF deliveryBackoff, DoublingBackoff

(* The delay with which an outcome is recorded is one the lease protocol   *)
(* allows.                                                                 *)
LEMMA RecordDelay ==
  ASSUME NEW b, NEW a
  PROVE  (IF b THEN deliveryBackoff(a) ELSE 0) \in 0..MaxDelay
<1>1. deliveryBackoff(a) \in 0..BackoffCap
  BY BackoffCapped
<1> QED BY <1>1, DeliveryAssumption, TimeAssumption

-----------------------------------------------------------------------------
(* Delivery's steps are steps of the lease protocol *)

(* Recording an outcome settles the row. *)
LEMMA RecordLease ==
  ASSUME LeaseTypeOK, NEW w \in Worker, NEW rest \in SUBSET Job, Record(w, rest)
  PROVE  LeaseNext
<1> DEFINE j == current[w]
           delay == IF failed[w] THEN deliveryBackoff(seen[w][j] + 1) ELSE 0
<1>1. Settle(w, j, delay, rest)
  BY DEF Record
<1>2. j \in Job
  BY <1>1 DEF Settle, LeaseTypeOK
<1>3. delay \in 0..MaxDelay
  BY RecordDelay
<1> QED BY <1>1, <1>2, <1>3 DEF LeaseNext

(* Every step of Delivery is a step of the lease protocol or leaves it alone. *)
LEMMA StepLease ==
  ASSUME LeaseTypeOK, [Next]_vars
  PROVE  [LeaseNext]_leaseVars
<1>1. ASSUME NEW w \in Worker, NEW j \in Job, Enqueue(w, j) PROVE LeaseNext
  <2>1. Reschedule(w, j, 0)
    BY <1>1 DEF Enqueue
  <2>2. 0 \in 0..MaxDelay
    BY TimeAssumption
  <2> QED BY <2>1, <2>2 DEF LeaseNext
<1>2. ASSUME NEW w \in Worker, NEW j \in Job,
             SendAccepted(w, j) \/ SendRefused(w, j) \/ SendUnroutable(w, j) \/ SendUnanswered(w, j)
      PROVE  UNCHANGED leaseVars
  BY <1>2 DEF SendAccepted, SendRefused, SendUnroutable, SendUnanswered, SendStep
<1>3. ASSUME NEW w \in Worker, ClaimOutbox(w) \/ ClaimUnanswered(w) PROVE LeaseNext
  <2>1. PICK S \in SUBSET Job, batch \in SUBSET Job : Claim(w, S, batch)
    BY <1>3 DEF ClaimOutbox, ClaimUnanswered, ClaimStep
  <2> QED BY <2>1 DEF LeaseNext
<1>4. ASSUME NEW w \in Worker, CompleteOutbox(w) \/ CompleteUnanswered(w)
      PROVE  LeaseNext
  <2>1. mine[w] \ {current[w]} \in SUBSET Job /\ {} \in SUBSET Job
    BY DEF LeaseTypeOK
  <2> QED BY <1>4, <2>1, RecordLease DEF CompleteOutbox, CompleteUnanswered
<1>5. ASSUME NEW w \in Worker, CompleteFails(w) \/ StopWorker(w) \/ StartWorker(w)
      PROVE  LeaseNext
  BY <1>5 DEF CompleteFails, StopWorker, StartWorker, LeaseNext
<1>6. CASE TimePasses
  BY <1>6 DEF TimePasses, LeaseNext
<1>7. CASE UNCHANGED vars
  BY <1>7 DEF vars
<1> QED BY <1>1, <1>2, <1>3, <1>4, <1>5, <1>6, <1>7 DEF Next

(* The lease columns and the batches of Delivery always satisfy LeaseInv.  *)
LEMMA DeliveryLeaseInv == Spec => []LeaseInv
<1>1. Init => LeaseInv
  BY LeaseInitInv DEF Init
<1>2. LeaseInv /\ [Next]_vars => LeaseInv'
  BY StepLease, LeaseNextInv DEF LeaseInv
<1> QED BY <1>1, <1>2, PTL DEF Spec

(* Two replicas send the same message at the same time only after one of   *)
(* them has outlived its lease.                                            *)
THEOREM DeliveryExclusion == Spec => []ExclusiveWithinLease
BY DeliveryLeaseInv, InvImpliesExclusion, PTL

-----------------------------------------------------------------------------
(* The inductive invariant of the rows and the sends *)

(* Delivery starts with no row, no batch and no send. *)
LEMMA DeliveryInitInv == Init => DeliveryInv
<1> SUFFICES ASSUME Init PROVE DeliveryInv
  OBVIOUS
<1>1. LeaseTypeOK
  BY LeaseInitInv DEF Init, LeaseInv
<1>2. TypeOK
  BY <1>1 DEF Init, TypeOK
<1> QED BY <1>2, DeliveryAssumption
        DEF Init, LeaseInit, DeliveryInv, BatchIsSaved, ClaimedCopyIsFresh,
            SentIsInBatch, DeliveredWasAccepted

(* A saved row is in no batch. *)
LEMMA EnqueueInv ==
  ASSUME DeliveryInv, LeaseTypeOK', NEW r \in Worker, NEW k \in Job, Enqueue(r, k)
  PROVE  DeliveryInv'
<1> USE OwnerAssumption DEF DeliveryInv
<1>1. TypeOK'
  BY DEF TypeOK, Enqueue, sendVars
<1>2. BatchIsSaved'
  BY DEF TypeOK, LeaseTypeOK, Enqueue, Reschedule, BatchIsSaved
<1>3. ClaimedCopyIsFresh'
  BY DEF TypeOK, LeaseTypeOK, Enqueue, Reschedule, sendVars, ClaimedCopyIsFresh
<1>4. SentIsInBatch' /\ DeliveredWasAccepted'
  BY DEF TypeOK, LeaseTypeOK, Enqueue, Reschedule, sendVars, SentIsInBatch,
         DeliveredWasAccepted
<1> QED BY <1>1, <1>2, <1>3, <1>4

(* A claim returns the rows as they are. *)
LEMMA ClaimOutboxInv ==
  ASSUME DeliveryInv, LeaseTypeOK', NEW v \in Worker, ClaimOutbox(v) \/ ClaimUnanswered(v)
  PROVE  DeliveryInv'
<1> USE DEF DeliveryInv
<1>0. PICK S \in SUBSET Job, batch \in SUBSET Job :
        /\ Claim(v, S, batch)
        /\ \A j \in S : status[j] = "pending"
        /\ seen' = [seen EXCEPT ![v] = [j \in Job |-> IF j \in batch THEN attempts[j] ELSE 0]]
  BY DEF ClaimOutbox, ClaimUnanswered, ClaimStep, Earliest
<1>a. UNCHANGED <<status, attempts, current, failed, accepted>>
  BY DEF ClaimOutbox, ClaimUnanswered, ClaimStep, rowVars
<1>1. TypeOK'
  <2>1. [j \in Job |-> IF j \in batch THEN attempts[j] ELSE 0] \in [Job -> Nat]
    BY DEF TypeOK
  <2> QED BY <1>0, <1>a, <2>1 DEF TypeOK
<1>2. BatchIsSaved'
  BY <1>0, <1>a DEF TypeOK, LeaseTypeOK, Claim, BatchIsSaved
<1>3. ClaimedCopyIsFresh'
  <2> SUFFICES ASSUME NEW w \in Worker, NEW j \in mine'[w], owner'[j] = w
               PROVE  status[j] = "pending" /\ seen'[w][j] = attempts[j]
    BY <1>a DEF ClaimedCopyIsFresh
  <2>1. CASE w = v
    BY <1>0, <2>1 DEF TypeOK, LeaseTypeOK, Claim
  <2>2. CASE w # v
    BY <1>0, <2>2 DEF TypeOK, LeaseTypeOK, Claim, ClaimedCopyIsFresh
  <2> QED BY <2>1, <2>2
<1>4. SentIsInBatch' /\ DeliveredWasAccepted'
  BY <1>0, <1>a DEF TypeOK, LeaseTypeOK, Claim, SentIsInBatch, DeliveredWasAccepted
<1> QED BY <1>1, <1>2, <1>3, <1>4

(* A send without an error was accepted. *)
LEMMA SendInv ==
  ASSUME DeliveryInv, NEW v \in Worker, NEW k \in Job,
         SendAccepted(v, k) \/ SendRefused(v, k) \/ SendUnroutable(v, k) \/ SendUnanswered(v, k)
  PROVE  DeliveryInv'
<1> USE DEF DeliveryInv
<1>0. PICK a \in BOOLEAN, e \in BOOLEAN : (a \/ e) /\ SendStep(v, k, a, e)
  BY DEF SendAccepted, SendRefused, SendUnroutable, SendUnanswered
<1>a. UNCHANGED leaseVars /\ UNCHANGED <<status, attempts, seen>>
  BY <1>0 DEF SendStep, rowVars
<1>b. /\ accepted' \in [Job -> 0..2]
      /\ \A j \in Job : accepted[j] > 0 => accepted'[j] > 0
      /\ a => accepted'[k] > 0
  BY <1>0 DEF SendStep, TypeOK
<1>1. TypeOK'
  BY <1>0, <1>a, <1>b DEF TypeOK, LeaseTypeOK, leaseVars, SendStep
<1>2. BatchIsSaved' /\ ClaimedCopyIsFresh'
  BY <1>a DEF leaseVars, BatchIsSaved, ClaimedCopyIsFresh
<1>3. DeliveredWasAccepted'
  BY <1>a, <1>b DEF DeliveredWasAccepted
<1>4. SentIsInBatch'
  <2> SUFFICES ASSUME NEW w \in Worker, current'[w] # NoJob
               PROVE  /\ current'[w] \in mine[w]
                      /\ ~failed'[w] => accepted'[current'[w]] > 0
    BY <1>a DEF leaseVars, SentIsInBatch
  <2>1. CASE w = v
    BY <1>0, <1>b, <2>1 DEF SendStep, TypeOK
  <2>2. CASE w # v
    BY <1>0, <1>b, <2>2 DEF SendStep, TypeOK, SentIsInBatch
  <2> QED BY <2>1, <2>2
<1> QED BY <1>1, <1>2, <1>3, <1>4

(* Recording touches a row that no other worker may record. *)
LEMMA RecordInv ==
  ASSUME DeliveryInv, LeaseTypeOK', NEW v \in Worker, NEW rest, Record(v, rest)
  PROVE  DeliveryInv'
<1> USE OwnerAssumption, DeliveryAssumption DEF DeliveryInv
<1> DEFINE k == current[v]
<1>0. /\ k # NoJob /\ k \in Job /\ k \in mine[v] /\ owner[k] = v
      /\ owner' = [owner EXCEPT ![k] = NoOwner]
      /\ UNCHANGED accepted
      /\ status' = [status EXCEPT ![k] = IF failed[v] THEN "pending" ELSE "delivered"]
      /\ attempts' = [attempts EXCEPT ![k] = Counted(@)]
  BY DEF Record, Settle, TypeOK, LeaseTypeOK
<1>a. /\ mine'[v] = rest /\ rest \subseteq mine[v] \ {k}
      /\ \A w \in Worker : w # v => mine'[w] = mine[w]
  <2>1. rest \in {mine[v] \ {k}, {}}
    BY DEF Record, Settle
  <2>2. mine' = [mine EXCEPT ![v] = rest]
    BY DEF Record, Settle, BatchOver
  <2> QED BY <2>1, <2>2 DEF TypeOK, LeaseTypeOK
<1>b. /\ current'[v] = NoJob
      /\ \A w \in Worker : w # v => /\ current'[w] = current[w]
                                   /\ failed'[w] = failed[w]
                                   /\ seen'[w] = seen[w]
      /\ rest # {} => \A j \in Job \ {k} : seen'[v][j] = seen[v][j]
  BY DEF Record, Forget, TypeOK
<1>1. TypeOK'
  <2>1. /\ seen' \in [Worker -> [Job -> Nat]]
        /\ current' \in [Worker -> Job \union {NoJob}]
        /\ failed' \in [Worker -> BOOLEAN]
    <3>1. CASE rest = {}
      <4>1. Forget(v)
        BY <3>1 DEF Record
      <4>2. [j \in Job |-> 0] \in [Job -> Nat]
        OBVIOUS
      <4> QED BY <4>1, <4>2 DEF Forget, TypeOK
    <3>2. CASE rest # {}
      <4>1. seen' = [seen EXCEPT ![v][k] = 0]
        BY <3>2 DEF Record
      <4>2. [seen[v] EXCEPT ![k] = 0] \in [Job -> Nat]
        BY <1>0 DEF TypeOK
      <4> QED BY <3>2, <4>1, <4>2 DEF Record, TypeOK
    <3> QED BY <3>1, <3>2
  <2>2. status' \in [Job -> {"absent", "pending", "delivered"}] /\ attempts' \in [Job -> Nat]
    BY <1>0 DEF TypeOK, Counted
  <2> QED BY <1>0, <2>1, <2>2 DEF TypeOK
<1>2. BatchIsSaved'
  BY <1>0, <1>a DEF TypeOK, BatchIsSaved, LeaseTypeOK
<1>3. ClaimedCopyIsFresh'
  <2> SUFFICES ASSUME NEW w \in Worker, NEW j \in mine'[w], owner'[j] = w
               PROVE  status'[j] = "pending" /\ seen'[w][j] = attempts'[j]
    BY DEF ClaimedCopyIsFresh
  <2>1. j \in mine[w] /\ j \in Job
    BY <1>a DEF TypeOK, LeaseTypeOK
  <2>2. j # k /\ owner[j] = w
    BY <1>0, <2>1 DEF TypeOK, LeaseTypeOK
  <2>3. status'[j] = status[j] /\ attempts'[j] = attempts[j]
    BY <1>0, <2>1, <2>2 DEF TypeOK
  <2>4. seen'[w][j] = seen[w][j]
    BY <1>a, <1>b, <2>1, <2>2
  <2> QED BY <2>1, <2>2, <2>3, <2>4 DEF ClaimedCopyIsFresh
<1>4. SentIsInBatch'
  BY <1>0, <1>a, <1>b DEF SentIsInBatch
<1>5. DeliveredWasAccepted'
  BY <1>0 DEF TypeOK, SentIsInBatch, DeliveredWasAccepted
<1> QED BY <1>1, <1>2, <1>3, <1>4, <1>5

(* A batch that ends without a record leaves the rows alone. *)
LEMMA ForgetInv ==
  ASSUME DeliveryInv, LeaseTypeOK', NEW v \in Worker,
         CompleteFails(v) \/ StopWorker(v)
  PROVE  DeliveryInv'
<1> USE OwnerAssumption DEF DeliveryInv
<1>0. /\ Forget(v) /\ BatchOver(v) /\ UNCHANGED <<status, attempts, accepted>>
      /\ \A j \in Job : owner'[j] = owner[j] \/ owner'[j] = Gone
  BY DEF CompleteFails, StopWorker, Stop, Abandon, rowVars, TypeOK, LeaseTypeOK
<1>1. TypeOK'
  BY <1>0 DEF TypeOK, Forget
<1>2. BatchIsSaved'
  BY <1>0 DEF TypeOK, LeaseTypeOK, BatchOver, BatchIsSaved
<1>3. ClaimedCopyIsFresh'
  BY <1>0 DEF TypeOK, LeaseTypeOK, BatchOver, Forget, ClaimedCopyIsFresh
<1>4. SentIsInBatch' /\ DeliveredWasAccepted'
  BY <1>0 DEF TypeOK, LeaseTypeOK, BatchOver, Forget, SentIsInBatch, DeliveredWasAccepted
<1> QED BY <1>1, <1>2, <1>3, <1>4

(* Restarts and time change neither the rows nor the sends. *)
LEMMA IdleInv ==
  ASSUME DeliveryInv, LeaseTypeOK',
         \/ \E w \in Worker : StartWorker(w)
         \/ TimePasses
         \/ UNCHANGED vars
  PROVE  DeliveryInv'
<1>1. UNCHANGED <<owner, mine, status, attempts, seen, current, failed, accepted>>
  BY DEF StartWorker, Start, TimePasses, Tick, vars, leaseVars, rowVars, sendVars
<1> QED BY <1>1
        DEF DeliveryInv, TypeOK, BatchIsSaved, ClaimedCopyIsFresh, SentIsInBatch,
            DeliveredWasAccepted

(* Every step keeps the invariant. *)
LEMMA DeliveryNextInv ==
  ASSUME DeliveryInv, LeaseTypeOK', [Next]_vars
  PROVE  DeliveryInv'
<1>1. ASSUME NEW w \in Worker, NEW j \in Job,
             \/ Enqueue(w, j)
             \/ SendAccepted(w, j) \/ SendRefused(w, j) \/ SendUnroutable(w, j) \/ SendUnanswered(w, j)
      PROVE  DeliveryInv'
  BY <1>1, EnqueueInv, SendInv
<1>2. ASSUME NEW w \in Worker,
             \/ ClaimOutbox(w) \/ ClaimUnanswered(w)
             \/ CompleteOutbox(w) \/ CompleteUnanswered(w)
      PROVE  DeliveryInv'
  BY <1>2, ClaimOutboxInv, RecordInv DEF CompleteOutbox, CompleteUnanswered
<1>3. ASSUME NEW w \in Worker, CompleteFails(w) \/ StopWorker(w)
      PROVE  DeliveryInv'
  BY <1>3, ForgetInv
<1>4. ASSUME NEW w \in Worker, StartWorker(w) PROVE DeliveryInv'
  BY <1>4, IdleInv
<1>5. CASE TimePasses \/ UNCHANGED vars
  BY <1>5, IdleInv
<1> QED BY <1>1, <1>2, <1>3, <1>4, <1>5 DEF Next

(* The worker's copy of a row it owns is current, a message in a batch was *)
(* saved, and only accepted messages are recorded as delivered.            *)
THEOREM DeliverySafety == Spec => []DeliveryInv
<1>1. LeaseInv' => LeaseTypeOK'
  BY DEF LeaseInv
<1>2. DeliveryInv /\ LeaseInv' /\ [Next]_vars => DeliveryInv'
  BY <1>1, DeliveryNextInv
<1> QED BY <1>2, DeliveryInitInv, DeliveryLeaseInv, PTL DEF Spec

(* Every variable keeps its type: delays stay within the cap whatever the  *)
(* number of attempts, as the bounds on nextIn require.                    *)
THEOREM DeliveryTypeCorrect == Spec => []TypeOK
<1>1. DeliveryInv => TypeOK
  BY DEF DeliveryInv
<1> QED BY <1>1, DeliverySafety, PTL

-----------------------------------------------------------------------------
(* The promise of the outbox *)

(* Every step of Delivery is a step of AtLeastOnce or a stutter of it. *)
LEMMA StepPromise ==
  ASSUME DeliveryInv, [Next]_vars
  PROVE  [Promise!Next]_(Promise!promiseVars)
<1> USE DEF Promise!promiseVars, Promise!Next
<1>1. ASSUME NEW w \in Worker, NEW j \in Job, Enqueue(w, j) PROVE Promise!Save(j)
  BY <1>1 DEF Enqueue, Promise!Save
<1>2. ASSUME NEW w \in Worker, NEW j \in Job,
             SendAccepted(w, j) \/ SendRefused(w, j) \/ SendUnroutable(w, j) \/ SendUnanswered(w, j)
      PROVE  Promise!Accept(j) \/ UNCHANGED <<status, accepted>>
  <2>1. PICK a \in BOOLEAN, e \in BOOLEAN : SendStep(w, j, a, e)
    BY <1>2 DEF SendAccepted, SendRefused, SendUnroutable, SendUnanswered
  <2>2. status[j] # "absent"
    BY <2>1 DEF SendStep, DeliveryInv, BatchIsSaved
  <2> QED BY <2>1, <2>2 DEF SendStep, rowVars, Promise!Accept
<1>3. ASSUME NEW w \in Worker, NEW rest, Record(w, rest)
      PROVE  \E j \in Job : Promise!Record(j) \/ UNCHANGED <<status, accepted>>
  <2>1. current[w] \in mine[w] /\ owner[current[w]] = w /\ current[w] \in Job
    BY <1>3 DEF Record, Settle, DeliveryInv, TypeOK, LeaseTypeOK
  <2>2. status[current[w]] = "pending"
    BY <2>1 DEF DeliveryInv, ClaimedCopyIsFresh
  <2>3. ~failed[w] => accepted[current[w]] > 0
    BY <1>3 DEF Record, DeliveryInv, SentIsInBatch
  <2>4. CASE failed[w]
    BY <1>3, <2>1, <2>2, <2>4 DEF Record, DeliveryInv, TypeOK
  <2>5. CASE ~failed[w]
    BY <1>3, <2>1, <2>2, <2>3, <2>5 DEF Record, Promise!Record
  <2> QED BY <2>4, <2>5
<1>4. ASSUME NEW w \in Worker,
             \/ ClaimOutbox(w) \/ ClaimUnanswered(w)
             \/ CompleteFails(w) \/ StopWorker(w) \/ StartWorker(w)
      PROVE  UNCHANGED <<status, accepted>>
  BY <1>4 DEF ClaimOutbox, ClaimUnanswered, ClaimStep, CompleteFails, StopWorker, StartWorker, rowVars
<1>5. CASE TimePasses \/ UNCHANGED vars
  BY <1>5 DEF TimePasses, vars, rowVars
<1> QED BY <1>1, <1>2, <1>3, <1>4, <1>5 DEF Next, CompleteOutbox, CompleteUnanswered

(* Delivery keeps the promise of the outbox: delivered means accepted, and *)
(* delivered is final, under any interleaving of replicas, ends of         *)
(* processes, lost answers and expired leases.                             *)
THEOREM DeliveryKeepsPromise == Spec => AtLeastOnceSpec
<1>1. Init => Promise!Init
  BY DEF Init, Promise!Init
<1>2. DeliveryInv /\ [Next]_vars => [Promise!Next]_(Promise!promiseVars)
  BY StepPromise
<1> QED BY <1>1, <1>2, DeliverySafety, PTL DEF Spec, AtLeastOnceSpec, Promise!Spec

(* An attempt is recorded only by the owner of the lease, on the row as it *)
(* was when it was claimed.                                                *)
THEOREM DeliveryFencing == Spec => AttemptFromFreshClaim
<1>1. ASSUME DeliveryInv, [Next]_vars PROVE [FreshAttempt]_vars
  <2>1. ASSUME NEW w \in Worker, NEW rest, Record(w, rest) PROVE FreshAttempt
    <3>1. current[w] \in mine[w] /\ owner[current[w]] = w /\ current[w] \in Job
      BY <1>1, <2>1 DEF Record, Settle, DeliveryInv, TypeOK, LeaseTypeOK
    <3>2. seen[w][current[w]] = attempts[current[w]]
      BY <1>1, <3>1 DEF DeliveryInv, ClaimedCopyIsFresh
    <3>3. attempts' = [attempts EXCEPT ![current[w]] = Counted(@)]
      BY <2>1 DEF Record
    <3> QED BY <1>1, <3>1, <3>2, <3>3 DEF DeliveryInv, TypeOK, FreshAttempt, Counted
  <2>2. ASSUME ~(\E w \in Worker : CompleteOutbox(w) \/ CompleteUnanswered(w))
        PROVE  UNCHANGED attempts
    BY <1>1, <2>2
       DEF Next, vars, rowVars, Enqueue, SendAccepted, SendRefused, SendUnroutable, SendUnanswered,
           SendStep, ClaimOutbox, ClaimUnanswered, ClaimStep, CompleteFails,
           StopWorker, StartWorker, TimePasses
  <2> QED BY <2>1, <2>2 DEF CompleteOutbox, CompleteUnanswered, FreshAttempt
<1>2. DeliveryInv /\ [Next]_vars => [FreshAttempt]_vars
  BY <1>1
<1> QED BY <1>2, DeliverySafety, PTL DEF Spec, AttemptFromFreshClaim

-----------------------------------------------------------------------------
(* What is sent *)

(* No lease of a message is cleared by hand: only rows that were never     *)
(* saved are enqueued.                                                     *)
LEMMA NothingRevoked ==
  ASSUME DeliveryInv, [Next]_vars, \A w \in Worker : revoked[w] = {}
  PROVE  \A w \in Worker : revoked'[w] = {}
<1> USE DEF DeliveryInv, TypeOK, LeaseTypeOK
<1>1. ASSUME NEW r \in Worker, NEW k \in Job, Enqueue(r, k)
      PROVE  \A w \in Worker : revoked'[w] = {}
  BY <1>1 DEF Enqueue, Reschedule, BatchIsSaved
<1>2. ASSUME NEW v \in Worker, BatchOver(v) PROVE \A w \in Worker : revoked'[w] = {}
  BY <1>2 DEF BatchOver
<1>3. ASSUME NEW v \in Worker, NEW rest, Record(v, rest)
      PROVE  \A w \in Worker : revoked'[w] = {}
  BY <1>2, <1>3 DEF Record, Settle
<1>4. ASSUME NEW v \in Worker, CompleteFails(v) \/ StopWorker(v)
      PROVE  \A w \in Worker : revoked'[w] = {}
  BY <1>2, <1>4 DEF CompleteFails, Abandon, StopWorker, Stop
<1>5. ASSUME NEW v \in Worker, ClaimOutbox(v) \/ ClaimUnanswered(v) \/ StartWorker(v)
      PROVE  UNCHANGED revoked
  BY <1>5 DEF ClaimOutbox, ClaimUnanswered, ClaimStep, Claim, StartWorker, Start
<1>6. ASSUME NEW v \in Worker, NEW j \in Job,
             SendAccepted(v, j) \/ SendRefused(v, j) \/ SendUnroutable(v, j) \/ SendUnanswered(v, j)
      PROVE  UNCHANGED revoked
  BY <1>6 DEF SendAccepted, SendRefused, SendUnroutable, SendUnanswered, SendStep, leaseVars
<1>7. CASE TimePasses \/ UNCHANGED vars
  BY <1>7 DEF TimePasses, Tick, vars, leaseVars
<1> QED
  BY <1>1, <1>3, <1>4, <1>5, <1>6, <1>7 DEF Next, CompleteOutbox, CompleteUnanswered

(* A worker within its lease owns the message it sends, and nobody else    *)
(* who has sent it is within theirs.                                       *)
LEMMA SendStepInLease ==
  ASSUME DeliveryInv, LeaseInv, ClaimedIsDue, \A w \in Worker : revoked[w] = {},
         NEW u \in Worker, NEW j \in Job, NEW a, NEW e, SendStep(u, j, a, e)
  PROVE  SendInLease
<1> USE DEF DeliveryInv, TypeOK, LeaseTypeOK
<1>0. \A w \in Worker : age[w] \in Nat
  BY TimeAssumption
<1> SUFFICES ASSUME NEW w \in Worker, current[w] = NoJob, current'[w] # NoJob, InLease(w)
             PROVE  /\ status[current'[w]] = "pending"
                    /\ nextIn[current'[w]] <= Skew[w]
                    /\ \A v \in Worker \ {w} : current[v] = current'[w] => ~InLease(v)
  BY DEF SendInLease
<1>1. w = u /\ current'[w] = j /\ j \in mine[w]
  BY DEF SendStep
<1>2. owner[j] = w
  <2>1. ~(age[w] + MaxSkew >= LeaseTime)
    BY <1>0, TimeAssumption DEF InLease
  <2> QED BY <1>1, <2>1 DEF LeaseInv, LostOnlyByOverrun
<1>3. status[j] = "pending" /\ nextIn[j] <= Skew[w]
  BY <1>1, <1>2 DEF ClaimedCopyIsFresh, ClaimedIsDue
<1>4. ASSUME NEW v \in Worker \ {w}, current[v] = j PROVE ~InLease(v)
  <2>1. j \in mine[v] /\ owner[j] # v
    BY <1>2, <1>4, DeliveryAssumption DEF SentIsInBatch
  <2>2. age[v] + MaxSkew >= LeaseTime
    BY <2>1 DEF LeaseInv, LostOnlyByOverrun
  <2> QED BY <1>0, <2>2, TimeAssumption DEF InLease
<1> QED BY <1>1, <1>3, <1>4

(* Within its lease a worker sends only pending, due messages that nobody  *)
(* else has sent within theirs, whatever late workers record meanwhile.    *)
THEOREM DeliverySendsInLease == Spec => SendsWithinLease
<1> DEFINE Unrevoked == \A w \in Worker : revoked[w] = {}
<1>1. Init => ClaimedIsDue /\ Unrevoked
  BY DEF Init, LeaseInit, ClaimedIsDue
<1>2. ASSUME DeliveryInv, ClaimedIsDue, Unrevoked, [Next]_vars PROVE (ClaimedIsDue /\ Unrevoked)'
  <2>1. LeaseTypeOK
    BY <1>2 DEF DeliveryInv, TypeOK
  <2>2. ClaimedIsDue'
    BY <1>2, <2>1, StepLease, DueNextInv
  <2> QED BY <1>2, <2>2, NothingRevoked
<1>3. ASSUME DeliveryInv, LeaseInv, ClaimedIsDue, Unrevoked, [Next]_vars PROVE [SendInLease]_vars
  <2>1. ASSUME NEW w \in Worker, NEW j \in Job,
               SendAccepted(w, j) \/ SendRefused(w, j) \/ SendUnroutable(w, j) \/ SendUnanswered(w, j)
        PROVE  SendInLease
    BY <1>3, <2>1, SendStepInLease DEF SendAccepted, SendRefused, SendUnroutable, SendUnanswered
  <2>2. ASSUME ~\E w \in Worker, j \in Job :
                  SendAccepted(w, j) \/ SendRefused(w, j) \/ SendUnroutable(w, j) \/ SendUnanswered(w, j),
               Next
        PROVE  \A w \in Worker : current'[w] = current[w] \/ current'[w] = NoJob
    <3> USE <1>3 DEF DeliveryInv, TypeOK
    <3>1. ASSUME NEW v \in Worker, CompleteOutbox(v) \/ CompleteUnanswered(v)
          PROVE  \A w \in Worker : current'[w] = current[w] \/ current'[w] = NoJob
      BY <3>1 DEF CompleteOutbox, CompleteUnanswered, Record, Forget
    <3>2. ASSUME NEW v \in Worker, CompleteFails(v) \/ StopWorker(v)
          PROVE  \A w \in Worker : current'[w] = current[w] \/ current'[w] = NoJob
      BY <3>2 DEF CompleteFails, StopWorker, Forget
    <3>3. ASSUME NEW v \in Worker,
                 ClaimOutbox(v) \/ ClaimUnanswered(v) \/ StartWorker(v) \/ \E j \in Job : Enqueue(v, j)
          PROVE  UNCHANGED current
      BY <3>3 DEF ClaimOutbox, ClaimUnanswered, ClaimStep, StartWorker, Enqueue, sendVars
    <3>4. CASE TimePasses
      BY <3>4 DEF TimePasses, sendVars
    <3> QED BY <2>2, <3>1, <3>2, <3>3, <3>4 DEF Next
  <2>3. CASE UNCHANGED vars
    BY <2>3
  <2> QED BY <1>3, <2>1, <2>2, <2>3 DEF SendInLease
<1>4. DeliveryInv /\ ClaimedIsDue /\ Unrevoked /\ [Next]_vars => (ClaimedIsDue /\ Unrevoked)'
  BY <1>2
<1>5. DeliveryInv /\ LeaseInv /\ ClaimedIsDue /\ Unrevoked /\ [Next]_vars => [SendInLease]_vars
  BY <1>3
<1> HIDE DEF Unrevoked
<1> QED BY <1>1, <1>4, <1>5, DeliverySafety, DeliveryLeaseInv, PTL DEF Spec, SendsWithinLease

-----------------------------------------------------------------------------
(* When there are no duplicates *)

(* Within its lease a worker owns every row of its batch. *)
LEMMA OwnsItsBatch ==
  ASSUME LeaseInv, BatchesWithinLease, \A w \in Worker : revoked[w] = {}
  PROVE  \A w \in Worker : \A j \in mine[w] : owner[j] = w
<1> SUFFICES ASSUME NEW w \in Worker, NEW j \in mine[w], owner[j] # w PROVE FALSE
  OBVIOUS
<1>1. age[w] + MaxSkew >= LeaseTime
  BY DEF LeaseInv, LostOnlyByOverrun
<1>2. age[w] + MaxSkew < LeaseTime
  BY DEF BatchesWithinLease
<1>3. age[w] \in Nat
  BY DEF LeaseInv, LeaseTypeOK
<1> QED BY <1>1, <1>2, <1>3, TimeAssumption

(* While batches stay within their leases and nothing fails unheard, every *)
(* message that was accepted is recorded by the worker that sent it.       *)
LEMMA SentOncePreserved ==
  ASSUME Faults = {}, DeliveryInv, LeaseInv, LeaseInv', BatchesWithinLease, BatchesWithinLease',
         SentOnce, [Next]_vars
  PROVE  SentOnce'
<1> USE OwnerAssumption, DeliveryAssumption DEF DeliveryInv, TypeOK, LeaseTypeOK
<1>a. \A w \in Worker : revoked[w] = {} /\ revoked'[w] = {}
  BY NothingRevoked DEF SentOnce
<1>b. \A w \in Worker : \A j \in mine[w] : owner[j] = w
  BY <1>a, OwnsItsBatch
<1>c. \A w \in Worker : \A j \in mine'[w] : owner'[j] = w
  <2> SUFFICES ASSUME NEW w \in Worker, NEW j \in mine'[w], owner'[j] # w PROVE FALSE
    OBVIOUS
  <2>1. age'[w] + MaxSkew >= LeaseTime
    BY <1>a DEF LeaseInv, LostOnlyByOverrun
  <2>2. age'[w] + MaxSkew < LeaseTime
    BY DEF BatchesWithinLease
  <2>3. age'[w] \in Nat
    BY DEF LeaseInv
  <2> QED BY <2>1, <2>2, <2>3, TimeAssumption
<1>1. ASSUME NEW r \in Worker, NEW k \in Job, Enqueue(r, k) PROVE SentOnce'
  <2>1. \A w \in Worker : current[w] # k
    BY <1>1 DEF Enqueue, BatchIsSaved, SentIsInBatch
  <2>2. /\ status[k] = "absent" /\ UNCHANGED <<current, failed, accepted>>
        /\ \A j \in Job \ {k} : status'[j] = status[j] /\ owner'[j] = owner[j]
    BY <1>1 DEF Enqueue, Reschedule, sendVars
  <2>3. accepted[k] # 1
    BY <2>1, <2>2 DEF SentOnce
  <2>4. ASSUME NEW j \in Job
        PROVE  /\ accepted'[j] <= 1
               /\ accepted'[j] = 1 =>
                    \/ status'[j] = "delivered"
                    \/ \E w \in Worker : current'[w] = j /\ ~failed'[w] /\ owner'[j] = w
    BY <2>2, <2>3 DEF SentOnce
  <2> QED BY <1>a, <2>4 DEF SentOnce
<1>2. ASSUME NEW v \in Worker, NEW k \in Job,
             SendAccepted(v, k) \/ SendRefused(v, k) \/ SendUnroutable(v, k) \/ SendUnanswered(v, k)
      PROVE  SentOnce'
  <2>1. PICK a \in BOOLEAN : SendStep(v, k, a, ~a)
    BY <1>2 DEF SendAccepted, SendRefused, SendUnroutable, SendUnanswered
  <2>2. /\ k \in mine[v] /\ owner[k] = v /\ current[v] = NoJob
        /\ UNCHANGED <<owner, status>>
        /\ current'[v] = k /\ (failed'[v] <=> ~a)
        /\ \A w \in Worker \ {v} : current'[w] = current[w] /\ failed'[w] = failed[w]
    BY <1>b, <2>1 DEF SendStep, leaseVars, rowVars
  <2>3. accepted[k] = 0
    <3>1. status[k] = "pending"
      BY <2>2 DEF ClaimedCopyIsFresh
    <3> QED BY <2>2, <3>1 DEF SentOnce
  <2>4. /\ \A j \in Job \ {k} : accepted'[j] = accepted[j]
        /\ accepted'[k] = IF a THEN 1 ELSE 0
    BY <2>1, <2>3 DEF SendStep
  <2>5. ASSUME NEW j \in Job \ {k}
        PROVE  /\ accepted'[j] <= 1
               /\ accepted'[j] = 1 =>
                    \/ status'[j] = "delivered"
                    \/ \E w \in Worker : current'[w] = j /\ ~failed'[w] /\ owner'[j] = w
    <3>1. /\ accepted[j] <= 1
          /\ accepted[j] = 1 =>
               \/ status[j] = "delivered"
               \/ \E w \in Worker \ {v} : current[w] = j /\ ~failed[w] /\ owner[j] = w
      BY <2>2 DEF SentOnce
    <3> QED BY <2>2, <2>4, <3>1
  <2> QED BY <1>a, <2>2, <2>4, <2>5 DEF SentOnce
<1>3. ASSUME NEW v \in Worker, ClaimOutbox(v) \/ ClaimUnanswered(v) PROVE SentOnce'
  <2>1. PICK S \in SUBSET Job, batch \in SUBSET Job : Claim(v, S, batch)
    BY <1>3 DEF ClaimOutbox, ClaimUnanswered, ClaimStep
  <2>2. UNCHANGED <<status, current, failed, accepted>>
    BY <1>3 DEF ClaimOutbox, ClaimUnanswered, ClaimStep, rowVars
  <2>3. ASSUME NEW w \in Worker, current[w] # NoJob PROVE owner'[current[w]] = w
    <3>1. current[w] \in mine[w] /\ w # v
      BY <2>1, <2>3 DEF SentIsInBatch, Claim
    <3>2. mine'[w] = mine[w]
      BY <2>1, <3>1 DEF Claim
    <3> QED BY <1>c, <3>1, <3>2
  <2>4. ASSUME NEW j \in Job
        PROVE  /\ accepted'[j] <= 1
               /\ accepted'[j] = 1 =>
                    \/ status'[j] = "delivered"
                    \/ \E w \in Worker : current'[w] = j /\ ~failed'[w] /\ owner'[j] = w
    <3>1. accepted[j] <= 1
      BY DEF SentOnce
    <3>2. ASSUME accepted[j] = 1, status[j] # "delivered"
          PROVE  \E w \in Worker : current[w] = j /\ ~failed[w] /\ owner'[j] = w
      <4>1. PICK w \in Worker : current[w] = j /\ ~failed[w]
        BY <3>2 DEF SentOnce
      <4>2. owner'[j] = w
        BY <2>3, <4>1
      <4> QED BY <4>1, <4>2
    <3> QED BY <2>2, <3>1, <3>2
  <2> QED BY <1>a, <2>4 DEF SentOnce
<1>4. ASSUME NEW v \in Worker, NEW rest, Record(v, rest) PROVE SentOnce'
  <2> DEFINE k == current[v]
  <2>1. /\ k \in Job /\ owner[k] = v /\ UNCHANGED accepted
        /\ status'[k] = IF failed[v] THEN "pending" ELSE "delivered"
        /\ \A j \in Job \ {k} : status'[j] = status[j] /\ owner'[j] = owner[j]
        /\ \A w \in Worker \ {v} : current'[w] = current[w] /\ failed'[w] = failed[w]
    BY <1>4 DEF Record, Settle, Forget
  <2>2. status[k] = "pending"
    BY <1>4, <2>1 DEF Record, Settle, ClaimedCopyIsFresh
  <2>3. failed[v] => accepted[k] # 1
    <3>1. \A w \in Worker : owner[k] = w => w = v
      BY <2>1
    <3>2. accepted[k] = 1 => \E w \in Worker : current[w] = k /\ ~failed[w] /\ owner[k] = w
      BY <2>1, <2>2 DEF SentOnce
    <3> QED BY <3>1, <3>2
  <2>4. ASSUME NEW j \in Job \ {k}
        PROVE  /\ accepted'[j] <= 1
               /\ accepted'[j] = 1 =>
                    \/ status'[j] = "delivered"
                    \/ \E w \in Worker : current'[w] = j /\ ~failed'[w] /\ owner'[j] = w
    BY <2>1 DEF SentOnce
  <2>5. /\ accepted'[k] <= 1
        /\ accepted'[k] = 1 => status'[k] = "delivered"
    BY <2>1, <2>3 DEF SentOnce
  <2> QED BY <1>a, <2>1, <2>4, <2>5 DEF SentOnce
<1>5. ASSUME NEW v \in Worker, CompleteFails(v) \/ StopWorker(v) PROVE FALSE
  BY <1>5, <1>b DEF CompleteFails, StopWorker, SentIsInBatch
<1>6. ASSUME UNCHANGED <<owner, status, current, failed, accepted>> PROVE SentOnce'
  BY <1>6, <1>a DEF SentOnce
<1>7. ASSUME NEW v \in Worker, StartWorker(v) PROVE SentOnce'
  BY <1>6, <1>7 DEF StartWorker, Start, rowVars, sendVars
<1>8. CASE TimePasses \/ UNCHANGED vars
  BY <1>6, <1>8 DEF TimePasses, Tick, vars, leaseVars, rowVars, sendVars
<1> QED
  BY <1>1, <1>2, <1>3, <1>4, <1>5, <1>7, <1>8 DEF Next, CompleteOutbox, CompleteUnanswered

(* The claim of docs/ARCHITECTURE.md:69 with what it leaves out: any       *)
(* number of replicas deliver without duplicates as long as every batch is *)
(* done before its leases can run out on any replica's clock, no process   *)
(* ends in the middle of one and no call fails after it took effect.       *)
THEOREM NoDuplicatesWithinLease ==
  ASSUME Faults = {}
  PROVE  Spec /\ []BatchesWithinLease => []NoDuplicateDelivery
<1>1. Init => SentOnce
  BY DEF Init, LeaseInit, SentOnce
<1>2. /\ DeliveryInv /\ LeaseInv /\ LeaseInv' /\ BatchesWithinLease /\ BatchesWithinLease'
      /\ SentOnce /\ [Next]_vars
      => SentOnce'
  BY SentOncePreserved
<1>3. SentOnce => NoDuplicateDelivery
  BY DEF SentOnce, NoDuplicateDelivery
<1> QED BY <1>1, <1>2, <1>3, DeliverySafety, DeliveryLeaseInv, PTL DEF Spec
=============================================================================
