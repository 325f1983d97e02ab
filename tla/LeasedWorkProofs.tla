-------------------------- MODULE LeasedWorkProofs --------------------------
(***************************************************************************)
(* The lease protocol keeps LeaseInv, for any number of replicas, rows,    *)
(* skews and lease times, and LeaseInv gives the exclusion the workers     *)
(* rely on.                                                                *)
(***************************************************************************)
EXTENDS LeasedWork, TLAPS

(* What is left of a natural number is a natural number, and no larger. *)
LEMMA LeftNat ==
  ASSUME NEW m \in Nat, NEW n \in Nat
  PROVE  /\ Left(m, n) \in Nat
         /\ Left(m, n) <= m
         /\ Left(m, n) + n >= m
BY DEF Left

(* The types of the timing constants, ready for arithmetic. *)
LEMMA TimeTypes ==
  /\ LeaseTime \in Nat /\ MaxSkew \in Nat /\ MaxAge \in Nat /\ 0 \in 0..MaxAge
  /\ 0 \in 0..MaxSkew + LeaseTime
  /\ \A w \in Worker : Skew[w] \in Nat /\ Skew[w] <= MaxSkew
                       /\ Skew[w] + LeaseTime \in 0..MaxSkew + LeaseTime
                       /\ Skew[w] + LeaseTime <= MaxAge
BY TimeAssumption

(* The protocol starts in LeaseInv. *)
LEMMA LeaseInitInv == LeaseInit => LeaseInv
BY TimeAssumption
   DEF LeaseInit, LeaseInv, LeaseTypeOK, DownOwnsNothing, LeaseCoversBatch,
       LostOnlyByOverrun

(* A claim takes no row whose lease still runs. *)
LEMMA ClaimInv ==
  ASSUME LeaseInv, NEW w \in Worker, NEW S \in SUBSET Job, NEW batch, Claim(w, S, batch)
  PROVE  LeaseInv'
<1> USE OwnerAssumption, TimeAssumption DEF LeaseInv
<1>1. LeaseTypeOK'
  <2>1. owner' \in [Job -> Worker \union {NoOwner, Gone}]
    BY DEF LeaseTypeOK, Claim
  <2>2. leaseIn' \in [Job -> 0..MaxSkew + LeaseTime]
    BY TimeTypes DEF LeaseTypeOK, Claim
  <2>3. mine' \in [Worker -> SUBSET Job] /\ age' \in [Worker -> 0..MaxAge]
    BY TimeTypes DEF LeaseTypeOK, Claim
  <2> QED BY <2>1, <2>2, <2>3 DEF LeaseTypeOK, Claim
<1>2. DownOwnsNothing'
  BY DEF LeaseTypeOK, Claim, DownOwnsNothing
<1>3. LeaseCoversBatch'
  <2> SUFFICES ASSUME NEW v \in Worker, NEW j \in mine'[v], owner'[j] = v
               PROVE  leaseIn'[j] + age'[v] >= Skew[v] + LeaseTime
    BY DEF LeaseCoversBatch
  <2>1. CASE v = w
    <3>1. j \in S /\ j \in Job /\ age'[v] = 0
      BY <2>1 DEF LeaseTypeOK, Claim
    <3>2. leaseIn'[j] = Skew[v] + LeaseTime
      BY <2>1, <3>1 DEF Claim
    <3> QED BY <3>1, <3>2, TimeTypes
  <2>2. CASE v # w
    BY <2>2 DEF LeaseTypeOK, Claim, LeaseCoversBatch
  <2> QED BY <2>1, <2>2
<1>4. LostOnlyByOverrun'
  <2> SUFFICES ASSUME NEW v \in Worker, NEW j \in mine'[v] \ revoked'[v], owner'[j] # v
               PROVE  age'[v] + MaxSkew >= LeaseTime
    BY DEF LostOnlyByOverrun
  <2>1. CASE v = w
    BY <2>1 DEF LeaseTypeOK, Claim
  <2>2. CASE v # w
    <3>1. age'[v] = age[v] /\ j \in mine[v] \ revoked[v] /\ j \in Job
      BY <2>2 DEF LeaseTypeOK, Claim
    <3>2. CASE owner[j] = v
      <4>1. j \in S
        BY <3>1, <3>2 DEF Claim, LeaseTypeOK
      <4>2. leaseIn[j] <= Skew[w]
        BY <4>1, <3>2 DEF Claim, DueFor
      <4>3. leaseIn[j] + age[v] >= Skew[v] + LeaseTime
        BY <3>1, <3>2 DEF LeaseCoversBatch
      <4> QED BY <3>1, <4>2, <4>3 DEF LeaseTypeOK
    <3>3. CASE owner[j] # v
      BY <3>1, <3>3 DEF LostOnlyByOverrun
    <3> QED BY <3>2, <3>3
  <2> QED BY <2>1, <2>2
<1> QED BY <1>1, <1>2, <1>3, <1>4

(* Settling touches only a row the worker owns. *)
LEMMA SettleInv ==
  ASSUME LeaseInv, NEW w \in Worker, NEW j \in Job, NEW delay \in 0..MaxDelay,
         NEW rest, Settle(w, j, delay, rest)
  PROVE  LeaseInv'
<1> USE OwnerAssumption, TimeAssumption DEF LeaseInv
<1>0. Left(Skew[w] + delay, age[w]) \in 0..MaxSkew + MaxDelay
  <2>1. /\ Skew[w] + delay \in Nat
        /\ Skew[w] + delay <= MaxSkew + MaxDelay
        /\ age[w] \in Nat
    BY TimeTypes DEF LeaseTypeOK
  <2>2. Left(Skew[w] + delay, age[w]) \in Nat
    BY <2>1, LeftNat
  <2>3. Left(Skew[w] + delay, age[w]) <= Skew[w] + delay
    BY <2>1, LeftNat
  <2> QED BY <2>1, <2>2, <2>3
<1>1. LeaseTypeOK'
  BY <1>0, TimeTypes DEF LeaseTypeOK, Settle, BatchOver
<1>2. DownOwnsNothing'
  BY DEF LeaseTypeOK, Settle, BatchOver, DownOwnsNothing
<1>a. ASSUME NEW v \in Worker, NEW k \in mine'[v]
      PROVE  /\ k \in mine[v] /\ age'[v] = age[v] /\ revoked'[v] = revoked[v]
             /\ (k = j => v # w)
             /\ k \in Job
  BY <1>a DEF LeaseTypeOK, Settle, BatchOver
<1>3. LeaseCoversBatch'
  <2> SUFFICES ASSUME NEW v \in Worker, NEW k \in mine'[v], owner'[k] = v
               PROVE  leaseIn'[k] + age'[v] >= Skew[v] + LeaseTime
    BY DEF LeaseCoversBatch
  <2>1. k # j /\ owner[k] = v /\ leaseIn'[k] = leaseIn[k]
    BY <1>a DEF LeaseTypeOK, Settle
  <2> QED BY <2>1, <1>a DEF LeaseCoversBatch
<1>4. LostOnlyByOverrun'
  <2> SUFFICES ASSUME NEW v \in Worker, NEW k \in mine'[v] \ revoked'[v], owner'[k] # v
               PROVE  age'[v] + MaxSkew >= LeaseTime
    BY DEF LostOnlyByOverrun
  <2>1. owner[k] # v
    BY <1>a DEF LeaseTypeOK, Settle
  <2> QED BY <2>1, <1>a DEF LostOnlyByOverrun
<1> QED BY <1>1, <1>2, <1>3, <1>4

(* Ending a batch, with or without the process, gives up no lease early. *)
LEMMA AbandonInv ==
  ASSUME LeaseInv, NEW w \in Worker, Abandon(w)
  PROVE  LeaseInv'
BY TimeAssumption
   DEF LeaseInv, LeaseTypeOK, DownOwnsNothing, LeaseCoversBatch,
       LostOnlyByOverrun, Abandon, BatchOver

(* The rows of an ended process belong to an id that nobody uses again. *)
LEMMA StopInv ==
  ASSUME LeaseInv, NEW w \in Worker, Stop(w)
  PROVE  LeaseInv'
<1> USE OwnerAssumption, TimeAssumption DEF LeaseInv
<1>1. LeaseTypeOK'
  BY DEF LeaseTypeOK, Stop, BatchOver
<1>2. DownOwnsNothing'
  BY DEF LeaseTypeOK, Stop, BatchOver, DownOwnsNothing
<1>3. LeaseCoversBatch'
  BY DEF LeaseTypeOK, Stop, BatchOver, LeaseCoversBatch
<1>4. LostOnlyByOverrun'
  BY DEF LeaseTypeOK, Stop, BatchOver, LostOnlyByOverrun
<1> QED BY <1>1, <1>2, <1>3, <1>4

(* A started process has an empty batch. *)
LEMMA StartInv ==
  ASSUME LeaseInv, NEW w \in Worker, Start(w)
  PROVE  LeaseInv'
BY DEF LeaseInv, LeaseTypeOK, DownOwnsNothing, LeaseCoversBatch,
       LostOnlyByOverrun, Start

(* A row rewritten by a request handler is recorded as revoked. *)
LEMMA RescheduleInv ==
  ASSUME LeaseInv, NEW r \in Worker, NEW j \in Job, NEW delay \in 0..MaxDelay,
         Reschedule(r, j, delay)
  PROVE  LeaseInv'
<1> USE OwnerAssumption, TimeAssumption DEF LeaseInv
<1>1. LeaseTypeOK'
  <2>1. Skew[r] + delay \in 0..MaxSkew + MaxDelay
    BY TimeTypes
  <2>2. /\ nextIn' \in [Job -> 0..MaxSkew + MaxDelay]
        /\ leaseIn' \in [Job -> 0..MaxSkew + LeaseTime]
    BY <2>1, TimeTypes DEF LeaseTypeOK, Reschedule
  <2>3. revoked' \in [Worker -> SUBSET Job]
    BY DEF LeaseTypeOK, Reschedule
  <2>4. owner' \in [Job -> Worker \union {NoOwner, Gone}]
    BY DEF LeaseTypeOK, Reschedule
  <2> QED BY <2>2, <2>3, <2>4 DEF LeaseTypeOK, Reschedule
<1>2. DownOwnsNothing'
  BY DEF LeaseTypeOK, Reschedule, DownOwnsNothing
<1>3. LeaseCoversBatch'
  BY DEF LeaseTypeOK, Reschedule, LeaseCoversBatch
<1>4. LostOnlyByOverrun'
  BY DEF LeaseTypeOK, Reschedule, LostOnlyByOverrun
<1> QED BY <1>1, <1>2, <1>3, <1>4

(* Time takes from the lease what it adds to the age of the batch, as far  *)
(* as the age is counted.                                                  *)
LEMMA TickInv ==
  ASSUME LeaseInv, Tick
  PROVE  LeaseInv'
<1> USE OwnerAssumption, TimeAssumption DEF LeaseInv
<1>1. LeaseTypeOK'
  <2>1. \A j \in Job : /\ Left(leaseIn[j], 1) \in 0..MaxSkew + LeaseTime
                        /\ Left(nextIn[j], 1) \in 0..MaxSkew + MaxDelay
    BY DEF Left, LeaseTypeOK
  <2>2. /\ leaseIn' \in [Job -> 0..MaxSkew + LeaseTime]
        /\ nextIn' \in [Job -> 0..MaxSkew + MaxDelay]
    BY <2>1 DEF LeaseTypeOK, Tick
  <2>3. age' \in [Worker -> 0..MaxAge]
    BY DEF LeaseTypeOK, Tick
  <2> QED BY <2>2, <2>3 DEF LeaseTypeOK, Tick
<1>2. DownOwnsNothing'
  BY DEF LeaseTypeOK, Tick, DownOwnsNothing
<1>3. LeaseCoversBatch'
  <2> SUFFICES ASSUME NEW w \in Worker, NEW j \in mine[w], owner[j] = w
               PROVE  leaseIn'[j] + age'[w] >= Skew[w] + LeaseTime
    BY DEF LeaseCoversBatch, Tick
  <2>1. leaseIn[j] + age[w] >= Skew[w] + LeaseTime
    BY DEF LeaseCoversBatch
  <2>2. j \in Job /\ leaseIn[j] \in Nat /\ age[w] \in 0..MaxAge /\ mine[w] # {}
    BY DEF LeaseTypeOK
  <2>3. leaseIn'[j] = Left(leaseIn[j], 1)
    BY <2>2 DEF Tick
  <2>4. leaseIn'[j] \in Nat /\ leaseIn'[j] + 1 >= leaseIn[j]
    BY <2>2, <2>3, LeftNat
  <2>5. CASE age[w] < MaxAge
    <3>1. age'[w] = age[w] + 1
      BY <2>2, <2>5 DEF Tick
    <3> QED BY <2>1, <2>2, <2>4, <3>1
  <2>6. CASE ~(age[w] < MaxAge)
    <3>1. age'[w] = MaxAge
      BY <2>2, <2>6 DEF Tick
    <3> QED BY <2>4, <3>1
  <2> QED BY <2>5, <2>6
<1>4. LostOnlyByOverrun'
  BY DEF LeaseTypeOK, Tick, LostOnlyByOverrun
<1> QED BY <1>1, <1>2, <1>3, <1>4

(* Every step of the protocol keeps the invariant. *)
LEMMA LeaseNextInv == LeaseInv /\ [LeaseNext]_leaseVars => LeaseInv'
<1> SUFFICES ASSUME LeaseInv, [LeaseNext]_leaseVars PROVE LeaseInv'
  OBVIOUS
<1>1. ASSUME NEW w \in Worker, NEW S \in SUBSET Job, NEW batch, Claim(w, S, batch)
      PROVE  LeaseInv'
  BY <1>1, ClaimInv
<1>2. ASSUME NEW w \in Worker, NEW j \in Job, NEW delay \in 0..MaxDelay,
             \/ \E rest \in SUBSET Job : Settle(w, j, delay, rest)
             \/ Reschedule(w, j, delay)
      PROVE  LeaseInv'
  BY <1>2, SettleInv, RescheduleInv
<1>3. ASSUME NEW w \in Worker, Abandon(w) \/ Stop(w) \/ Start(w) PROVE LeaseInv'
  BY <1>3, AbandonInv, StopInv, StartInv
<1>4. CASE Tick
  BY <1>4, TickInv
<1>5. CASE UNCHANGED leaseVars
  BY <1>5 DEF leaseVars, LeaseInv, LeaseTypeOK, DownOwnsNothing,
              LeaseCoversBatch, LostOnlyByOverrun
<1> QED BY <1>1, <1>2, <1>3, <1>4, <1>5 DEF LeaseNext

(* A row stays due for as long as it is owned. *)
LEMMA DueNextInv ==
  ASSUME LeaseTypeOK, ClaimedIsDue, [LeaseNext]_leaseVars
  PROVE  ClaimedIsDue'
<1> USE OwnerAssumption DEF LeaseTypeOK, ClaimedIsDue
<1>1. ASSUME NEW w \in Worker, NEW S \in SUBSET Job, NEW batch \in SUBSET Job, Claim(w, S, batch)
      PROVE  ClaimedIsDue'
  BY <1>1 DEF Claim, DueFor
<1>2. ASSUME NEW w \in Worker, NEW j \in Job, NEW delay \in 0..MaxDelay,
             \/ \E rest \in SUBSET Job : Settle(w, j, delay, rest)
             \/ Reschedule(w, j, delay)
      PROVE  ClaimedIsDue'
  <2>1. \A v \in Worker : mine'[v] \subseteq mine[v]
    BY <1>2 DEF Settle, BatchOver, Reschedule
  <2>2. /\ owner'[j] = NoOwner
        /\ \A k \in Job \ {j} : owner'[k] = owner[k] /\ nextIn'[k] = nextIn[k]
    BY <1>2 DEF Settle, Reschedule
  <2> QED BY <2>1, <2>2
<1>3. ASSUME NEW w \in Worker, Abandon(w) \/ Stop(w) \/ Start(w) PROVE ClaimedIsDue'
  BY <1>3 DEF Abandon, Stop, Start, BatchOver
<1>4. CASE Tick
  <2> SUFFICES ASSUME NEW w \in Worker, NEW j \in mine[w], owner[j] = w
               PROVE  nextIn'[j] <= Skew[w]
    BY <1>4 DEF Tick
  <2>1. j \in Job /\ nextIn[j] \in Nat /\ nextIn[j] <= Skew[w] /\ Skew[w] \in Nat
    BY TimeAssumption
  <2>2. nextIn'[j] = Left(nextIn[j], 1)
    BY <1>4, <2>1 DEF Tick
  <2> QED BY <2>1, <2>2 DEF Left
<1>5. CASE UNCHANGED leaseVars
  BY <1>5 DEF leaseVars
<1> QED BY <1>1, <1>2, <1>3, <1>4, <1>5 DEF LeaseNext

(* LeaseInv is an invariant of the lease protocol: in particular a worker  *)
(* loses a row of its batch only by overrunning its lease.                 *)
THEOREM LeaseSafety == LeaseSpec => []LeaseInv
BY LeaseInitInv, LeaseNextInv, PTL DEF LeaseSpec

(* Of two workers with the same row at most one owns it, so the other has  *)
(* overrun its lease.                                                      *)
LEMMA InvImpliesExclusion == LeaseInv => ExclusiveWithinLease
BY DEF LeaseInv, LostOnlyByOverrun, ExclusiveWithinLease

(* Two replicas work on the same row only after one of them has outlived   *)
(* its lease, less the clock skew.                                         *)
THEOREM LeaseExclusion == LeaseSpec => []ExclusiveWithinLease
BY LeaseSafety, InvImpliesExclusion, PTL
=============================================================================
