-------------------------- MODULE APIProcessProofs --------------------------
(* Proofs about an API process: its start and its rate limiter             *)
(* (APIProcess), and the signing keys its requests share (SigningKeys),    *)
(* for any number of processes, releases, clients, handlers and keys and   *)
(* any settings of the limiter and the cache.                              *)
EXTENDS RateWindow, SigningKeys, TLAPS

-----------------------------------------------------------------------------
(* Migrations. *)
LEMMA VersionType ==
  ASSUME NEW n \in Releases \union {0}, NEW v \in Nat \ {0}, v <= n
  PROVE  v \in Version
<1>1. n \in Releases /\ n \in Nat
  BY MigrationsAssumption
<1>2. v \in 1..n
  BY <1>1
<1> QED BY <1>1, <1>2 DEF Version

LEMMA VersionsAreNaturals == Version \subseteq Nat \ {0}
BY MigrationsAssumption DEF Version

LEMMA NaturalVersions ==
  ASSUME MigrationsTypeOK, NEW r \in Replica
  PROVE  version[r] \in Nat \ {0} /\ release[r] \in Nat
<1>1. release[r] \in Releases \union {0} /\ version[r] \in Nat \ {0}
  BY DEF MigrationsTypeOK
<1>2. \A n \in Releases : n \in Nat
  BY MigrationsAssumption
<1> QED BY <1>1, <1>2

LEMMA PhasesDiffer ==
  /\ InTransaction \intersect Running = {}
  /\ "down" \notin InTransaction \union Running
  /\ "waiting" \notin InTransaction \union Running
  /\ "configuring" \notin InTransaction \union Running
  /\ {"checking", "executing", "recording"} = InTransaction
  /\ InTransaction \union Running \subseteq Phase
  /\ {"down", "waiting", "configuring", "serving", "draining"} \subseteq Phase
BY DEF InTransaction, Running, Phase

LEMMA InitMigrations == MigrationsInit => MigrationsInv
<1> SUFFICES ASSUME MigrationsInit PROVE MigrationsInv
  OBVIOUS
<1> USE DEF MigrationsInit
<1>1. MigrationsTypeOK
  BY PhasesDiffer, MigrationsAssumption DEF MigrationsTypeOK
<1>2. LockHeld
  BY PhasesDiffer, MigrationsAssumption DEF LockHeld
<1>3. LoopConsistent
  BY PhasesDiffer DEF LoopConsistent
<1>4. MigratedOnce
  BY PhasesDiffer DEF MigratedOnce
<1> QED BY <1>1, <1>2, <1>3, <1>4 DEF MigrationsInv

LEMMA StartPreserves ==
  ASSUME MigrationsInv, NEW r \in Replica, NEW n \in Releases, Start(r, n)
  PROVE  MigrationsInv'
<1> USE DEF Start, MigrationsInv
<1>1. MigrationsTypeOK'
  BY PhasesDiffer DEF MigrationsTypeOK
<1>2. LockHeld'
  BY PhasesDiffer DEF MigrationsTypeOK, LockHeld
<1>3. LoopConsistent'
  BY PhasesDiffer DEF MigrationsTypeOK, LoopConsistent, Behind
<1>4. MigratedOnce'
  BY PhasesDiffer DEF MigrationsTypeOK, MigratedOnce
<1> QED BY <1>1, <1>2, <1>3, <1>4

LEMMA LockPreserves ==
  ASSUME MigrationsInv, NEW r \in Replica, Lock(r)
  PROVE  MigrationsInv'
<1> USE DEF Lock, MigrationsInv
<1>1. MigrationsTypeOK'
  BY PhasesDiffer DEF MigrationsTypeOK
<1>2. LockHeld'
  BY PhasesDiffer, MigrationsAssumption DEF MigrationsTypeOK, LockHeld
<1>3. LoopConsistent'
  <2>1. release[r] \in Nat /\ version[r] = 1 /\ recorded[r] = {} /\ executed[r] = {}
    BY NaturalVersions, PhasesDiffer DEF LoopConsistent
  <2>2. 1..(1 - 1) = {} /\ 1 <= release[r] + 1
    BY <2>1
  <2> QED BY <2>1, <2>2, PhasesDiffer DEF MigrationsTypeOK, LoopConsistent, Behind
<1>4. MigratedOnce'
  BY PhasesDiffer DEF MigrationsTypeOK, MigratedOnce
<1> QED BY <1>1, <1>2, <1>3, <1>4

LEMMA CheckPreserves ==
  ASSUME MigrationsInv, NEW r \in Replica, Check(r)
  PROVE  MigrationsInv'
<1> USE DEF Check, MigrationsInv
<1>0. version[r] \in Nat \ {0} /\ release[r] \in Nat
  BY NaturalVersions
<1>1. MigrationsTypeOK'
  BY <1>0, PhasesDiffer DEF MigrationsTypeOK
<1>2. LockHeld'
  BY PhasesDiffer DEF MigrationsTypeOK, LockHeld
<1>3. LoopConsistent'
  <2>1. CASE version[r] \in ledger \union recorded[r]
    <3>1. 1..(version[r] + 1 - 1) = Behind(r) \union {version[r]}
      BY <1>0 DEF Behind
    <3>2. version' = [version EXCEPT ![r] = version[r] + 1] /\ phase' = phase
      BY <2>1
    <3>3. Behind(r)' = Behind(r) \union {version[r]} /\ version'[r] <= release[r] + 1
      BY <1>0, <3>1, <3>2 DEF Behind, MigrationsTypeOK
    <3>4. \A q \in Replica \ {r} : version'[q] = version[q] /\ Behind(q)' = Behind(q)
      BY <3>2 DEF Behind, MigrationsTypeOK
    <3> QED BY <2>1, <3>2, <3>3, <3>4, PhasesDiffer DEF MigrationsTypeOK, LoopConsistent
  <2>2. CASE version[r] \notin ledger \union recorded[r]
    <3>1. phase' = [phase EXCEPT ![r] = "executing"] /\ version' = version
      BY <2>2
    <3> QED BY <2>2, <3>1, PhasesDiffer DEF MigrationsTypeOK, LoopConsistent, Behind
  <2> QED BY <2>1, <2>2
<1>4. MigratedOnce'
  BY PhasesDiffer DEF MigrationsTypeOK, MigratedOnce
<1> QED BY <1>1, <1>2, <1>3, <1>4

LEMMA ExecutePreserves ==
  ASSUME MigrationsInv, NEW r \in Replica, Execute(r)
  PROVE  MigrationsInv'
<1> USE DEF Execute, MigrationsInv
<1>0. version[r] \in Version
  BY VersionType DEF MigrationsTypeOK, LoopConsistent
<1>1. MigrationsTypeOK'
  BY <1>0, PhasesDiffer DEF MigrationsTypeOK
<1>2. LockHeld'
  BY PhasesDiffer DEF MigrationsTypeOK, LockHeld
<1>3. LoopConsistent'
  BY PhasesDiffer DEF MigrationsTypeOK, LoopConsistent, Behind
<1>4. MigratedOnce'
  BY PhasesDiffer DEF MigrationsTypeOK, MigratedOnce
<1> QED BY <1>1, <1>2, <1>3, <1>4

LEMMA RecordPreserves ==
  ASSUME MigrationsInv, NEW r \in Replica, Record(r)
  PROVE  MigrationsInv'
<1> USE DEF Record, MigrationsInv
<1>0. version[r] \in Version /\ version[r] \in Nat \ {0} /\ release[r] \in Nat
  BY VersionType, NaturalVersions DEF MigrationsTypeOK, LoopConsistent
<1>1. MigrationsTypeOK'
  BY <1>0, PhasesDiffer DEF MigrationsTypeOK
<1>2. LockHeld'
  BY PhasesDiffer DEF MigrationsTypeOK, LockHeld
<1>3. LoopConsistent'
  <2>1. 1..(version[r] + 1 - 1) = Behind(r) \union {version[r]}
    BY <1>0 DEF Behind
  <2>2. Behind(r)' = Behind(r) \union {version[r]} /\ version'[r] <= release[r] + 1
    BY <1>0, <2>1, PhasesDiffer DEF Behind, MigrationsTypeOK, LoopConsistent
  <2>3. \A q \in Replica \ {r} : version'[q] = version[q] /\ Behind(q)' = Behind(q)
    BY DEF Behind, MigrationsTypeOK
  <2> QED BY <2>2, <2>3, PhasesDiffer DEF MigrationsTypeOK, LoopConsistent
<1>4. MigratedOnce'
  BY PhasesDiffer DEF MigrationsTypeOK, MigratedOnce
<1> QED BY <1>1, <1>2, <1>3, <1>4

(* The end of a transaction leaves the other processes as they are. *)
LEMMA EndTransactionLocks ==
  ASSUME MigrationsInv, NEW r \in Replica, NEW p \in Phase \ InTransaction, EndTransaction(r, p)
  PROVE  LockHeld'
BY MigrationsAssumption DEF EndTransaction, MigrationsInv, MigrationsTypeOK, LockHeld

LEMMA EffectivePreserves ==
  ASSUME MigrationsInv, NEW r \in Replica, NEW p \in {"down", "configuring"}, NEW f \in 0..MaxFaults,
         Effective(r), EndTransaction(r, p), faults' = f
  PROVE  MigrationsInv'
<1> USE DEF Effective, EndTransaction, MigrationsInv
<1>0. version[r] \in Nat \ {0} /\ release[r] \in Nat /\ release[r] = version[r] - 1
  BY NaturalVersions, PhasesDiffer DEF LoopConsistent
<1>1. MigrationsTypeOK'
  BY PhasesDiffer DEF MigrationsTypeOK
<1>2. LockHeld'
  BY EndTransactionLocks, PhasesDiffer
<1>3. \A q \in Replica \ {r} : phase[q] \notin InTransaction
  BY PhasesDiffer DEF LockHeld
<1>4. Behind(r) = 1..release[r] /\ Behind(r) \subseteq ledger'
  BY <1>0, PhasesDiffer DEF Behind, LoopConsistent
<1>5. LoopConsistent'
  BY <1>3, <1>4, PhasesDiffer DEF MigrationsTypeOK, LoopConsistent
<1>6. MigratedOnce'
  <2>1. executed[r] = recorded[r] /\ recorded[r] \intersect ledger = {} /\ recorded[r] \subseteq Behind(r)
    BY PhasesDiffer DEF LoopConsistent
  <2>2. \A v \in Version : schema'[v] = IF v \in ledger' THEN 1 ELSE 0
    BY <2>1 DEF MigratedOnce
  <2>3. \A v \in recorded[r] : 1..v \subseteq ledger'
    BY <1>0, <1>4, <2>1 DEF Behind
  <2>4. \A v \in ledger : 1..v \subseteq ledger'
    BY DEF MigratedOnce
  <2>5. \A q \in Replica : phase'[q] \in Running => 1..release'[q] \subseteq ledger'
    BY PhasesDiffer DEF MigratedOnce, MigrationsTypeOK
  <2> QED BY <2>2, <2>3, <2>4, <2>5 DEF MigratedOnce
<1> QED BY <1>1, <1>2, <1>5, <1>6

LEMMA FailStartPreserves ==
  ASSUME MigrationsInv, NEW r \in Replica, FailStart(r)
  PROVE  MigrationsInv'
<1> USE DEF FailStart, Fault, MigrationsInv
<1>1. MigrationsTypeOK'
  BY PhasesDiffer, MigrationsAssumption DEF EndTransaction, MigrationsTypeOK
<1>2. LockHeld'
  BY EndTransactionLocks, PhasesDiffer
<1>3. LoopConsistent'
  BY PhasesDiffer DEF EndTransaction, MigrationsTypeOK, LoopConsistent, Behind
<1>4. MigratedOnce'
  BY PhasesDiffer DEF EndTransaction, MigrationsTypeOK, MigratedOnce
<1> QED BY <1>1, <1>2, <1>3, <1>4

LEMMA MovePreserves ==
  ASSUME MigrationsInv, NEW r \in Replica,
         NEW from \in {{"configuring"}, {"serving"}, Running},
         NEW to \in {"serving", "draining", "down"},
         from = {"configuring"} => to = "serving", Move(r, from, to)
  PROVE  MigrationsInv'
<1> USE DEF Move, MigrationsInv
<1>0. phase[r] \notin InTransaction /\ to \notin InTransaction /\ to \in Phase
  BY DEF InTransaction, Running, Phase
<1>1. MigrationsTypeOK'
  BY <1>0 DEF MigrationsTypeOK
<1>2. LockHeld'
  BY <1>0 DEF MigrationsTypeOK, LockHeld
<1>3. LoopConsistent'
  BY <1>0, PhasesDiffer DEF MigrationsTypeOK, LoopConsistent, Behind
<1>4. MigratedOnce'
  <2>1. phase[r] = "configuring" \/ phase[r] \in Running
    BY DEF Running
  <2>2. 1..release[r] \subseteq ledger
    BY <2>1 DEF MigratedOnce, LoopConsistent
  <2> QED BY <2>2 DEF MigrationsTypeOK, MigratedOnce
<1> QED BY <1>1, <1>2, <1>3, <1>4

LEMMA NextPreservesMigrations == MigrationsInv /\ [Next]_vars => MigrationsInv'
<1> SUFFICES ASSUME MigrationsInv, [Next]_vars PROVE MigrationsInv'
  OBVIOUS
<1>1. ASSUME UNCHANGED migrationVars PROVE MigrationsInv'
  BY <1>1 DEF migrationVars, MigrationsInv, MigrationsTypeOK, LockHeld, LoopConsistent,
              MigratedOnce, Behind
<1>2. CASE UNCHANGED vars
  BY <1>1, <1>2 DEF vars
<1>3. CASE Tick
  BY <1>1, <1>3 DEF Tick
<1>4. ASSUME NEW r \in Replica, StepsOf(r) PROVE MigrationsInv'
  <2>1. faults \in 0..MaxFaults
    BY DEF MigrationsInv, MigrationsTypeOK
  <2>2. CASE \E n \in Releases : Start(r, n)
    BY <2>2, StartPreserves
  <2>3. CASE MigrationStep(r)
    BY <2>1, <2>3, LockPreserves, CheckPreserves, ExecutePreserves, RecordPreserves,
       EffectivePreserves DEF MigrationStep, Commit
  <2>4. CASE CommitUnanswered(r)
    <3>1. faults + 1 \in 0..MaxFaults
      BY <2>1, <2>4, MigrationsAssumption DEF CommitUnanswered, Fault
    <3> QED BY <2>4, <3>1, EffectivePreserves DEF CommitUnanswered, Fault
  <2>5. CASE FailStart(r)
    BY <2>5, FailStartPreserves
  <2>6. CASE Shutdown(r)
    <3>1. {"serving"} # {"configuring"}
      OBVIOUS
    <3> QED BY <2>6, <3>1, MovePreserves DEF Shutdown
  <2>7. CASE Stop(r)
    <3>1. Running # {"configuring"}
      BY DEF Running
    <3> QED BY <2>7, <3>1, MovePreserves DEF Stop
  <2>8. CASE Serve(r)
    BY <2>8, MovePreserves DEF Serve
  <2>9. CASE \E c \in Client : allow(r, c)
    BY <1>1, <2>9 DEF allow
  <2> QED BY <1>4, <2>2, <2>3, <2>4, <2>5, <2>6, <2>7, <2>8, <2>9 DEF StepsOf, LifeStep
<1> QED BY <1>2, <1>3, <1>4 DEF Next

(* The inductive invariant of starts and migrations. *)
THEOREM MigrationsSafety == Spec => []MigrationsInv
<1>1. Init => MigrationsInv
  BY InitMigrations DEF Init
<1> QED BY <1>1, NextPreservesMigrations, PTL DEF Spec

(* No migration takes effect twice or unrecorded, and no process serves    *)
(* without its migrations, for any number of processes and releases.       *)
THEOREM MigrationsTakeEffectOnce == Spec => []MigratedOnce
<1>1. MigrationsInv => MigratedOnce
  BY DEF MigrationsInv
<1> QED BY <1>1, MigrationsSafety, PTL

-----------------------------------------------------------------------------
(* The limiter. *)
LEMMA CapType == Cap \in Nat \ {0} /\ Cost \in Nat \ {0} /\ Cost <= Cap
BY LimiterAssumption DEF Cap

LEMMA RefilledType ==
  ASSUME LimiterTypeOK, NEW b \in Bucket
  PROVE  /\ Refilled(b) \in 0..Cap
         /\ Level(b) \in 0..Cap
         /\ idle[b] \in 0..(MaxIdle + 1)
         /\ idle[b] * Rate \in Nat
         /\ tokens[b] \in 0..Cap
<1>1. idle[b] \in 0..(MaxIdle + 1) /\ tokens[b] \in 0..Cap
  BY LimiterAssumption DEF LimiterTypeOK
<1>2. idle[b] * Rate \in Nat
  BY <1>1, LimiterAssumption DEF MaxIdle
<1>3. Refilled(b) \in 0..Cap
  BY <1>1, <1>2, CapType DEF Refilled, Capped
<1> QED BY <1>1, <1>2, <1>3, CapType DEF Level

(* A request and the search it sets off change the bucket of its client    *)
(* and, as far as clients can tell, nothing else.                          *)
LEMMA AllowStep ==
  ASSUME LimiterTypeOK, NEW r \in Replica, NEW c \in Client, allow(r, c)
  PROVE  /\ LimiterTypeOK'
         /\ silence' = [silence EXCEPT ![<<r, c>>] = 0]
         /\ \A q \in Bucket \ {<<r, c>>} : Level(q)' = Level(q)
         /\ IF Level(<<r, c>>) >= Cost
              THEN Level(<<r, c>>)' = Level(<<r, c>>) - Cost /\ answer' = <<r, c, "admitted">>
              ELSE Level(<<r, c>>)' = Level(<<r, c>>) /\ answer' = <<r, c, "rejected">>
<1> DEFINE b == <<r, c>>
           kept == Known(r) \union {b}
           left == IF Level(b) >= Cost THEN Level(b) - Cost ELSE Level(b)
<1>1. b \in Bucket /\ b[1] = r
  BY DEF Bucket
<1>2. Level(b) \in 0..Cap /\ left \in 0..Cap
  BY <1>1, RefilledType, CapType
<1>3. /\ clients' = kept
      /\ tokens' = [q \in Bucket |-> IF q = b THEN left ELSE IF q \in kept THEN tokens[q] ELSE 0]
      /\ idle' = [q \in Bucket |-> IF q # b /\ q \in kept THEN idle[q] ELSE 0]
      /\ swept' = [swept EXCEPT ![r] = IF @ > PruneEvery THEN 0 ELSE @]
      /\ answer' = <<r, c, IF Level(b) >= Cost THEN "admitted" ELSE "rejected">>
  BY <1>1 DEF allow, Suffices, Level
<1>a. /\ Known(r) \subseteq clients
      /\ \A q \in clients \ Known(r) : q[1] = r /\ idle[q] > PruneAfter
  BY DEF Known, Of
<1>4. LimiterTypeOK'
  <2>1. kept \subseteq Bucket
    BY <1>1, <1>a DEF LimiterTypeOK
  <2>2. tokens' \in [Bucket -> 0..Cap]
    BY <1>2, <1>3, CapType DEF LimiterTypeOK
  <2>3. idle' \in [Bucket -> 0..(MaxIdle + 1)]
    BY <1>3, LimiterAssumption DEF LimiterTypeOK, MaxIdle
  <2>4. swept' \in [Replica -> 0..(PruneEvery + 1)]
    BY <1>3, LimiterAssumption DEF LimiterTypeOK
  <2>5. answer' \in Answer
    BY <1>3 DEF Answer
  <2> QED BY <1>3, <2>1, <2>2, <2>3, <2>4, <2>5 DEF LimiterTypeOK
<1>b. swept'[r] <= PruneEvery /\ Known(r)' = kept
  <2>1. swept[r] \in Nat /\ swept'[r] = IF swept[r] > PruneEvery THEN 0 ELSE swept[r]
    BY <1>3, LimiterAssumption DEF LimiterTypeOK
  <2>2. swept'[r] <= PruneEvery
    BY <2>1, LimiterAssumption
  <2> QED BY <1>3, <2>1, <2>2, LimiterAssumption DEF Known
<1>5. ASSUME NEW q \in Bucket \ {b} PROVE Level(q)' = Level(q)
  <2>1. q \in Known(q[1])' <=> q \in Known(q[1])
    <3>1. CASE q[1] = r
      BY <1>b, <1>5, <3>1
    <3>2. CASE q[1] # r
      <4>1. q[1] \in Replica /\ swept'[q[1]] = swept[q[1]]
        BY <1>3, <1>5, <3>2 DEF LimiterTypeOK, Bucket
      <4>2. q \in clients' <=> q \in clients
        BY <1>3, <1>5, <1>a, <3>2
      <4>3. q \in clients => idle'[q] = idle[q]
        BY <1>3, <1>5, <1>a, <3>2
      <4> QED BY <4>1, <4>2, <4>3 DEF Known
    <3> QED BY <3>1, <3>2
  <2>2. CASE q \in Known(q[1])
    <3>1. q \in clients /\ (q[1] = r => q \in Known(r))
      BY <2>2 DEF Known
    <3>2. q \in kept
      BY <1>a, <3>1
    <3>3. tokens'[q] = tokens[q] /\ idle'[q] = idle[q]
      BY <1>3, <1>5, <3>2
    <3> QED BY <2>1, <2>2, <3>3 DEF Level, Refilled, Capped
  <2>3. CASE q \notin Known(q[1])
    BY <2>1, <2>3 DEF Level
  <2> QED BY <2>2, <2>3
<1>6. Level(b)' = left
  <2>1. tokens'[b] = left /\ idle'[b] = 0 /\ b \in Known(b[1])'
    BY <1>1, <1>3, <1>b
  <2>2. left + 0 * Rate = left
    BY <1>2, LimiterAssumption
  <2> QED BY <1>2, <2>1, <2>2, CapType DEF Level, Refilled, Capped
<1>7. silence' = [silence EXCEPT ![b] = 0]
  <2>1. b \in clients' /\ idle'[b] = 0 /\ 0 <= PruneAfter
    BY <1>1, <1>3, LimiterAssumption
  <2>2. ASSUME NEW q \in Bucket \ {b}
        PROVE  (IF q \in clients' /\ idle'[q] <= PruneAfter THEN idle'[q] ELSE PruneAfter + 1)
                 = silence[q]
    <3>1. CASE q \in kept
      BY <1>3, <1>a, <2>2, <3>1 DEF silence
    <3>2. CASE q \notin kept
      <4>1. q \notin clients' /\ (q \in clients => idle[q] > PruneAfter)
        BY <1>3, <1>a, <3>2
      <4>2. idle[q] \in Nat
        BY <2>2, RefilledType, LimiterAssumption DEF MaxIdle
      <4> QED BY <4>1, <4>2, LimiterAssumption DEF silence
    <3> QED BY <3>1, <3>2
  <2> HIDE DEF b
  <2> QED BY <1>1, <2>1, <2>2 DEF silence
<1> QED BY <1>3, <1>4, <1>5, <1>6, <1>7

(* In a unit of time a bucket gains the rate, or is full because its       *)
(* client has been silent for so long that the next search deletes it.     *)
LEMMA TickStep ==
  ASSUME LimiterTypeOK, SweptLately, Tick
  PROVE  /\ LimiterTypeOK'
         /\ \A b \in Bucket :
              /\ silence'[b] = IF silence[b] <= PruneAfter THEN silence[b] + 1 ELSE silence[b]
              /\ \/ Level(b)' = Capped(Level(b) + Rate)
                 \/ silence'[b] > PruneAfter /\ Level(b)' = Cap
<1>1. LimiterTypeOK'
  BY LimiterAssumption DEF LimiterTypeOK, Tick, Older, Answer, MaxIdle
<1>2. ASSUME NEW b \in Bucket
      PROVE  /\ silence'[b] = IF silence[b] <= PruneAfter THEN silence[b] + 1 ELSE silence[b]
             /\ \/ Level(b)' = Capped(Level(b) + Rate)
                \/ silence'[b] > PruneAfter /\ Level(b)' = Cap
  <2> DEFINE r == b[1]
  <2>0. /\ r \in Replica /\ swept[r] \in Nat /\ idle[b] \in 0..(MaxIdle + 1)
        /\ swept'[r] = IF swept[r] <= PruneEvery THEN swept[r] + 1 ELSE swept[r]
        /\ idle'[b] = IF b \in clients THEN IF idle[b] <= MaxIdle THEN idle[b] + 1 ELSE idle[b] ELSE 0
        /\ clients' = clients /\ tokens' = tokens
    BY RefilledType, LimiterAssumption DEF LimiterTypeOK, Bucket, Tick, Older
  <2>a. /\ PruneAfter \in Nat /\ PruneEvery \in Nat /\ MaxIdle = PruneAfter + PruneEvery
        /\ Cap \in Nat /\ Rate \in Nat /\ Capped(Cap + Rate) = Cap
    BY LimiterAssumption, CapType DEF MaxIdle, Capped
  <2>b. /\ silence[b] = IF b \in clients /\ idle[b] <= PruneAfter THEN idle[b] ELSE PruneAfter + 1
        /\ silence'[b] = IF b \in clients' /\ idle'[b] <= PruneAfter THEN idle'[b] ELSE PruneAfter + 1
    BY DEF silence
  <2>c. /\ b \in Known(r) <=> b \in clients /\ ~(swept[r] > PruneEvery /\ idle[b] > PruneAfter)
        /\ b \in Known(r)' <=> b \in clients' /\ ~(swept'[r] > PruneEvery /\ idle'[b] > PruneAfter)
    <3>1. b \in Of(r)
      BY DEF Of, Bucket
    <3> QED BY <3>1 DEF Known, Of
  <2> HIDE DEF r
  <2>1. CASE b \notin clients
    <3>1. Level(b) = Cap /\ Level(b)' = Cap
      BY <2>0, <2>c, <2>1 DEF Level, r
    <3> QED BY <2>0, <2>a, <2>b, <2>1, <3>1
  <2>2. CASE b \in clients /\ idle[b] > MaxIdle
    <3>1. swept[r] > PruneEvery
      BY <2>0, <2>a, <2>2 DEF SweptLately, r
    <3>2. b \notin Known(r) /\ b \notin Known(r)'
      BY <2>0, <2>a, <2>c, <2>2, <3>1
    <3>3. Level(b) = Cap /\ Level(b)' = Cap
      BY <3>2 DEF Level, r
    <3> QED BY <2>0, <2>a, <2>b, <2>2, <3>3
  <2>3. CASE b \in clients /\ ~(idle[b] > MaxIdle)
    <3>1. idle'[b] = idle[b] + 1 /\ b \in clients'
      BY <2>0, <2>a, <2>3
    <3>2. silence'[b] = IF silence[b] <= PruneAfter THEN silence[b] + 1 ELSE silence[b]
      BY <2>0, <2>a, <2>b, <2>3, <3>1
    <3>3. CASE b \in Known(r)'
      <4>1. b \in Known(r)
        BY <2>0, <2>a, <2>c, <2>3, <3>1, <3>3
      <4>2. (idle[b] + 1) * Rate = idle[b] * Rate + Rate
        BY <2>0, <2>a
      <4>3. Level(b) = Capped(tokens[b] + idle[b] * Rate)
        BY <4>1 DEF Level, Refilled, r
      <4>4. Level(b)' = Capped(tokens[b] + (idle[b] * Rate + Rate))
        BY <2>0, <3>1, <3>3, <4>2 DEF Level, Refilled, Capped, r
      <4>5. tokens[b] \in Nat /\ idle[b] * Rate \in Nat
        BY RefilledType, CapType
      <4> QED BY <2>a, <3>2, <4>3, <4>4, <4>5 DEF Capped
    <3>4. CASE b \notin Known(r)'
      <4>1. Level(b)' = Cap
        BY <3>4 DEF Level, r
      <4>2. idle'[b] > PruneAfter
        BY <2>c, <3>1, <3>4
      <4>3. silence'[b] > PruneAfter
        BY <2>0, <2>a, <2>b, <3>1, <4>2
      <4> QED BY <3>2, <4>1, <4>3
    <3> QED BY <3>3, <3>4
  <2> QED BY <2>1, <2>2, <2>3
<1> QED BY <1>1, <1>2

LEMMA NewLimiterStep ==
  ASSUME LimiterTypeOK, NEW r \in Replica, NewRateLimiter(r)
  PROVE  /\ LimiterTypeOK'
         /\ \A b \in Bucket : /\ Level(b)' = IF b[1] = r THEN Cap ELSE Level(b)
                              /\ silence'[b] = IF b[1] = r THEN PruneAfter + 1 ELSE silence[b]
<1>1. LimiterTypeOK'
  BY LimiterAssumption, CapType DEF LimiterTypeOK, NewRateLimiter, Keep, MaxIdle
<1>2. ASSUME NEW b \in Bucket
      PROVE  /\ Level(b)' = IF b[1] = r THEN Cap ELSE Level(b)
             /\ silence'[b] = IF b[1] = r THEN PruneAfter + 1 ELSE silence[b]
  <2>1. b \in Of(r) <=> b[1] = r
    BY DEF Of, Bucket
  <2>2. CASE b[1] = r
    <3>1. b \notin clients'
      BY <2>1, <2>2 DEF NewRateLimiter, Keep
    <3> QED BY <2>2, <3>1 DEF Level, Known, silence
  <2>3. CASE b[1] # r
    <3>1. /\ b \in clients' <=> b \in clients
          /\ b \in clients => tokens'[b] = tokens[b] /\ idle'[b] = idle[b]
      BY <2>1, <2>3 DEF NewRateLimiter, Keep
    <3>2. b[1] \in Replica /\ swept'[b[1]] = swept[b[1]]
      BY <2>3 DEF NewRateLimiter, LimiterTypeOK, Bucket
    <3>3. b \in Known(b[1])' <=> b \in Known(b[1])
      BY <3>1, <3>2 DEF Known
    <3>4. b \in Known(b[1]) => b \in clients
      BY DEF Known
    <3>5. Level(b)' = Level(b)
      BY <3>1, <3>3, <3>4 DEF Level, Refilled, Capped
    <3> QED BY <2>3, <3>1, <3>5 DEF silence
  <2> QED BY <2>2, <2>3
<1> QED BY <1>1, <1>2

LEMMA SweepStep ==
  ASSUME LimiterTypeOK, SweptLately, Tick \/ \E r \in Replica : NewRateLimiter(r) \/ \E c \in Client : allow(r, c)
  PROVE  SweptLately'
<1> USE LimiterAssumption DEF LimiterTypeOK
<1>1. CASE Tick
  <2> SUFFICES ASSUME NEW b \in clients, swept'[b[1]] <= PruneEvery
               PROVE  idle'[b] <= PruneAfter + swept'[b[1]]
    BY <1>1 DEF SweptLately, Tick
  <2>1. /\ b \in Bucket /\ b[1] \in Replica /\ swept[b[1]] \in Nat /\ idle[b] \in Nat
        /\ swept'[b[1]] = IF swept[b[1]] <= PruneEvery THEN swept[b[1]] + 1 ELSE swept[b[1]]
        /\ idle'[b] = IF idle[b] <= MaxIdle THEN idle[b] + 1 ELSE idle[b]
    BY <1>1 DEF Bucket, Tick, Older, MaxIdle
  <2>2. idle[b] <= PruneAfter + swept[b[1]]
    BY <2>1 DEF SweptLately
  <2> QED BY <2>1, <2>2
<1>2. ASSUME NEW r \in Replica, NewRateLimiter(r) PROVE SweptLately'
  <2> SUFFICES ASSUME NEW b \in clients \ Of(r), swept'[b[1]] <= PruneEvery
               PROVE  idle'[b] <= PruneAfter + swept'[b[1]]
    BY <1>2 DEF SweptLately, NewRateLimiter, Keep
  <2>1. b \in Bucket /\ b[1] \in Replica /\ b[1] # r
    BY DEF Of, Bucket
  <2>2. idle'[b] = idle[b] /\ swept'[b[1]] = swept[b[1]]
    BY <1>2, <2>1 DEF NewRateLimiter, Keep
  <2> QED BY <2>2 DEF SweptLately
<1>3. ASSUME NEW r \in Replica, NEW c \in Client, allow(r, c) PROVE SweptLately'
  <2> SUFFICES ASSUME NEW b \in Known(r) \union {<<r, c>>}, swept'[b[1]] <= PruneEvery
               PROVE  idle'[b] <= PruneAfter + swept'[b[1]]
    BY <1>3 DEF SweptLately, allow
  <2>1. b \in Bucket /\ b[1] \in Replica
    BY DEF Known, Bucket
  <2>2. /\ swept'[b[1]] = IF b[1] = r /\ swept[r] > PruneEvery THEN 0 ELSE swept[b[1]]
        /\ idle'[b] = IF b = <<r, c>> THEN 0 ELSE idle[b]
        /\ swept[b[1]] \in Nat /\ idle[b] \in Nat
    BY <1>3, <2>1 DEF allow, MaxIdle
  <2>3. CASE b = <<r, c>>
    BY <2>2, <2>3
  <2>4. CASE b # <<r, c>> /\ b[1] = r /\ swept[r] > PruneEvery
    <3>1. b \in Of(r)
      BY <2>1, <2>4 DEF Of, Bucket
    <3>2. ~(idle[b] > PruneAfter)
      BY <2>4, <3>1 DEF Known
    <3> QED BY <2>2, <2>4, <3>2
  <2>5. CASE b # <<r, c>> /\ ~(b[1] = r /\ swept[r] > PruneEvery)
    <3>1. b \in clients
      BY <2>5 DEF Known
    <3> QED BY <2>2, <2>5, <3>1 DEF SweptLately
  <2> QED BY <2>3, <2>4, <2>5
<1> QED BY <1>1, <1>2, <1>3

LEMMA NextPreservesLimiter ==
  ASSUME LimiterTypeOK, SweptLately, [Next]_vars
  PROVE  LimiterTypeOK' /\ SweptLately'
<1>1. ASSUME UNCHANGED limiterVars PROVE LimiterTypeOK' /\ SweptLately'
  BY <1>1 DEF limiterVars, LimiterTypeOK, SweptLately
<1>2. CASE UNCHANGED vars
  BY <1>1, <1>2 DEF vars
<1>3. CASE Tick
  BY <1>3, TickStep, SweepStep
<1>4. ASSUME NEW r \in Replica, StepsOf(r) PROVE LimiterTypeOK' /\ SweptLately'
  BY <1>1, <1>4, NewLimiterStep, AllowStep, SweepStep DEF StepsOf, LifeStep
<1> QED BY <1>2, <1>3, <1>4 DEF Next

(* Deleting idle clients now and then is enough: whoever is known has been *)
(* idle for at most PruneAfter and the time since the last search.         *)
THEOREM LimiterSafety == Spec => [](LimiterTypeOK /\ SweptLately)
<1>1. Init => LimiterTypeOK /\ SweptLately
  BY LimiterAssumption, CapType DEF Init, LimiterTypeOK, Answer, MaxIdle, SweptLately
<1>2. LimiterTypeOK /\ SweptLately /\ [Next]_vars => (LimiterTypeOK /\ SweptLately)'
  BY NextPreservesLimiter
<1> QED BY <1>1, <1>2, PTL DEF Spec

(* Type correctness of processes, migrations and limiters; in particular a *)
(* bucket never holds more than the burst.                                 *)
THEOREM APIProcessTypeCorrect == Spec => []TypeOK
<1>1. MigrationsInv /\ LimiterTypeOK => TypeOK
  BY DEF MigrationsInv, TypeOK
<1> QED BY <1>1, LimiterSafety, MigrationsSafety, PTL

-----------------------------------------------------------------------------
(* A process that neither begins nor ceases to run, and a limiter that     *)
(* does nothing, are a stutter of the promise.                             *)
LEMMA QuietLimiter ==
  ASSUME UNCHANGED limiterVars
  PROVE  UNCHANGED <<level, silence, answer>>
<1>1. \A b \in Bucket : b \in Known(b[1])' <=> b \in Known(b[1])
  BY DEF limiterVars, Known
<1>2. \A b \in Bucket : Level(b)' = Level(b)
  BY <1>1 DEF limiterVars, Level, Refilled, Capped
<1> QED BY <1>2 DEF level, silence, limiterVars

LEMMA PhaseOfOne ==
  ASSUME NEW r \in Replica, NEW p, phase \in [Replica -> Phase], phase' = [phase EXCEPT ![r] = p]
  PROVE  running' = IF p \in Running THEN running \union {r} ELSE running \ {r}
BY DEF running

LEMMA StepKeepsPromise ==
  ASSUME TypeOK, SweptLately, [Next]_vars
  PROVE  [Promise!Next]_(Promise!tbVars)
<1> USE DEF Promise!tbVars
<1>0. LimiterTypeOK /\ phase \in [Replica -> Phase]
  BY DEF TypeOK, MigrationsTypeOK
<1>1. CASE UNCHANGED vars
  BY <1>1, QuietLimiter DEF vars, migrationVars, running
<1>2. CASE Tick
  <2> DEFINE filled == {b \in Bucket : Level(b)' # Capped(Level(b) + Rate)}
  <2>1. \A b \in Bucket :
          /\ silence'[b] = IF silence[b] <= PruneAfter THEN silence[b] + 1 ELSE silence[b]
          /\ \/ Level(b)' = Capped(Level(b) + Rate)
             \/ silence'[b] > PruneAfter /\ Level(b)' = Cap
    BY <1>0, <1>2, TickStep
  <2>2. silence' = [b \in Bucket |-> IF silence[b] <= PruneAfter THEN silence[b] + 1 ELSE silence[b]]
    <3>1. silence' = [b \in Bucket |-> silence'[b]]
      BY DEF silence
    <3> HIDE DEF silence
    <3> QED BY <2>1, <3>1
  <2>3. filled \in SUBSET {b \in Bucket : silence'[b] > PruneAfter}
    BY <2>1
  <2>4. level' = [b \in Bucket |-> IF b \in filled THEN Cap ELSE Capped(level[b] + Rate)]
    BY <2>1 DEF level
  <2>5. UNCHANGED running /\ answer' = NoAnswer
    BY <1>2 DEF Tick, migrationVars, running
  <2> HIDE DEF filled
  <2>6. Promise!Refill
    BY <2>2, <2>3, <2>4, <2>5 DEF Promise!Refill, Promise!NoAnswer, Promise!Capped, Capped, Bucket, NoAnswer
  <2> QED BY <2>6 DEF Promise!Next
<1>3. ASSUME NEW r \in Replica, StepsOf(r) PROVE [Promise!Next]_(Promise!tbVars)
  <2> USE PhasesDiffer
  <2>1. ASSUME NEW p \in Phase \ Running, phase[r] \notin Running,
               phase' = [phase EXCEPT ![r] = p] \/ phase' = phase, UNCHANGED limiterVars
        PROVE  UNCHANGED Promise!tbVars
    <3>1. running' = running
      BY <1>0, <2>1, PhaseOfOne DEF running
    <3> QED BY <2>1, <3>1, QuietLimiter
  <2>2. CASE (\E n \in Releases : Start(r, n)) /\ UNCHANGED limiterVars
    BY <2>1, <2>2 DEF Start
  <2>3. CASE (MigrationStep(r) \/ CommitUnanswered(r) \/ FailStart(r)) /\ UNCHANGED limiterVars
    BY <2>1, <2>3 DEF MigrationStep, Lock, Check, Execute, Record, Commit, CommitUnanswered,
                      FailStart, Effective, EndTransaction
  <2>4. CASE Shutdown(r) /\ UNCHANGED limiterVars
    <3>1. r \in running /\ "draining" \in Running
      BY <2>4 DEF Shutdown, Move, running, Running
    <3>2. running' = running \union {r}
      BY <1>0, <2>4, <3>1, PhaseOfOne DEF Shutdown, Move
    <3>3. running' = running
      BY <3>1, <3>2
    <3> QED BY <2>4, <3>3, QuietLimiter
  <2>5. CASE Stop(r) /\ UNCHANGED limiterVars
    <3>1. r \in running /\ running' = running \ {r}
      BY <1>0, <2>5, PhaseOfOne DEF Stop, Move, running
    <3>2. Promise!GoDown(r)
      BY <2>5, <3>1, QuietLimiter DEF Promise!GoDown
    <3> QED BY <3>2 DEF Promise!Next
  <2>6. CASE Serve(r) /\ NewRateLimiter(r)
    <3>1. "serving" \in Running /\ phase[r] \notin Running
      BY <2>6 DEF Serve, Move, Running
    <3>2. r \notin running /\ running' = running \union {r}
      BY <1>0, <2>6, <3>1, PhaseOfOne DEF Serve, Move, running
    <3>3. \A b \in Bucket : /\ Level(b)' = IF b[1] = r THEN Cap ELSE Level(b)
                            /\ silence'[b] = IF b[1] = r THEN PruneAfter + 1 ELSE silence[b]
      BY <1>0, <2>6, NewLimiterStep
    <3>4. level' = [b \in Bucket |-> IF b[1] = r THEN Cap ELSE level[b]]
      BY <3>3 DEF level
    <3>5. silence' = [b \in Bucket |-> IF b[1] = r THEN PruneAfter + 1 ELSE silence[b]]
      <4>1. silence' = [b \in Bucket |-> silence'[b]]
        BY DEF silence
      <4> HIDE DEF silence
      <4> QED BY <3>3, <4>1
    <3>6. Promise!ComeUp(r)
      BY <2>6, <3>2, <3>4, <3>5 DEF Promise!ComeUp, NewRateLimiter, Bucket
    <3> QED BY <3>6 DEF Promise!Next
  <2>7. ASSUME NEW c \in Client, allow(r, c) PROVE Promise!Ask(r, c)
    <3> DEFINE b == <<r, c>>
    <3>1. r \in running /\ UNCHANGED running
      BY <2>7 DEF allow, running, migrationVars
    <3>2. b \in Bucket /\ level[b] = Level(b)
      BY DEF Bucket, level
    <3>3. /\ silence' = [silence EXCEPT ![b] = 0]
          /\ \A q \in Bucket \ {b} : Level(q)' = Level(q)
          /\ IF Level(b) >= Cost
               THEN Level(b)' = Level(b) - Cost /\ answer' = <<r, c, "admitted">>
               ELSE Level(b)' = Level(b) /\ answer' = <<r, c, "rejected">>
      BY <1>0, <2>7, AllowStep
    <3> HIDE DEF b
    <3>4. CASE Level(b) >= Cost
      <4>1. level' = [level EXCEPT ![b] = @ - Cost]
        BY <3>2, <3>3, <3>4 DEF level
      <4> QED BY <3>1, <3>2, <3>3, <3>4, <4>1 DEF Promise!Ask, b
    <3>5. CASE ~(Level(b) >= Cost)
      <4>1. level' = level
        BY <3>2, <3>3, <3>5 DEF level
      <4> QED BY <3>1, <3>2, <3>3, <3>5, <4>1 DEF Promise!Ask, b
    <3> QED BY <3>4, <3>5
  <2> QED BY <1>3, <2>2, <2>3, <2>4, <2>5, <2>6, <2>7 DEF StepsOf, LifeStep, Promise!Next
<1> QED BY <1>1, <1>2, <1>3 DEF Next

(* Every answer of the limiter is the one of a token bucket, for every     *)
(* rate and burst and both pruning intervals: buckets are refilled as if   *)
(* all the time, and a client that asked within PruneAfter never gains by  *)
(* a search for idle ones.                                                 *)
THEOREM LimiterIsTokenBucket == Spec => BucketSpec
<1>1. Init => Promise!Init
  <2>1. Init => \A b \in Bucket : Level(b) = Cap
    BY DEF Init, Level, Known
  <2> QED BY <2>1 DEF Init, MigrationsInit, Promise!Init, Promise!NoAnswer, NoAnswer, running,
                      Running, level, silence, Bucket
<1>2. TypeOK /\ SweptLately /\ [Next]_vars => [Promise!Next]_(Promise!tbVars)
  BY StepKeepsPromise
<1> QED BY <1>1, <1>2, APIProcessTypeCorrect, LimiterSafety, PTL DEF Spec, BucketSpec, Promise!Spec

-----------------------------------------------------------------------------
(* What a client gets in a span of time. *)

LEMMA SilenceType ==
  ASSUME LimiterTypeOK, NEW b \in Bucket
  PROVE  silence[b] \in 0..(PruneAfter + 1)
BY RefilledType, LimiterAssumption DEF silence, MaxIdle

LEMMA Distributes == ASSUME NEW n \in Nat, NEW m \in Nat PROVE (n + 1) * m = n * m + m
OBVIOUS

LEMMA WindowStep ==
  ASSUME LimiterTypeOK, SweptLately, NEW g \in Nat, Rate <= g, Cap <= (PruneAfter + 1) * g,
         WindowInv(g), [WindowNext]_windowVars
  PROVE  WindowInv(g)'
<1>0. /\ Cap \in Nat /\ Cost \in Nat /\ Rate \in Nat /\ PruneAfter \in Nat
      /\ admitted \in [Bucket -> Nat] /\ elapsed \in [Bucket -> Nat]
      /\ \A b \in Bucket : /\ Level(b) \in 0..Cap
                           /\ silence[b] \in 0..(PruneAfter + 1)
                           /\ admitted[b] * Cost \in Nat
                           /\ elapsed[b] * g \in Nat
                           /\ silence[b] * g \in Nat
                           /\ admitted[b] * Cost + Level(b) <= Cap + elapsed[b] * g
                           /\ \/ admitted[b] = 0
                              \/ admitted[b] * Cost + silence[b] * g <= Cap + elapsed[b] * g
  <2>1. admitted \in [Bucket -> Nat] /\ elapsed \in [Bucket -> Nat]
    BY DEF WindowInv
  <2>2. Cap \in Nat /\ Cost \in Nat /\ Rate \in Nat /\ PruneAfter \in Nat
    BY CapType, LimiterAssumption
  <2>3. ASSUME NEW b \in Bucket
        PROVE  /\ Level(b) \in 0..Cap /\ silence[b] \in 0..(PruneAfter + 1)
               /\ admitted[b] * Cost \in Nat /\ elapsed[b] * g \in Nat /\ silence[b] * g \in Nat
    <3>1. Level(b) \in 0..Cap /\ silence[b] \in 0..(PruneAfter + 1)
      BY RefilledType, SilenceType
    <3>2. silence[b] \in Nat /\ admitted[b] \in Nat /\ elapsed[b] \in Nat
      BY <2>1, <2>2, <3>1
    <3>3. admitted[b] * Cost \in Nat /\ elapsed[b] * g \in Nat /\ silence[b] * g \in Nat
      BY <2>2, <3>2
    <3> QED BY <3>1, <3>3
  <2> QED BY <2>1, <2>2, <2>3 DEF WindowInv, Unspent, Unasked
<1>1. ASSUME NEW K \in SUBSET Bucket,
             admitted' = [b \in Bucket |-> IF b \in K THEN 0 ELSE admitted[b]],
             elapsed' = [b \in Bucket |-> IF b \in K THEN 0 ELSE elapsed[b]],
             \A b \in K : Level(b)' \in 0..Cap,
             \A b \in Bucket \ K : Level(b)' = Level(b) /\ silence'[b] = silence[b]
      PROVE  WindowInv(g)'
  <2>1. admitted' \in [Bucket -> Nat] /\ elapsed' \in [Bucket -> Nat]
    BY <1>0, <1>1
  <2>2. ASSUME NEW b \in K PROVE Unspent(b, g)' /\ Unasked(b, g)'
    <3>1. admitted'[b] = 0 /\ elapsed'[b] = 0 /\ 0 * Cost = 0 /\ 0 * g = 0
      BY <1>0, <1>1, <2>2
    <3>2. Level(b)' \in 0..Cap
      BY <1>1
    <3>3. admitted'[b] * Cost + Level(b)' <= Cap + elapsed'[b] * g
      BY <1>0, <3>1, <3>2
    <3> QED BY <3>1, <3>3 DEF Unspent, Unasked
  <2>3. ASSUME NEW b \in Bucket \ K PROVE Unspent(b, g)' /\ Unasked(b, g)'
    <3>1. /\ admitted'[b] = admitted[b] /\ elapsed'[b] = elapsed[b]
          /\ Level(b)' = Level(b) /\ silence'[b] = silence[b]
      BY <1>1
    <3> QED BY <1>0, <3>1 DEF Unspent, Unasked
  <2> QED BY <2>1, <2>2, <2>3 DEF WindowInv
<1>2. ASSUME UNCHANGED limiterVars
      PROVE  \A b \in Bucket : Level(b)' = Level(b) /\ silence'[b] = silence[b]
  <2>1. UNCHANGED <<level, silence>>
    BY <1>2, QuietLimiter
  <2>2. \A b \in Bucket : level[b] = Level(b) /\ level'[b] = Level(b)'
    BY DEF level
  <2> QED BY <2>1, <2>2
<1>3. ASSUME UNCHANGED <<limiterVars, admitted, elapsed>> PROVE WindowInv(g)'
  <2>1. /\ admitted' = [b \in Bucket |-> IF b \in {} THEN 0 ELSE admitted[b]]
        /\ elapsed' = [b \in Bucket |-> IF b \in {} THEN 0 ELSE elapsed[b]]
    BY <1>0, <1>3
  <2>2. \A b \in Bucket : Level(b)' = Level(b) /\ silence'[b] = silence[b]
    BY <1>2, <1>3
  <2>3. /\ {} \in SUBSET Bucket
        /\ \A b \in {} : Level(b)' \in 0..Cap
        /\ \A b \in Bucket \ {} : Level(b)' = Level(b) /\ silence'[b] = silence[b]
    BY <2>2
  <2> QED BY ONLY <1>1, <2>1, <2>3
<1>4. ASSUME NEW r \in Replica, NEW c \in Client, allow(r, c), CountAnswer(r, c) PROVE WindowInv(g)'
  <2> DEFINE q == <<r, c>>
             n == admitted[q]
  <2>1. /\ silence' = [silence EXCEPT ![q] = 0]
        /\ \A b \in Bucket \ {q} : Level(b)' = Level(b)
        /\ IF Level(q) >= Cost
             THEN Level(q)' = Level(q) - Cost /\ answer' = <<r, c, "admitted">>
             ELSE Level(q)' = Level(q) /\ answer' = <<r, c, "rejected">>
    BY <1>4, AllowStep
  <2>2. q \in Bucket /\ n \in Nat
    BY <1>0 DEF Bucket
  <2>3. /\ UNCHANGED elapsed
        /\ admitted' = [admitted EXCEPT ![q] = IF Level(q) >= Cost THEN n + 1 ELSE n]
    <3>1. <<r, c, "rejected">> # <<r, c, "admitted">>
      OBVIOUS
    <3>2. CASE Level(q) >= Cost
      BY <1>4, <2>1, <3>2 DEF CountAnswer
    <3>3. CASE ~(Level(q) >= Cost)
      <4>1. answer' # <<r, c, "admitted">>
        BY <2>1, <3>1, <3>3
      <4> QED BY <1>4, <3>3, <4>1 DEF CountAnswer
    <3> QED BY <3>2, <3>3
  <2>4. (n + 1) * Cost = n * Cost + Cost
    BY <1>0, <2>2, Distributes
  <2>5. n * Cost \in Nat /\ n * Cost + Level(q) <= Cap + elapsed[q] * g /\ elapsed[q] * g \in Nat
    BY <1>0, <2>2
  <2>a. silence \in [Bucket -> 0..(PruneAfter + 1)]
    <3>1. silence = [b \in Bucket |-> silence[b]]
      BY DEF silence
    <3> HIDE DEF silence
    <3> QED BY <1>0, <3>1
  <2> HIDE DEF q, n, silence
  <2>6. /\ admitted' \in [Bucket -> Nat]
        /\ admitted'[q] = IF Level(q) >= Cost THEN n + 1 ELSE n
        /\ silence'[q] = 0
        /\ \A b \in Bucket \ {q} : admitted'[b] = admitted[b] /\ silence'[b] = silence[b]
    BY <1>0, <2>1, <2>2, <2>3, <2>a
  <2>7. /\ admitted'[q] * Cost + Level(q)' <= Cap + elapsed[q] * g
        /\ admitted'[q] * Cost \in Nat /\ Level(q)' \in Nat
    <3>1. CASE Level(q) >= Cost
      <4>1. admitted'[q] * Cost = n * Cost + Cost /\ Level(q)' = Level(q) - Cost
        BY <2>1, <2>4, <2>6, <3>1
      <4> QED BY <1>0, <2>2, <2>5, <3>1, <4>1
    <3>2. CASE ~(Level(q) >= Cost)
      <4>1. admitted'[q] * Cost = n * Cost /\ Level(q)' = Level(q)
        BY <2>1, <2>6, <3>2
      <4> QED BY <1>0, <2>2, <2>5, <4>1
    <3> QED BY <3>1, <3>2
  <2>8. Unspent(q, g)' /\ Unasked(q, g)'
    <3>1. silence'[q] * g = 0
      BY <2>6
    <3> QED BY <1>0, <2>3, <2>5, <2>7, <3>1 DEF Unspent, Unasked
  <2>9. ASSUME NEW b \in Bucket \ {q} PROVE Unspent(b, g)' /\ Unasked(b, g)'
    BY <1>0, <2>1, <2>3, <2>6, <2>9 DEF Unspent, Unasked
  <2> QED BY <1>0, <2>3, <2>6, <2>8, <2>9 DEF WindowInv
<1>5. ASSUME Tick, CountTick PROVE WindowInv(g)'
  <2>1. \A b \in Bucket :
          /\ silence'[b] = IF silence[b] <= PruneAfter THEN silence[b] + 1 ELSE silence[b]
          /\ \/ Level(b)' = Capped(Level(b) + Rate)
             \/ silence'[b] > PruneAfter /\ Level(b)' = Cap
    BY <1>5, TickStep
  <2>2. /\ UNCHANGED admitted /\ elapsed' \in [Bucket -> Nat]
        /\ \A b \in Bucket : elapsed'[b] = elapsed[b] + 1
    BY <1>0, <1>5 DEF CountTick
  <2>3. ASSUME NEW b \in Bucket PROVE Unspent(b, g)' /\ Unasked(b, g)'
    <3> DEFINE e == elapsed[b] * g
               s == silence[b] * g
               n == admitted[b] * Cost
    <3>1. /\ admitted'[b] * Cost = n /\ elapsed'[b] * g = e + g
          /\ e \in Nat /\ n \in Nat /\ s \in Nat
      BY <1>0, <2>2, Distributes
    <3>2. silence'[b] * g <= s + g /\ silence'[b] * g \in Nat
      <4>1. silence[b] \in Nat
        BY <1>0
      <4>2. (silence[b] + 1) * g = s + g
        BY <4>1, Distributes
      <4>3. CASE silence'[b] = silence[b]
        BY <3>1, <4>3
      <4>4. CASE silence'[b] = silence[b] + 1
        BY <3>1, <4>2, <4>4
      <4> QED BY <2>1, <4>3, <4>4
    <3>3. /\ Level(b) \in 0..Cap /\ n + Level(b) <= Cap + e
          /\ admitted[b] = 0 \/ n + s <= Cap + e
          /\ admitted[b] = 0 => n = 0
      BY <1>0
    <3>4. /\ silence[b] \in 0..(PruneAfter + 1)
          /\ silence'[b] = IF silence[b] <= PruneAfter THEN silence[b] + 1 ELSE silence[b]
          /\ \/ Level(b)' = Capped(Level(b) + Rate)
             \/ silence'[b] > PruneAfter /\ Level(b)' = Cap
      BY <1>0, <2>1
    <3>5. PruneAfter \in Nat /\ Cap \in Nat /\ Rate \in Nat /\ Level(b) \in 0..Cap
      BY <1>0
    <3>6. silence'[b] > PruneAfter => silence'[b] = PruneAfter + 1
      BY ONLY <3>4, <3>5
    <3>7. silence'[b] > PruneAfter => Cap <= silence'[b] * g
      BY <3>6
    <3>8. \/ Level(b)' <= Level(b) + Rate /\ Level(b)' \in Nat
          \/ silence'[b] > PruneAfter /\ Level(b)' = Cap
      BY ONLY <3>4, <3>5 DEF Capped
    <3> DEFINE t == silence'[b] * g
               m == Level(b)'
               k == Level(b)
    <3>9. admitted[b] = 0 \/ n + t <= Cap + (e + g)
      <4> HIDE DEF e, s, n, t
      <4> QED BY <1>0, <3>1, <3>2, <3>3 DEF t
    <3>10. n + m <= Cap + (e + g)
      <4>1. CASE m <= k + Rate /\ m \in Nat
        <5> HIDE DEF e, s, n, t, m
        <5> QED BY <1>0, <3>1, <3>3, <4>1
      <4>2. CASE m = Cap /\ Cap <= t
        <5> HIDE DEF e, s, n, t, m
        <5> QED BY <1>0, <3>1, <3>2, <3>3, <3>9, <4>2 DEF t
      <4> QED BY <3>7, <3>8, <4>1, <4>2
    <3> QED BY <2>2, <3>1, <3>9, <3>10 DEF Unspent, Unasked
  <2> QED BY <1>0, <2>2, <2>3 DEF WindowInv
<1>6. ASSUME NEW r \in Replica, NewRateLimiter(r), BeginWindow(Of(r)) PROVE WindowInv(g)'
  <2>1. Of(r) \subseteq Bucket /\ \A b \in Bucket : b \in Of(r) <=> b[1] = r
    BY DEF Of, Bucket
  <2>2. /\ \A b \in Of(r) : Level(b)' \in 0..Cap
        /\ \A b \in Bucket \ Of(r) : Level(b)' = Level(b) /\ silence'[b] = silence[b]
    BY <1>0, <1>6, <2>1, NewLimiterStep
  <2> QED BY <1>1, <1>6, <2>1, <2>2 DEF BeginWindow
<1>7. ASSUME NEW b \in Bucket, BeginWindow({b}), UNCHANGED vars PROVE WindowInv(g)'
  <2>1. \A q \in Bucket : Level(q)' = Level(q) /\ silence'[q] = silence[q]
    BY <1>2, <1>7 DEF vars
  <2>2. Level(b)' \in 0..Cap
    BY <1>0, <2>1
  <2>3. /\ {b} \in SUBSET Bucket
        /\ \A q \in {b} : Level(q)' \in 0..Cap
        /\ \A q \in Bucket \ {b} : Level(q)' = Level(q) /\ silence'[q] = silence[q]
    BY <2>1, <2>2
  <2>4. /\ admitted' = [q \in Bucket |-> IF q \in {b} THEN 0 ELSE admitted[q]]
        /\ elapsed' = [q \in Bucket |-> IF q \in {b} THEN 0 ELSE elapsed[q]]
    BY <1>7 DEF BeginWindow
  <2> QED BY ONLY <1>1, <2>3, <2>4
<1> QED BY <1>3, <1>4, <1>5, <1>6, <1>7 DEF WindowNext, windowVars, vars, LifeStep

(* Counting takes no part in what is counted. *)
LEMMA WindowStepIsStep == [WindowNext]_windowVars => [Next]_vars
BY DEF WindowNext, windowVars, Next, StepsOf

(* Whatever rate and burst are configured, whatever the pattern of its     *)
(* requests and however often the limiter forgets it: in any span of t     *)
(* ticks a client of one process is admitted at most burst + g * t         *)
(* requests, for every g that is as high as the rate and fills a bucket in *)
(* the time after which an idle client is forgotten.                       *)
THEOREM LimiterBoundsEveryWindow ==
  ASSUME NEW g \in Nat, Rate <= g, Cap <= (PruneAfter + 1) * g
  PROVE  WindowSpec => []WindowBounded(g)
<1>1. WindowSpec => Spec
  <2>1. WindowInit => Init
    BY DEF WindowInit
  <2> QED BY <2>1, WindowStepIsStep, PTL DEF WindowSpec, Spec
<1>2. WindowInit /\ LimiterTypeOK => WindowInv(g)
  <2> SUFFICES ASSUME WindowInit, LimiterTypeOK, NEW b \in Bucket
               PROVE  Unspent(b, g) /\ Unasked(b, g)
    BY DEF WindowInit, WindowInv
  <2>1. admitted[b] = 0 /\ elapsed[b] = 0 /\ 0 * Cost = 0 /\ 0 * g = 0
    BY CapType DEF WindowInit
  <2>2. Level(b) \in 0..Cap
    BY RefilledType
  <2> QED BY <2>1, <2>2, CapType DEF Unspent, Unasked
<1>3. LimiterTypeOK /\ SweptLately /\ WindowInv(g) /\ [WindowNext]_windowVars => WindowInv(g)'
  BY WindowStep
<1>4. LimiterTypeOK /\ WindowInv(g) => WindowBounded(g)
  <2> SUFFICES ASSUME LimiterTypeOK, WindowInv(g), NEW b \in Bucket
               PROVE  admitted[b] * Cost <= Cap + elapsed[b] * g
    BY DEF WindowBounded
  <2>1. Level(b) \in Nat /\ admitted[b] \in Nat /\ elapsed[b] \in Nat
    BY RefilledType, CapType DEF WindowInv
  <2>2. admitted[b] * Cost \in Nat /\ elapsed[b] * g \in Nat /\ Cap \in Nat
    BY <2>1, CapType
  <2>3. admitted[b] * Cost + Level(b) <= Cap + elapsed[b] * g
    BY DEF WindowInv, Unspent
  <2> QED BY <2>1, <2>2, <2>3
<1> QED BY <1>1, <1>2, <1>3, <1>4, LimiterSafety, PTL DEF WindowSpec

-----------------------------------------------------------------------------
(* Signing keys. *)

(* A key in an answer under way is not overdue. *)
LEMMA AnswerNotOverdue ==
  ASSUME KeysInv, NEW k \in response, status[k] = "retired"
  PROVE  since[k] # Overdue
BY KeysAssumption DEF KeysInv, KeysTypeOK, AnswerIsRecent, Overdue

(* Nor is a key in a cache that is fresh. *)
LEMMA FreshNotOverdue ==
  ASSUME KeysInv, freshIn > 0, NEW k \in keys, status[k] = "retired"
  PROVE  since[k] # Overdue
BY KeysAssumption DEF KeysInv, KeysTypeOK, CacheIsRecent, Overdue

LEMMA KeysInitInv == KeysInit => KeysInv
<1> SUFFICES ASSUME KeysInit PROVE KeysInv
  OBVIOUS
<1> USE KeysAssumption DEF KeysInit
<1>1. KeysTypeOK
  BY DEF KeysTypeOK, Overdue
<1>2. OneFetch /\ AnswerIsRecent /\ CacheIsRecent /\ RetirementTimed
  BY DEF OneFetch, Fetching, AnswerIsRecent, CacheIsRecent, RetirementTimed
<1>3. OverdueRefused /\ SteadyKnown /\ RetiredKeysExpire /\ PublishedKeysFound
  BY DEF OverdueRefused, SteadyKnown, RetiredKeysExpire, PublishedKeysFound
<1> QED BY <1>1, <1>2, <1>3 DEF KeysInv

(* A call begins: nothing is known of its key yet. *)
LEMMA CallInv ==
  ASSUME KeysInv, NEW a \in Handler, NEW k \in Key, Call(a, k)
  PROVE  KeysInv'
<1> USE DEF KeysInv
<1>0. UNCHANGED <<status, since, keys, freshIn, response, fetchIn, force>>
  BY DEF Call, provider, cache, fetch
<1>1. KeysTypeOK'
  <2>1. (status[k] = "retired" /\ since[k] = Overdue) \in BOOLEAN /\ (status[k] = "published") \in BOOLEAN
    OBVIOUS
  <2> QED BY <1>0, <2>1 DEF Call, KeysTypeOK
<1>2. OneFetch' /\ AnswerIsRecent' /\ CacheIsRecent' /\ RetirementTimed'
  BY <1>0 DEF Call, KeysTypeOK, OneFetch, Unlocked, Fetching, AnswerIsRecent, CacheIsRecent, RetirementTimed
<1>3. OverdueRefused'
  BY <1>0 DEF Call, KeysTypeOK, OverdueRefused
<1>4. SteadyKnown'
  BY <1>0 DEF Call, KeysTypeOK, SteadyKnown
<1>5. RetiredKeysExpire' /\ PublishedKeysFound'
  BY DEF Call, KeysTypeOK, RetiredKeysExpire, PublishedKeysFound
<1> QED BY <1>1, <1>2, <1>3, <1>4, <1>5

(* The first look finds a key only in a fresh cache, and nobody is         *)
(* fetching meanwhile: an answer that comes later is served later.         *)
LEMMA FirstLookInv ==
  ASSUME KeysInv, NEW a \in Handler, signingKey(a)
  PROVE  KeysInv'
<1> USE DEF KeysInv
<1>0. /\ UNCHANGED <<status, since, keys, freshIn, response, fetchIn, kid, overdue, steady>>
      /\ Unlocked /\ pc[a] = "lookup"
  BY DEF signingKey, provider, cache, fetch, history
<1>1. CASE kid[a] \in keys /\ freshIn > 0
  <2>0. Return(a, "found") /\ UNCHANGED force
    BY <1>1 DEF signingKey
  <2>1. KeysTypeOK'
    BY <1>0, <2>0 DEF Return, KeysTypeOK
  <2>2. OneFetch' /\ AnswerIsRecent' /\ CacheIsRecent' /\ RetirementTimed'
    BY <1>0, <2>0 DEF Return, KeysTypeOK, OneFetch, Unlocked, Fetching, AnswerIsRecent, CacheIsRecent, RetirementTimed
  <2>3. OverdueRefused' /\ SteadyKnown'
    BY <1>0, <2>0 DEF Return, KeysTypeOK, OverdueRefused, SteadyKnown
  <2>4. ~overdue[a]
    BY <1>1, FreshNotOverdue DEF OverdueRefused
  <2>5. RetiredKeysExpire' /\ PublishedKeysFound'
    BY <1>0, <2>0, <2>4 DEF Return, KeysTypeOK, RetiredKeysExpire, PublishedKeysFound
  <2> QED BY <2>1, <2>2, <2>3, <2>5
<1>2. CASE ~(kid[a] \in keys /\ freshIn > 0)
  <2>0. GoTo(a, "refresh") /\ force' = [force EXCEPT ![a] = kid[a] \notin keys]
    BY <1>2 DEF signingKey
  <2>1. KeysTypeOK'
    BY <1>0, <2>0 DEF GoTo, KeysTypeOK
  <2>2. OneFetch' /\ AnswerIsRecent' /\ CacheIsRecent' /\ RetirementTimed'
    BY <1>0, <2>0 DEF GoTo, KeysTypeOK, OneFetch, Unlocked, Fetching, AnswerIsRecent, CacheIsRecent, RetirementTimed
  <2>3. OverdueRefused'
    BY <1>0, <2>0 DEF GoTo, KeysTypeOK, OverdueRefused
  <2>4. \A d \in Handler : pc'[d] # "answered"
    BY <1>0, <2>0 DEF GoTo, Unlocked, Fetching, KeysTypeOK
  <2>5. SteadyKnown'
    <3> SUFFICES ASSUME NEW c \in Handler, steady[c], pc'[c] # "idle"
                 PROVE  /\ status[kid[c]] = "published"
                        /\ pc'[c] = "again" \/ (pc'[c] = "refresh" /\ ~force'[c]) => kid[c] \in keys
      BY <1>0, <2>4 DEF SteadyKnown
    <3>1. CASE c = a
      BY <1>0, <2>0, <3>1 DEF GoTo, KeysTypeOK, SteadyKnown
    <3>2. CASE c # a
      BY <1>0, <2>0, <3>2 DEF GoTo, KeysTypeOK, SteadyKnown
    <3> QED BY <3>1, <3>2
  <2>6. RetiredKeysExpire' /\ PublishedKeysFound'
    BY <1>0, <2>0 DEF GoTo, RetiredKeysExpire, PublishedKeysFound
  <2> QED BY <2>1, <2>2, <2>3, <2>5, <2>6
<1> QED BY <1>1, <1>2

(* A refresh that finds the cache fresh keeps it; otherwise it takes the   *)
(* lock, and no answer is there yet.                                       *)
LEMMA RefreshInv ==
  ASSUME KeysInv, NEW a \in Handler, refreshKeys(a)
  PROVE  KeysInv'
<1> USE KeysAssumption DEF KeysInv
<1>0. /\ UNCHANGED <<status, since, keys, freshIn, kid, force, overdue, steady, outcome>>
      /\ Unlocked /\ pc[a] = "refresh" /\ response = {} /\ response' = {}
      /\ fetchIn' \in 0..FetchTime
  BY DEF refreshKeys, GoTo, provider, cache, fetch, history, KeysTypeOK, AnswerIsRecent
<1>1. PICK step \in {"again", "fetch"} :
        /\ pc' = [pc EXCEPT ![a] = step]
        /\ step = "again" => ~force[a] /\ freshIn > 0
  BY DEF refreshKeys, GoTo
<1>2. KeysTypeOK'
  BY <1>0, <1>1 DEF KeysTypeOK
<1>3. OneFetch' /\ AnswerIsRecent' /\ CacheIsRecent' /\ RetirementTimed'
  BY <1>0, <1>1 DEF KeysTypeOK, OneFetch, Unlocked, Fetching, AnswerIsRecent, CacheIsRecent, RetirementTimed
<1>4. OverdueRefused'
  <2> SUFFICES ASSUME NEW c \in Handler, overdue[c]
               PROVE  /\ status[kid[c]] = "retired" /\ since[kid[c]] = Overdue
                      /\ pc'[c] = "again" => kid[c] \notin keys
    BY <1>0 DEF OverdueRefused
  <2>1. CASE c = a
    BY <1>1, <2>1, FreshNotOverdue DEF KeysTypeOK, OverdueRefused
  <2>2. CASE c # a
    BY <1>1, <2>2 DEF KeysTypeOK, OverdueRefused
  <2> QED BY <2>1, <2>2
<1>5. SteadyKnown'
  <2>1. \A d \in Handler : pc'[d] # "answered"
    BY <1>0, <1>1 DEF Unlocked, Fetching, KeysTypeOK
  <2> SUFFICES ASSUME NEW c \in Handler, steady[c], pc'[c] # "idle"
               PROVE  /\ status[kid[c]] = "published"
                      /\ pc'[c] = "again" \/ (pc'[c] = "refresh" /\ ~force[c]) => kid[c] \in keys
    BY <1>0, <2>1 DEF SteadyKnown
  <2>2. CASE c = a
    BY <1>0, <1>1, <2>2 DEF KeysTypeOK, SteadyKnown
  <2>3. CASE c # a
    BY <1>0, <1>1, <2>3 DEF KeysTypeOK, SteadyKnown
  <2> QED BY <2>2, <2>3
<1>6. RetiredKeysExpire' /\ PublishedKeysFound'
  BY <1>0 DEF RetiredKeysExpire, PublishedKeysFound
<1> QED BY <1>2, <1>3, <1>4, <1>5, <1>6

(* An answer holds the key of every caller whose key is published. *)
LEMMA ServeInv ==
  ASSUME KeysInv, NEW a \in Handler, ServeKeys(a)
  PROVE  KeysInv'
<1> USE KeysAssumption DEF KeysInv
<1>0. /\ UNCHANGED <<status, since, keys, freshIn, fetchIn, kid, force, overdue, steady, outcome>>
      /\ pc[a] = "fetch" /\ pc' = [pc EXCEPT ![a] = "answered"]
      /\ response' = {k \in Key : status[k] = "published"}
  BY DEF ServeKeys, Published, GoTo, provider, cache, history
<1>1. KeysTypeOK'
  BY <1>0 DEF KeysTypeOK
<1>2. OneFetch' /\ AnswerIsRecent' /\ CacheIsRecent' /\ RetirementTimed'
  BY <1>0 DEF KeysTypeOK, OneFetch, Unlocked, Fetching, AnswerIsRecent, CacheIsRecent, RetirementTimed
<1>3. OverdueRefused' /\ RetiredKeysExpire' /\ PublishedKeysFound'
  BY <1>0 DEF KeysTypeOK, OverdueRefused, RetiredKeysExpire, PublishedKeysFound
<1>4. SteadyKnown'
  BY <1>0 DEF KeysTypeOK, SteadyKnown
<1> QED BY <1>1, <1>2, <1>3, <1>4

(* Storing an answer puts no overdue key into the cache and drops no       *)
(* published key that a caller has seen there.                             *)
LEMMA StoreInv ==
  ASSUME KeysInv, NEW a \in Handler, StoreKeys(a)
  PROVE  KeysInv'
<1> USE KeysAssumption DEF KeysInv
<1>0. /\ UNCHANGED <<status, since, kid, force, overdue, steady, outcome>>
      /\ pc[a] = "answered" /\ pc' = [pc EXCEPT ![a] = "again"]
      /\ keys' = response /\ freshIn' = TTL /\ response' = {} /\ fetchIn' = 0
  BY DEF StoreKeys, GoTo, provider, history
<1>1. KeysTypeOK'
  BY <1>0 DEF KeysTypeOK
<1>2. \A d \in Handler : ~Fetching(d)'
  BY <1>0 DEF KeysTypeOK, OneFetch, Fetching
<1>3. OneFetch' /\ AnswerIsRecent' /\ RetirementTimed'
  BY <1>0, <1>2 DEF OneFetch, AnswerIsRecent, RetirementTimed
<1>4. CacheIsRecent'
  BY <1>0 DEF KeysTypeOK, AnswerIsRecent, CacheIsRecent, Overdue
<1>5. OverdueRefused'
  BY <1>0, AnswerNotOverdue DEF OverdueRefused
<1>6. SteadyKnown'
  <2> SUFFICES ASSUME NEW c \in Handler, steady[c], pc'[c] # "idle"
               PROVE  /\ status[kid[c]] = "published"
                      /\ pc'[c] = "again" \/ (pc'[c] = "refresh" /\ ~force[c]) => kid[c] \in response
    BY <1>0, <1>2 DEF SteadyKnown, Fetching
  <2>1. pc[c] # "idle" /\ (pc'[c] \in {"again", "refresh"} => pc[c] # "lookup")
    BY <1>0 DEF KeysTypeOK
  <2> QED BY <1>0, <2>1 DEF SteadyKnown
<1>7. RetiredKeysExpire' /\ PublishedKeysFound'
  BY <1>0 DEF RetiredKeysExpire, PublishedKeysFound
<1> QED BY <1>1, <1>3, <1>4, <1>5, <1>6, <1>7

(* A failed fetch leaves the cache alone. *)
LEMMA FetchFailsInv ==
  ASSUME KeysInv, NEW a \in Handler, FetchFails(a)
  PROVE  KeysInv'
<1> USE KeysAssumption DEF KeysInv
<1>0. /\ UNCHANGED <<status, since, keys, freshIn, kid, force, overdue, steady>>
      /\ Fetching(a) /\ pc' = [pc EXCEPT ![a] = "idle"]
      /\ outcome' = [outcome EXCEPT ![a] = "unavailable"]
      /\ response' = {} /\ fetchIn' = 0
  BY DEF FetchFails, Return, provider, cache, history
<1>1. KeysTypeOK'
  BY <1>0 DEF KeysTypeOK
<1>2. \A d \in Handler : ~Fetching(d)'
  BY <1>0 DEF KeysTypeOK, OneFetch, Fetching
<1>3. OneFetch' /\ AnswerIsRecent' /\ CacheIsRecent' /\ RetirementTimed'
  BY <1>0, <1>2 DEF OneFetch, AnswerIsRecent, CacheIsRecent, RetirementTimed
<1>4. OverdueRefused' /\ RetiredKeysExpire' /\ PublishedKeysFound'
  BY <1>0 DEF KeysTypeOK, OverdueRefused, RetiredKeysExpire, PublishedKeysFound
<1>5. SteadyKnown'
  BY <1>0, <1>2 DEF KeysTypeOK, SteadyKnown, Fetching
<1> QED BY <1>1, <1>3, <1>4, <1>5

(* The second look finds what the invariant says is there. *)
LEMMA LookAgainInv ==
  ASSUME KeysInv, NEW a \in Handler, LookAgain(a)
  PROVE  KeysInv'
<1> USE DEF KeysInv
<1>0. /\ UNCHANGED <<status, since, keys, freshIn, response, fetchIn, kid, force, overdue, steady>>
      /\ Unlocked /\ pc[a] = "again" /\ pc' = [pc EXCEPT ![a] = "idle"]
      /\ outcome' = [outcome EXCEPT ![a] = IF kid[a] \in keys THEN "found" ELSE "not_found"]
  BY DEF LookAgain, Return, provider, cache, fetch, history
<1>1. KeysTypeOK'
  BY <1>0 DEF KeysTypeOK
<1>2. OneFetch' /\ AnswerIsRecent' /\ CacheIsRecent' /\ RetirementTimed'
  BY <1>0 DEF KeysTypeOK, OneFetch, Unlocked, Fetching, AnswerIsRecent, CacheIsRecent, RetirementTimed
<1>3. OverdueRefused' /\ SteadyKnown'
  BY <1>0 DEF KeysTypeOK, OverdueRefused, SteadyKnown
<1>4. RetiredKeysExpire'
  BY <1>0 DEF KeysTypeOK, OverdueRefused, RetiredKeysExpire
<1>5. PublishedKeysFound'
  BY <1>0 DEF KeysTypeOK, SteadyKnown, PublishedKeysFound
<1> QED BY <1>1, <1>2, <1>3, <1>4, <1>5

(* Rotation: a key that is retired was published, so its time starts at 0, *)
(* and the calls that use it are no longer steady.                         *)
LEMMA RotationInv ==
  ASSUME KeysInv, NEW k \in Key, Publish(k) \/ Retire(k)
  PROVE  KeysInv'
<1> USE KeysAssumption DEF KeysInv
<1>0. /\ UNCHANGED <<since, keys, freshIn, response, fetchIn, pc, kid, force, outcome, overdue>>
      /\ status[k] # "retired"
      /\ \E s \in {"published", "retired"} : status' = [status EXCEPT ![k] = s]
      /\ steady' \in [Handler -> BOOLEAN]
      /\ \A c \in Handler : steady'[c] => steady[c]
  BY DEF Publish, Retire, cache, fetch, history, KeysTypeOK
<1>1. KeysTypeOK'
  BY <1>0 DEF KeysTypeOK
<1>2. OneFetch' /\ AnswerIsRecent' /\ CacheIsRecent'
  BY <1>0 DEF KeysTypeOK, OneFetch, Unlocked, Fetching, AnswerIsRecent, CacheIsRecent, RetirementTimed, Overdue
<1>3. RetirementTimed' /\ OverdueRefused'
  BY <1>0 DEF KeysTypeOK, RetirementTimed, OverdueRefused
<1>4. SteadyKnown'
  <2>1. ASSUME NEW c \in Handler, steady'[c], pc[c] # "idle"
        PROVE  status'[kid[c]] = "published"
    <3>1. CASE Publish(k)
      BY <1>0, <2>1, <3>1 DEF Publish, KeysTypeOK, SteadyKnown
    <3>2. CASE Retire(k)
      BY <1>0, <2>1, <3>2 DEF Retire, KeysTypeOK, SteadyKnown
    <3> QED BY <3>1, <3>2
  <2> QED BY <1>0, <2>1 DEF SteadyKnown
<1>5. RetiredKeysExpire' /\ PublishedKeysFound'
  BY <1>0 DEF RetiredKeysExpire, PublishedKeysFound
<1> QED BY <1>1, <1>2, <1>3, <1>4, <1>5

(* A unit of time ages keys, answers and cache alike. *)
LEMMA KeysTimeInv ==
  ASSUME KeysInv, TimePasses
  PROVE  KeysInv'
<1> USE KeysAssumption DEF KeysInv
<1>0. UNCHANGED <<status, keys, response, pc, kid, force, outcome, overdue, steady>>
  BY DEF TimePasses, history
<1>a. /\ since' \in [Key -> 0..Overdue]
      /\ \A k \in Key : /\ since'[k] <= since[k] + 1
                        /\ status[k] # "retired" => since'[k] = since[k]
                        /\ since[k] = Overdue => since'[k] = Overdue
  BY DEF TimePasses, KeysTypeOK, Overdue
<1>b. /\ freshIn' \in 0..TTL /\ fetchIn' \in 0..FetchTime
      /\ freshIn > 0 => freshIn' = freshIn - 1
      /\ freshIn = 0 => freshIn' = 0
      /\ ~Unlocked => fetchIn > 0 /\ fetchIn' = fetchIn - 1
  BY DEF TimePasses, KeysTypeOK
<1>1. KeysTypeOK'
  BY <1>0, <1>a, <1>b DEF KeysTypeOK
<1>2. OneFetch' /\ RetirementTimed'
  BY <1>0, <1>a DEF OneFetch, Fetching, RetirementTimed
<1>3. AnswerIsRecent'
  <2>1. CASE Unlocked
    BY <1>0, <2>1 DEF AnswerIsRecent, Unlocked, Fetching
  <2>2. CASE ~Unlocked
    <3>1. ~Unlocked'
      BY <1>0, <2>2 DEF Unlocked, Fetching
    <3> QED BY <1>0, <1>a, <1>b, <2>2, <3>1 DEF KeysTypeOK, AnswerIsRecent
  <2> QED BY <2>1, <2>2
<1>4. CacheIsRecent'
  <2> SUFFICES ASSUME NEW k \in keys, status[k] = "retired"
               PROVE  since'[k] + freshIn' <= Overdue
    BY <1>0 DEF CacheIsRecent, Overdue
  <2>1. k \in Key /\ since[k] + freshIn <= Overdue
    BY DEF KeysTypeOK, CacheIsRecent
  <2>2. since[k] \in Nat /\ since'[k] \in 0..Overdue /\ freshIn \in Nat
    BY <1>a, <2>1 DEF KeysTypeOK, Overdue
  <2> QED BY <1>a, <1>b, <2>1, <2>2 DEF Overdue
<1>5. OverdueRefused' /\ SteadyKnown'
  BY <1>0, <1>a DEF KeysTypeOK, OverdueRefused, SteadyKnown, Overdue
<1>6. RetiredKeysExpire' /\ PublishedKeysFound'
  BY <1>0 DEF RetiredKeysExpire, PublishedKeysFound
<1> QED BY <1>1, <1>2, <1>3, <1>4, <1>5, <1>6

LEMMA KeysStutterInv ==
  ASSUME KeysInv, UNCHANGED keysVars
  PROVE  KeysInv'
BY DEF keysVars, provider, cache, fetch, history, KeysInv, KeysTypeOK, OneFetch, Unlocked, Fetching,
       AnswerIsRecent, CacheIsRecent, RetirementTimed, OverdueRefused, SteadyKnown,
       RetiredKeysExpire, PublishedKeysFound

(* The key cache, its fetches and the calls under way stay consistent with *)
(* what the identity provider has published and retired.                   *)
THEOREM KeysSafety == KeysSpec => []KeysInv
<1>1. ASSUME KeysInv, [KeysNext]_keysVars PROVE KeysInv'
  <2>1. ASSUME NEW c \in Handler,
               \/ \E k \in Key : Call(c, k)
               \/ signingKey(c) \/ refreshKeys(c) \/ ServeKeys(c) \/ StoreKeys(c)
               \/ FetchFails(c) \/ LookAgain(c)
        PROVE  KeysInv'
    BY <1>1, <2>1, CallInv, FirstLookInv, RefreshInv, ServeInv, StoreInv, FetchFailsInv, LookAgainInv
  <2>2. ASSUME NEW k \in Key, Publish(k) \/ Retire(k) PROVE KeysInv'
    BY <1>1, <2>2, RotationInv
  <2> QED BY <1>1, <2>1, <2>2, KeysTimeInv, KeysStutterInv DEF KeysNext
<1>2. KeysInv /\ [KeysNext]_keysVars => KeysInv'
  BY <1>1
<1> QED BY <1>2, KeysInitInv, PTL DEF KeysSpec

(* Every variable keeps its type: no set of keys lives longer than TTL. *)
THEOREM KeysTypeCorrect == KeysSpec => []KeysTypeOK
<1>1. KeysInv => KeysTypeOK
  BY DEF KeysInv
<1> QED BY <1>1, KeysSafety, PTL

(* No token is accepted on a key that was retired longer ago than the      *)
(* cache lives and a fetch takes, for any number of handlers and keys.     *)
THEOREM RetiredKeysAreRefused == KeysSpec => []RetiredKeysExpire
<1>1. KeysInv => RetiredKeysExpire
  BY DEF KeysInv
<1> QED BY <1>1, KeysSafety, PTL

(* No token is refused as unknown whose key is published during the call,  *)
(* although callers look, fetch and wait for each other's fetches.         *)
THEOREM PublishedKeysAreFound == KeysSpec => []PublishedKeysFound
<1>1. KeysInv => PublishedKeysFound
  BY DEF KeysInv
<1> QED BY <1>1, KeysSafety, PTL
=============================================================================
