----------------------------- MODULE LeasedWork -----------------------------
(***************************************************************************)
(* The lease protocol that both background workers run over a PostgreSQL   *)
(* table.  notification_outbox and screening_schedules carry the same      *)
(* columns: lease_owner, lease_until and a due time (next_attempt_at or    *)
(* next_run_at).  A worker process claims due rows in one UPDATE, works on *)
(* them one after another outside any transaction, and settles each with   *)
(* an UPDATE ... WHERE lease_owner = <its own id>.                         *)
(*                                                                         *)
(* Time is discrete and relative: leaseIn[j] and nextIn[j] are the time    *)
(* that is left until the row's lease_until and due time, never below 0,   *)
(* and Tick lets one unit pass.  Every replica passes its own clock to the *)
(* database; Skew[w] is how far the clock of w runs ahead.                 *)
(*                                                                         *)
(* This is the protocol alone; Delivery and OngoingScreening extend it     *)
(* with the work, so that what is proved of LeaseSpec holds of both.       *)
(***************************************************************************)
EXTENDS Naturals, FiniteSets

CONSTANTS
  Worker,     \* the replicas of the API process; each runs one worker loop
  Job,        \* rows of the leased table
  NoOwner,    \* lease_owner IS NULL
  Gone,       \* the worker id of a process that has ended (ids are not reused)
  Skew,       \* Skew[w]: lead of the clock of w over the slowest clock
  MaxSkew,    \* bound on Skew
  LeaseTime,  \* lease_until - now at a claim
  MaxAge,     \* bound: the age of a batch is counted up to here
  MaxDelay,   \* longest delay after which a row is made due again
  Limit       \* LIMIT of a claim

ASSUME OwnerAssumption ==
  /\ NoOwner \notin Worker
  /\ Gone \notin Worker
  /\ NoOwner # Gone

ASSUME TimeAssumption ==
  /\ MaxSkew \in Nat
  /\ Skew \in [Worker -> 0..MaxSkew]
  /\ LeaseTime \in Nat \ {0}
  /\ MaxAge \in Nat
  /\ MaxAge >= LeaseTime + MaxSkew
  /\ MaxDelay \in Nat
  /\ Limit \in Nat \ {0}

VARIABLES
  owner,    \* lease_owner of each row
  leaseIn,  \* time left until lease_until
  nextIn,   \* time left until the row is due
  up,       \* is the process running
  mine,     \* rows of the worker's current batch that it has not settled
  age,      \* time since the worker read the clock at the start of the batch
  revoked   \* history: rows of the batch whose lease an operator cleared

leaseVars == <<owner, leaseIn, nextIn, up, mine, age, revoked>>

LeaseTypeOK ==
  /\ owner \in [Job -> Worker \union {NoOwner, Gone}]
  /\ leaseIn \in [Job -> 0..MaxSkew + LeaseTime]
  /\ nextIn \in [Job -> 0..MaxSkew + MaxDelay]
  /\ up \in [Worker -> BOOLEAN]
  /\ mine \in [Worker -> SUBSET Job]
  /\ age \in [Worker -> 0..MaxAge]
  /\ revoked \in [Worker -> SUBSET Job]

LeaseInit ==
  /\ owner = [j \in Job |-> NoOwner]
  /\ leaseIn = [j \in Job |-> 0]
  /\ nextIn = [j \in Job |-> 0]
  /\ up = [w \in Worker |-> TRUE]
  /\ mine = [w \in Worker |-> {}]
  /\ age = [w \in Worker |-> 0]
  /\ revoked = [w \in Worker |-> {}]

-----------------------------------------------------------------------------
(* m - n, but not below 0: a moment in the past is no longer told apart. *)
Left(m, n) == IF n < m THEN m - n ELSE 0

(* Mutants of DueFor: a claim that ignores leases, and one that never takes *)
(* over a lease that has run out.                                           *)
DueForIgnoringLeases(w) == {j \in Job : nextIn[j] <= Skew[w]}
DueForUnleasedOnly(w) == {j \in Job : nextIn[j] <= Skew[w] /\ owner[j] = NoOwner}

(* The WHERE clause of a claim, on the clock of the claiming worker. *)
DueFor(w) ==
  {j \in Job : /\ nextIn[j] <= Skew[w]
               /\ owner[j] = NoOwner \/ leaseIn[j] <= Skew[w]}

(* ORDER BY the due time LIMIT n: S is what the claim takes of E. *)
Earliest(E, S) ==
  /\ S \subseteq E
  /\ Cardinality(S) = Limit \/ (S = E /\ Cardinality(E) < Limit)
  /\ \A j \in S, k \in E \ S : nextIn[j] <= nextIn[k]

(* One claim: the rows S are leased to w until LeaseTime from its now.     *)
(* They are its batch, unless the answer of the database is lost: RunDue   *)
(* returns the error, and the leases stay in the table.                    *)
Claim(w, S, batch) ==
  /\ up[w]
  /\ mine[w] = {}
  /\ S # {}
  /\ S \subseteq DueFor(w)
  /\ Cardinality(S) <= Limit
  /\ batch \in {S, {}}
  /\ owner' = [j \in Job |-> IF j \in S THEN w ELSE owner[j]]
  /\ leaseIn' = [j \in Job |-> IF j \in S THEN Skew[w] + LeaseTime ELSE leaseIn[j]]
  /\ mine' = [mine EXCEPT ![w] = batch]
  /\ age' = [age EXCEPT ![w] = 0]
  /\ UNCHANGED <<nextIn, up, revoked>>

(* The batch of w ends: RunDue returns to the ticker loop. *)
BatchOver(w) ==
  /\ mine' = [mine EXCEPT ![w] = {}]
  /\ age' = [age EXCEPT ![w] = 0]
  /\ revoked' = [revoked EXCEPT ![w] = {}]

(* Mutant of Settle: an UPDATE without AND lease_owner = <its own id>. *)
SettleUnfenced(w, j, delay, rest) ==
  /\ j \in mine[w]
  /\ rest \in {mine[w] \ {j}, {}}
  /\ owner' = [owner EXCEPT ![j] = NoOwner]
  /\ leaseIn' = [leaseIn EXCEPT ![j] = 0]
  /\ nextIn' = [nextIn EXCEPT ![j] = Left(Skew[w] + delay, age[w])]
  /\ IF rest = {} THEN BatchOver(w)
                  ELSE /\ mine' = [mine EXCEPT ![w] = rest]
                       /\ UNCHANGED <<age, revoked>>
  /\ UNCHANGED up

(* Settling a row that w still owns clears its lease and makes it due      *)
(* again `delay' after the start of the batch, not after the present.  The *)
(* worker goes on with the rest of the batch, or with nothing when the     *)
(* answer of the database is lost and RunDue returns the error.            *)
Settle(w, j, delay, rest) ==
  /\ j \in mine[w]
  /\ owner[j] = w
  /\ rest \in {mine[w] \ {j}, {}}
  /\ owner' = [owner EXCEPT ![j] = NoOwner]
  /\ leaseIn' = [leaseIn EXCEPT ![j] = 0]
  /\ nextIn' = [nextIn EXCEPT ![j] = Left(Skew[w] + delay, age[w])]
  /\ IF rest = {} THEN BatchOver(w)
                  ELSE /\ mine' = [mine EXCEPT ![w] = rest]
                       /\ UNCHANGED <<age, revoked>>
  /\ UNCHANGED up

(* Settling had no effect, because the row is no longer leased to w or     *)
(* because the database refused the statement: RunDue returns at once and  *)
(* forgets the rest of the batch, whose leases stay in the table.          *)
Abandon(w) ==
  /\ mine[w] # {}
  /\ BatchOver(w)
  /\ UNCHANGED <<owner, leaseIn, nextIn, up>>

(* The process ends, in the middle of a batch or not.  Its id is not used  *)
(* again: a restarted process draws a new one.                             *)
Stop(w) ==
  /\ up[w]
  /\ up' = [up EXCEPT ![w] = FALSE]
  /\ owner' = [j \in Job |-> IF owner[j] = w THEN Gone ELSE owner[j]]
  /\ BatchOver(w)
  /\ UNCHANGED <<leaseIn, nextIn>>

Start(w) ==
  /\ ~up[w]
  /\ up' = [up EXCEPT ![w] = TRUE]
  /\ UNCHANGED <<owner, leaseIn, nextIn, mine, age, revoked>>

(* A request handler of replica r writes the row: no lease, and due after  *)
(* `delay' on the clock of r.                                              *)
Reschedule(r, j, delay) ==
  /\ up[r]
  /\ owner' = [owner EXCEPT ![j] = NoOwner]
  /\ leaseIn' = [leaseIn EXCEPT ![j] = 0]
  /\ nextIn' = [nextIn EXCEPT ![j] = Skew[r] + delay]
  /\ revoked' = [w \in Worker |-> IF j \in mine[w] THEN revoked[w] \union {j}
                                                   ELSE revoked[w]]
  /\ UNCHANGED <<up, mine, age>>

(* One unit of time passes. *)
Tick ==
  /\ leaseIn' = [j \in Job |-> Left(leaseIn[j], 1)]
  /\ nextIn' = [j \in Job |-> Left(nextIn[j], 1)]
  /\ age' = [w \in Worker |-> IF mine[w] # {} /\ age[w] < MaxAge
                                THEN age[w] + 1 ELSE age[w]]
  /\ UNCHANGED <<owner, up, mine, revoked>>

LeaseNext ==
  \/ \E w \in Worker :
       \/ \E S, batch \in SUBSET Job : Claim(w, S, batch)
       \/ \E j \in Job, delay \in 0..MaxDelay :
            \/ \E rest \in SUBSET Job : Settle(w, j, delay, rest)
            \/ Reschedule(w, j, delay)
       \/ Abandon(w)
       \/ Stop(w)
       \/ Start(w)
  \/ Tick

LeaseSpec == LeaseInit /\ [][LeaseNext]_leaseVars

-----------------------------------------------------------------------------
(* A process that is down works on nothing and owns no row. *)
DownOwnsNothing ==
  \A w \in Worker : ~up[w] => /\ mine[w] = {}
                              /\ \A j \in Job : owner[j] # w

(* While w owns a row of its batch, the rest of the lease and the age of   *)
(* the batch add up to the lease it was given.                             *)
LeaseCoversBatch ==
  \A w \in Worker : \A j \in mine[w] :
     owner[j] = w => leaseIn[j] + age[w] >= Skew[w] + LeaseTime

(* A row that w owns was due when it was claimed, and stays so: only its   *)
(* owner and operators move the due time.                                  *)
ClaimedIsDue ==
  \A w \in Worker : \A j \in mine[w] : owner[j] = w => nextIn[j] <= Skew[w]

(* A worker loses a row of its batch only by overrunning its lease (less   *)
(* the clock skew) or because an operator rewrote the row: ClaimOutbox and *)
(* ClaimDueScreeningSchedules never take a row whose lease still runs.     *)
LostOnlyByOverrun ==
  \A w \in Worker : \A j \in mine[w] \ revoked[w] :
     owner[j] # w => age[w] + MaxSkew >= LeaseTime

(* Two replicas work on the same row only after one of them has outlived   *)
(* its lease: the exclusion that the worker leases promise.                *)
ExclusiveWithinLease ==
  \A v, w \in Worker : \A j \in (mine[v] \ revoked[v]) \intersect (mine[w] \ revoked[w]) :
     v # w => \/ age[v] + MaxSkew >= LeaseTime
              \/ age[w] + MaxSkew >= LeaseTime

(* The inductive invariant of the protocol. *)
LeaseInv ==
  /\ LeaseTypeOK
  /\ DownOwnsNothing
  /\ LeaseCoversBatch
  /\ LostOnlyByOverrun
=============================================================================
