----------------------------- MODULE APIProcess -----------------------------
(***************************************************************************)
(* API processes: each migrates the database (Migrations), then serves     *)
(* requests through its own rate limiter until it ends.                    *)
(*                                                                         *)
(* The limiter keeps a bucket for each client it has seen: the tokens left *)
(* and when that was true.  A bucket is refilled when its client asks      *)
(* next, and buckets of idle clients are deleted now and then.  Times are  *)
(* kept as ages, which stop where the code tells them apart no longer.     *)
(* A token is Cost units, so that fractions of a token are counted too.    *)
(***************************************************************************)
EXTENDS Migrations

CONSTANTS
  Client,      \* remote hosts
  Burst,       \* tokens of a full bucket
  Cost,        \* units of a token
  Rate,        \* units a bucket gains in one tick
  PruneEvery,  \* ticks between two searches for idle clients (a minute)
  PruneAfter   \* ticks after which an idle client is forgotten (ten minutes)

Cap == Burst * Cost

(* run accepts any positive rate with any positive burst. *)
ASSUME LimiterAssumption ==
  /\ Burst \in Nat \ {0}
  /\ Cost \in Nat \ {0}
  /\ Rate \in Nat
  /\ PruneEvery \in Nat
  /\ PruneAfter \in Nat

VARIABLES
  clients,  \* the buckets that each limiter keeps
  tokens,   \* units in a bucket when it was updated
  idle,     \* age of updated
  swept,    \* age of lastPrune
  answer    \* the last answer of a limiter

limiterVars == <<clients, tokens, idle, swept, answer>>
vars == <<migrationVars, limiterVars>>

Bucket == Replica \X Client

(* A client that has been idle for longer is deleted when it asks, since   *)
(* the last search is more than PruneEvery ago (SweptLately).              *)
MaxIdle == PruneAfter + PruneEvery
NoAnswer == <<>>
Answer == {NoAnswer} \union (Replica \X Client \X {"admitted", "rejected"})

LimiterTypeOK ==
  /\ clients \in SUBSET Bucket
  /\ tokens \in [Bucket -> 0..Cap]
  /\ idle \in [Bucket -> 0..(MaxIdle + 1)]
  /\ swept \in [Replica -> 0..(PruneEvery + 1)]
  /\ answer \in Answer

TypeOK == MigrationsTypeOK /\ LimiterTypeOK

Init ==
  /\ MigrationsInit
  /\ clients = {}
  /\ tokens = [b \in Bucket |-> 0]
  /\ idle = [b \in Bucket |-> 0]
  /\ swept = [r \in Replica |-> PruneEvery + 1]
  /\ answer = NoAnswer

-----------------------------------------------------------------------------
Of(r) == {r} \X Client

(* Buckets outside of K are gone. *)
Keep(K) ==
  /\ clients' = K
  /\ tokens' = [b \in Bucket |-> IF b \in K THEN tokens[b] ELSE 0]
  /\ idle' = [b \in Bucket |-> IF b \in K THEN idle[b] ELSE 0]

(* NewRateLimiter: no client is known and lastPrune is the zero time. *)
NewRateLimiter(r) ==
  /\ Keep(clients \ Of(r))
  /\ swept' = [swept EXCEPT ![r] = PruneEvery + 1]
  /\ UNCHANGED answer

Older(age, limit) == IF age <= limit THEN age + 1 ELSE age

Tick ==
  /\ idle' = [b \in Bucket |-> IF b \in clients THEN Older(idle[b], MaxIdle) ELSE 0]
  /\ swept' = [r \in Replica |-> Older(swept[r], PruneEvery)]
  /\ answer' = NoAnswer
  /\ UNCHANGED <<migrationVars, clients, tokens>>

Capped(n) == IF n > Cap THEN Cap ELSE n

Refilled(b) == Capped(tokens[b] + idle[b] * Rate)

(* Mutant of Known: clients are forgotten at the pace of the searches. *)
KnownOfLate(r) ==
  IF swept[r] > PruneEvery
    THEN clients \ {b \in Of(r) : idle[b] > PruneEvery}
    ELSE clients

(* The clients that are left after the search for idle ones. *)
Known(r) ==
  IF swept[r] > PruneEvery
    THEN clients \ {b \in Of(r) : idle[b] > PruneAfter}
    ELSE clients

(* Mutant of Suffices: a fraction of a token is enough. *)
SufficesInPart(available) == available > 0

Suffices(available) == available >= Cost

(* The middleware asks allow for every request but the probes'. *)
allow(r, c) ==
  LET b == <<r, c>>
      available == IF b \in Known(r) THEN Refilled(b) ELSE Cap
      granted == Suffices(available)
      kept == Known(r) \union {b}
  IN
  /\ phase[r] \in Running
  /\ clients' = kept
  /\ tokens' = [q \in Bucket |->
       IF q = b THEN IF granted THEN available - Cost ELSE available
       ELSE IF q \in kept THEN tokens[q] ELSE 0]
  /\ idle' = [q \in Bucket |-> IF q # b /\ q \in kept THEN idle[q] ELSE 0]
  /\ swept' = [swept EXCEPT ![r] = IF @ > PruneEvery THEN 0 ELSE @]
  /\ answer' = <<r, c, IF granted THEN "admitted" ELSE "rejected">>
  /\ UNCHANGED migrationVars

-----------------------------------------------------------------------------
(* The process starts, migrates and ends, which no limiter notices. *)
LifeStep(r) ==
  /\ \/ \E n \in Releases : Start(r, n)
     \/ MigrationStep(r)
     \/ CommitUnanswered(r)
     \/ FailStart(r)
     \/ Shutdown(r)
     \/ Stop(r)
  /\ UNCHANGED limiterVars

StepsOf(r) ==
  \/ LifeStep(r)
  \/ Serve(r) /\ NewRateLimiter(r)
  \/ \E c \in Client : allow(r, c)

Next == (\E r \in Replica : StepsOf(r)) \/ Tick

Spec == Init /\ [][Next]_vars

(* The orchestrator restarts what is down; statements return, because the  *)
(* start has a deadline; PostgreSQL queues those who wait for a lock.      *)
Fairness ==
  \A r \in Replica :
    /\ WF_vars((\E n \in Releases : Start(r, n)) /\ UNCHANGED limiterVars)
    /\ SF_vars(Lock(r) /\ UNCHANGED limiterVars)
    /\ WF_vars((MigrationStep(r) \/ FailStart(r)) /\ UNCHANGED limiterVars)
    /\ WF_vars(Serve(r) /\ NewRateLimiter(r))

FairSpec == Spec /\ Fairness

-----------------------------------------------------------------------------
(* Refilling a bucket only when its client asks is invisible, and so are   *)
(* the searches for idle clients that other clients' requests set off:     *)
(* every answer of a limiter is the one of a bucket that is refilled all   *)
(* the time.  Deleting buckets hands out more than the rate at most to a   *)
(* client that has not asked for more than PruneAfter.                     *)
Level(b) == IF b \in Known(b[1]) THEN Refilled(b) ELSE Cap
running == {r \in Replica : phase[r] \in Running}
level == [b \in Bucket |-> Level(b)]
silence == [b \in Bucket |-> IF b \in clients /\ idle[b] <= PruneAfter THEN idle[b]
                                                                    ELSE PruneAfter + 1]

Promise == INSTANCE TokenBucket WITH Process <- Replica, Grace <- PruneAfter

BucketSpec == Promise!Spec

(* Its inductive invariant: a search leaves no client behind that is idle  *)
(* for longer than PruneAfter.                                             *)
SweptLately ==
  \A b \in clients : swept[b[1]] <= PruneEvery => idle[b] <= PruneAfter + swept[b[1]]

(* A process that is down serves again in the end, however the starts of   *)
(* other processes interleave with its own: nobody holds the lock for ever.*)
EventuallyServes == \A r \in Replica : phase[r] = "down" ~> phase[r] = "serving"
=============================================================================
