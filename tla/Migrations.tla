----------------------------- MODULE Migrations -----------------------------
(***************************************************************************)
(* The life of an API process, from its start to its end, and the schema   *)
(* migrations it runs on the way.                                          *)
(*                                                                         *)
(* Every replica migrates the database before it serves.  All migrations   *)
(* of one start are one transaction: it takes an advisory lock, which it   *)
(* holds to its end, and then looks each migration up in the ledger,       *)
(* executes it if it is not there, and records it.  Replicas of different  *)
(* releases start at the same time; a start may fail at any statement.     *)
(***************************************************************************)
EXTENDS Naturals, FiniteSets

CONSTANTS
  Replica,    \* API processes
  NoReplica,  \* nobody holds the advisory lock
  Releases,   \* how many migrations the binary of a release embeds
  MaxFaults   \* bound: starts that fail for a reason outside of this program

ASSUME MigrationsAssumption ==
  /\ Replica # {}
  /\ NoReplica \notin Replica
  /\ Releases \subseteq Nat
  /\ MaxFaults \in Nat

VARIABLES
  phase,     \* where each process is
  release,   \* the migrations its binary knows: 1..release
  version,   \* the migration its loop is at
  executed,  \* migrations its transaction has executed, not yet committed
  recorded,  \* rows its transaction has added to the ledger
  holder,    \* who holds the advisory lock
  ledger,    \* schema_migrations
  schema,    \* how often each migration has taken effect on the schema
  faults     \* starts that have failed so far

migrationVars == <<phase, release, version, executed, recorded, holder, ledger, schema, faults>>

Version == UNION {1..n : n \in Releases}

(* "waiting": connected, its transaction wants the lock.  "checking",      *)
(* "executing", "recording": the loop over the migrations.  "configuring": *)
(* from the commit to ListenAndServe.  "draining": server.Shutdown.        *)
InTransaction == {"checking", "executing", "recording"}
Running == {"serving", "draining"}
Phase == {"down", "waiting", "configuring"} \union InTransaction \union Running

MigrationsTypeOK ==
  /\ phase \in [Replica -> Phase]
  /\ release \in [Replica -> Releases \union {0}]
  /\ version \in [Replica -> Nat \ {0}]
  /\ executed \in [Replica -> SUBSET Version]
  /\ recorded \in [Replica -> SUBSET Version]
  /\ holder \in Replica \union {NoReplica}
  /\ ledger \in SUBSET Version
  /\ schema \in [Version -> Nat]
  /\ faults \in 0..MaxFaults

MigrationsInit ==
  /\ phase = [r \in Replica |-> "down"]
  /\ release = [r \in Replica |-> 0]
  /\ version = [r \in Replica |-> 1]
  /\ executed = [r \in Replica |-> {}]
  /\ recorded = [r \in Replica |-> {}]
  /\ holder = NoReplica
  /\ ledger = {}
  /\ schema = [v \in Version |-> 0]
  /\ faults = 0

-----------------------------------------------------------------------------
(* run: the configuration is read, the pool pinged and Up begins. *)
Start(r, n) ==
  /\ phase[r] = "down"
  /\ phase' = [phase EXCEPT ![r] = "waiting"]
  /\ release' = [release EXCEPT ![r] = n]
  /\ version' = [version EXCEPT ![r] = 1]
  /\ UNCHANGED <<executed, recorded, holder, ledger, schema, faults>>

(* pg_advisory_xact_lock, and CREATE TABLE IF NOT EXISTS for the ledger. *)
Lock(r) ==
  /\ phase[r] = "waiting"
  /\ holder = NoReplica
  /\ holder' = r
  /\ phase' = [phase EXCEPT ![r] = "checking"]
  /\ UNCHANGED <<release, version, executed, recorded, ledger, schema, faults>>

(* SELECT EXISTS: a statement sees what is committed and its own rows. *)
Check(r) ==
  /\ phase[r] = "checking"
  /\ version[r] <= release[r]
  /\ IF version[r] \in ledger \union recorded[r]
       THEN /\ version' = [version EXCEPT ![r] = @ + 1]
            /\ UNCHANGED phase
       ELSE /\ phase' = [phase EXCEPT ![r] = "executing"]
            /\ UNCHANGED version
  /\ UNCHANGED <<release, executed, recorded, holder, ledger, schema, faults>>

Execute(r) ==
  /\ phase[r] = "executing"
  /\ executed' = [executed EXCEPT ![r] = @ \union {version[r]}]
  /\ phase' = [phase EXCEPT ![r] = "recording"]
  /\ UNCHANGED <<release, version, recorded, holder, ledger, schema, faults>>

(* Mutant of Record: through the pool, outside of the transaction. *)
RecordAtOnce(r) ==
  /\ phase[r] = "recording"
  /\ ledger' = ledger \union {version[r]}
  /\ version' = [version EXCEPT ![r] = @ + 1]
  /\ phase' = [phase EXCEPT ![r] = "checking"]
  /\ UNCHANGED <<release, executed, recorded, holder, schema, faults>>

(* INSERT: the version is the ledger's primary key, so the statement waits *)
(* for a transaction that has inserted it, and fails (FailStart) when it   *)
(* is there.                                                               *)
Record(r) ==
  /\ phase[r] = "recording"
  /\ version[r] \notin ledger
  /\ \A q \in Replica \ {r} : version[r] \notin recorded[q]
  /\ recorded' = [recorded EXCEPT ![r] = @ \union {version[r]}]
  /\ version' = [version EXCEPT ![r] = @ + 1]
  /\ phase' = [phase EXCEPT ![r] = "checking"]
  /\ UNCHANGED <<release, executed, holder, ledger, schema, faults>>

-----------------------------------------------------------------------------
(* Mutant of EndTransaction: a lock of the session survives it. *)
EndTransactionKeepingLock(r, p) ==
  /\ phase' = [phase EXCEPT ![r] = p]
  /\ version' = [version EXCEPT ![r] = 1]
  /\ executed' = [executed EXCEPT ![r] = {}]
  /\ recorded' = [recorded EXCEPT ![r] = {}]
  /\ UNCHANGED <<release, holder>>

(* The end of the transaction, committed or not, frees the lock. *)
EndTransaction(r, p) ==
  /\ phase' = [phase EXCEPT ![r] = p]
  /\ version' = [version EXCEPT ![r] = 1]
  /\ executed' = [executed EXCEPT ![r] = {}]
  /\ recorded' = [recorded EXCEPT ![r] = {}]
  /\ holder' = IF holder = r THEN NoReplica ELSE holder
  /\ UNCHANGED release

Effective(r) ==
  /\ phase[r] = "checking"
  /\ version[r] > release[r]
  /\ ledger' = ledger \union recorded[r]
  /\ schema' = [v \in Version |-> IF v \in executed[r] THEN schema[v] + 1 ELSE schema[v]]

Commit(r) == Effective(r) /\ EndTransaction(r, "configuring") /\ UNCHANGED faults

Fault == faults < MaxFaults /\ faults' = faults + 1

(* The transaction is committed, but the answer is lost: Up fails. *)
CommitUnanswered(r) == Effective(r) /\ EndTransaction(r, "down") /\ Fault

(* A statement fails, the ten seconds of the start pass, a setting is      *)
(* wrong, or the process is killed: the transaction is rolled back.        *)
FailStart(r) ==
  /\ phase[r] \in {"waiting", "configuring"} \union InTransaction
  /\ EndTransaction(r, "down")
  /\ Fault
  /\ UNCHANGED <<ledger, schema>>

Move(r, from, to) ==
  /\ phase[r] \in from
  /\ phase' = [phase EXCEPT ![r] = to]
  /\ UNCHANGED <<release, version, executed, recorded, holder, ledger, schema, faults>>

(* Services, workers, handler and rate limiter are made; ListenAndServe. *)
Serve(r) == Move(r, {"configuring"}, "serving")

(* SIGTERM: server.Shutdown lets the requests under way finish. *)
Shutdown(r) == Move(r, {"serving"}, "draining")

(* run returns, or the process is killed. *)
Stop(r) == Move(r, Running, "down")

MigrationStep(r) ==
  \/ Lock(r)
  \/ Check(r)
  \/ Execute(r)
  \/ Record(r)
  \/ Commit(r)

-----------------------------------------------------------------------------
(* However many processes start at once, fail half way or run an older     *)
(* release, no migration takes effect twice, none takes effect without its *)
(* row in the ledger or the reverse, and none before the one it builds on; *)
(* and a process serves only when all its migrations have taken effect.    *)
MigratedOnce ==
  /\ \A v \in Version : schema[v] = IF v \in ledger THEN 1 ELSE 0
  /\ \A v \in ledger : 1..v \subseteq ledger
  /\ \A r \in Replica : phase[r] \in Running => 1..release[r] \subseteq ledger

-----------------------------------------------------------------------------
(* The inductive invariant.  The loop of the one process that holds the    *)
(* lock has a ledger, committed or its own, without gaps behind it, and    *)
(* has executed what it has recorded.                                      *)
LockHeld == \A r \in Replica : phase[r] \in InTransaction <=> holder = r

Behind(r) == 1..(version[r] - 1)

LoopConsistent ==
  \A r \in Replica :
    /\ phase[r] \notin InTransaction => executed[r] = {} /\ recorded[r] = {}
    /\ phase[r] \in InTransaction =>
         /\ Behind(r) \subseteq ledger \union recorded[r]
         /\ recorded[r] \subseteq Behind(r) \ ledger
         /\ version[r] <= release[r] + 1
         /\ executed[r] = recorded[r] \union (IF phase[r] = "recording" THEN {version[r]} ELSE {})
    /\ phase[r] \in {"executing", "recording"} =>
         version[r] <= release[r] /\ version[r] \notin ledger \union recorded[r]
    /\ phase[r] = "waiting" => version[r] = 1
    /\ phase[r] = "configuring" => 1..release[r] \subseteq ledger

MigrationsInv ==
  /\ MigrationsTypeOK
  /\ LockHeld
  /\ LoopConsistent
  /\ MigratedOnce
=============================================================================
