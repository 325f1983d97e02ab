# Financial Crime Compliance Platform: TLA+ specifications and proofs

TLA+ models of the API server of the repository, checked with TLC and proved
with TLAPS. The subject is what unit tests hardly reach: replicas that share a
PostgreSQL database, requests whose statements interleave, processes that end
between two steps, answers that are lost, leases that run out, keys that rotate
and lists that change while a client pages through them.

## 1. Inventory

The system is one Go process (`src/cmd/api`), run in several replicas over one
PostgreSQL database. Each replica serves HTTP and runs two background workers.

| Part | State | Operations | Hard behaviour |
|---|---|---|---|
| Worker leases | `lease_owner`, `lease_until` and a due time per row of `notification_outbox` and `screening_schedules` | claim, settle, take over | replicas, clock skew, batches that outlive their lease, processes that end |
| Notification delivery (`application/delivery.go`) | outbox rows: `status`, `attempts` | `RunDue`: claim, send, complete | lost answers of destination and database; retries with backoff |
| Ongoing screening (`application/screening.go`) | schedules: `enabled`, `interval_hours`, `failure_count` | `ConfigureSchedule`, `RunDue`, `ScreenCustomer` | operators rewrite schedules under a running worker; owners change under a running screening; the API screens next to the worker |
| Transaction ingestion (`application/transactions.go`, `domain/monitoring.go`) | `transactions`, `alerts`, `audit_events` | `Ingest`, `CreateTransaction` | concurrent and repeated requests with one idempotency key; failures half way |
| Alerts and cases (`application/cases.go`) | `alerts`, `investigation_cases`, `case_comments`, `audit_events` | create, assign, comment, resolve; close | row locks in two orders; checks that must hold until the commit |
| Onboarding and review (`application/onboarding.go`) | `customers`, `audit_events` | `Onboard`, `Review` | racing reviewers, maker-checker, repeated submissions |
| Risk engine (`domain/risk.go`) | none | `Assess` | thresholds and overrides |
| HTTP screening provider (`infrastructure/screening/http_provider.go`) | `failures`, `openUntil`, shared by all callers | `Screen` | outcomes reported long after the circuit was read |
| Authentication (`auth/auth.go`) | cache of signing keys and its expiry | `signingKey`, `refreshKeys` | fetch under the write lock, rotation meanwhile |
| Due diligence and KYC (`application/due_diligence.go`) | profiles, owners, documents | upsert, add, review | racing reviewers |
| Screening matches (`application/screening.go`) | `screening_matches` | saved by a run, disposed of | racing reviewers |
| Inbox, preferences | notifications, preferences | read, configure | single statements |
| Queries (`application/queries.go`) | none; the client holds a cursor | keyset pagination of six lists | rows inserted, reviewed and re-stamped between two pages; ties |
| Rate limiter (`security/http.go`) | token bucket per client | `allow` | lazy refill, pruning of idle clients |
| Schema migrations (`migrations/migrations.go`) | `schema_migrations` and the schema | `Up` | replicas of different releases start at once; a start fails half way |
| API process (`cmd/api/main.go`) | phase of its life | start, migrate, serve, shut down | killed at any point |
| Seeding, metrics, tracing, web console, deployment | - | - | see section 8 |

**Interaction.** Handlers call application services, which validate, stamp the
time, draw ids, build audit events, and call one repository method; a method
that writes more than one row is one transaction at READ COMMITTED. Ongoing
screening calls the screening provider for each subject and writes matches,
notifications and outbox rows in one transaction; the delivery worker of any
replica picks the outbox rows up. Approved customers may have transactions,
transactions raise alerts, alerts get cases, and resolving a case closes its
alert. Replicas communicate through the database only.

The hazards that follow from this are in `PROJECT.json` under `hazards`, each
with its source line and the properties that would catch it.

## 2. Modules

| Module | Models | Uses |
|---|---|---|
| `LeasedWork` | the lease protocol of both workers: `ClaimOutbox` / `ClaimDueScreeningSchedules`, `Complete...`, process end and start, clocks | |
| `Backoff` | the capped doubling of both retry delays | |
| `AtLeastOnce` | what the outbox promises: delivered only if accepted, and final | |
| `Delivery` | the delivery worker, its senders and faults | extends `LeasedWork`, `Backoff`; implements `AtLeastOnce` |
| `OngoingScreening` | the screening worker, schedules and owners | extends `LeasedWork`, `Backoff` |
| `IdempotentLedger` | what clients of ingestion are promised: the in-memory `CreateTransaction` as one atomic step | |
| `Ingestion` | PostgreSQL `CreateTransaction`, statement by statement | implements `IdempotentLedger` |
| `CaseWorkflow` | the in-memory repository's operations on alerts and cases | |
| `Investigations` | the PostgreSQL operations on alerts and cases, statement by statement | implements `CaseWorkflow` |
| `Risk` | `Assess` and the order in which it has to be monotone | |
| `Onboarding` | PostgreSQL `CreateCustomer` and `ReviewCustomer`, `AddKYCDocument` and `ReviewKYCDocument`, matches of `SaveScreening` and `DispositionScreeningMatch` | extends `Risk` |
| `ScreeningProvider` | retries and circuit breaker | |
| `SigningKeys` | the key cache and an identity provider that rotates keys | |
| `Pages` | the paginated lists, their cursor and their writers | |
| `Migrations` | the life of an API process and `migrations.Up`, statement by statement | |
| `TokenBucket` | what the rate limiter promises: buckets that are refilled all the time | |
| `APIProcess` | processes that migrate, then serve through their limiter | extends `Migrations`; implements `TokenBucket` |
| `RateWindow` | what a client is admitted in a span of time: `APIProcess` with history variables that count it | extends `APIProcess` |
| `MCProcessMemory` | the circuit breaker and the key cache of one process, for TLC: each takes its steps while the other rests | extends `ScreeningProvider`, `SigningKeys` |
| other `MC...` | small instances for TLC: the values of constants, symmetry | |
| `ScreeningProofs` | theorems of `OngoingScreening` and `ScreeningProvider` | extends both and `LeasedWorkProofs` |
| `APIProcessProofs` | theorems of `Migrations`, `APIProcess`, `RateWindow` and `SigningKeys` | extends them |
| other `...Proofs` | theorems of the module they are named after | |

`PROJECT.json` maps every definition to its source lines. The initial state,
next-state relation and type invariant of `ScreeningProvider` and `SigningKeys`
carry a prefix (`ProviderInit`, `KeysInit`, ...), because they share a run, and
their proofs share modules with those of other components.

### How code becomes actions

*Transactions.* A request is a sequence of statements with a program counter
`pc[i]`. What it writes is invisible to others until the commit and gone after
a failure, so the tables change in `Commit` (and in `CommitUnanswered`, where
the commit is applied and the client hears of an error); the steps before it
only take locks and read. Row locks and advisory locks are not variables: a
lock is held exactly while `pc` is in certain places (`HoldsCase`,
`HoldsAlert`, `InTransaction`), and a statement that needs it is enabled when
nobody else holds it. Under READ COMMITTED every statement sees what is
committed when it runs, and an `UPDATE ... WHERE` that has waited evaluates its
condition on the new row. A unique index is a wait for the running transaction
that inserted the same value and a refusal once it has committed. `Fail` ends a
request at any statement: an error, a cancelled context or the end of the
process. A client that repeats a request is one more request.

*Reviews.* Customers, KYC documents and screening matches are rows of one kind
in `Onboarding`, told apart by the request that made them: each is submitted,
then decided by one guarded `UPDATE`. The code's three vocabularies are mapped
to `pending`, `approved` and `rejected`. Only the customer's `UPDATE` compares
the reviewer with the maker, and only it is followed by a `SELECT` that tells a
violation from a conflict; for documents see the findings. A document or match that does not exist is answered
as a conflict, as in the code.

*Pages.* A scan is the sequence of requests that a client makes with the token
of the page before. A row's key is its timestamp and id. Times are those the
service stamps before a transaction waits for its locks, or those a client
sends, so a row may appear anywhere in the order and `updated_at` may go back.
What `SELECT ... ORDER BY ... LIMIT` returns is characterised (`Newest`), not
computed: the set of rows such that none left out is newer than one returned.

*Migrations.* What a transaction executed and recorded is its own until the
commit; `schema` counts how often each migration took effect. The version is the
ledger's primary key: recording one waits for a transaction that has recorded it
too, and is refused once that is committed. The binary of a release knows the
migrations `1..release`.

*Limiter.* Times are ages. A token is `Cost` units and a tick adds `Rate`
units, so fractions of a token are exact where the code has floating point. Any
rate goes with any burst, as in the settings. Where a bucket takes longer to fill
than a client is remembered, forgetting it hands out a full bucket early; how
much that can be is a theorem (section 6).

*Time.* `LeasedWork` keeps the time that is left until a moment, not the
moment, and so has no unbounded clock. `Skew[w]` is the lead of a replica's
clock. A worker reads its clock once per batch; `age[w]` is the time since.
The due time after a record counts from there, as in the code. The claim is one
step with that read; a statement that is executed later than that compares leases
with a time that has passed, as a replica with a slower clock would, which is
within `Skew` as long as the delay is.

*Workers.* `Claim`, the send or the screening, and the record are separate
steps. Between them other replicas act, time passes, an operator rewrites the
row and the process may end. A database answer may be lost after the statement
was applied (`ClaimUnanswered`, `CompleteUnanswered`, `SaveUnanswered`), which
leaves leased rows that nobody works on. `revoked` and `accepted`, `screened`,
`recent`, `overdue`, `steady`, `present`, `changed`, `admitted` and `elapsed` are
history variables for the properties; no action of the program reads them.

*External parts*, modelled from their use: clocks, the notification
destinations, and the JWKS endpoint with its rotations.

## 3. Properties

* `LeasedWork!ExclusiveWithinLease`: two workers have the same row in their
  batch only after one of them has outlived its lease, up to the clock skew.
  Checked of both workers; for screening, an operator's rewrite is the other
  way to lose a row.
* `Delivery!AtLeastOnceSpec`, `AttemptFromFreshClaim`: the promise of the outbox
  and the fencing of late workers. `SendsWithinLease`: a worker whose batch is
  younger than its leases sends only what is pending and due, and nothing that
  another such worker has sent and is still to record, whatever late workers
  report meanwhile. `EventuallyDelivered`: also
  while messages without a sender come back in batch after batch for ever.
* `OngoingScreening!OperatorConfigKept`: a run that an operator has overtaken
  records nothing. `OwnersEventuallyScreened`.
* `Ingestion!AnswersTrue`: what clients were told stays true. A created
  transaction is the one stored under its key, a replay shows the stored one of
  the same payload, a conflict means that one of another payload is stored; a
  created or replayed answer lists the alerts that the rules ask for, each once,
  and no open alert as closed; and a request that lost the race for its key is
  never told of a uniqueness violation (`KeyRaceNeverFails`). `LedgerSpec`,
  `RecordsComplete`, `NeverStuck`.
* `Investigations!AnswersTrue`: `ok` means that the operation is in the tables
  and that no later write undoes it, a conflict is for good, of the requests that
  create one case, or that close one alert, one is told `ok` (`OneWinner`), and
  the race for a case never ends in a uniqueness violation
  (`CaseRaceNeverFails`). `WorkflowSpec`, `TrailExplainsTables`, `ChecksHold`,
  `NeverStuck`.
* `Onboarding!MakerChecker`: every row is decided at most once and its trail
  names who filed it and who decided, and a customer is decided on by somebody
  other than the maker. `IndependentReview`, the same of documents, is refuted.
  `OkIsTrue`, `RefsUnique`, `RiskOrdered`.
* `Pages!UntouchedListedOnce`: a finished scan has returned every row that was
  there throughout and was not written, exactly once. `RepeatsOnlyIfMoved`: a
  row comes twice only in the list of cases, and only if it was worked on.
  `ScanEnds`, and the reason for it, `TokensGoBack`: every page ends the scan or
  returns a token that is strictly older. What they leave open is real: a case that is itself worked on
  during the scan may be missed.
* `APIProcess!MigratedOnce`: no migration takes effect twice, unrecorded or out
  of order, and nobody serves without its migrations. `BucketSpec`: lazy refill
  is invisible to clients, and pruning is to those that have asked within
  `PruneAfter`. `EventuallyServes`.
* `RateWindow!WindowBounded(g)`: in any span of `t` ticks a process admits at most
  `burst + g * t` requests of a client; a process that starts anew begins with
  full buckets. `Delivery!NoDuplicateDelivery`, under
  `BatchesWithinLease`: see the findings and section 6.
* `ScreeningProvider!OpensAfterStreak`, `CircuitCloses`, `ScreenReturns`.
* `SigningKeys!RetiredKeysExpire`, `PublishedKeysFound`, `CallsReturn`.

Every one of them that a run checks has a mutant of the modelled code, defined right above the
definition it replaces, that violates it.

## 4. Runs

| Run | Instance | Why it is large enough |
|---|---|---|
| `Delivery` | 2 replicas, clocks one unit apart, 1 message and 1 without a sender, lease 2, batch limit 2, 1 failing attempt, all faults | a batch of two can be half sent when its lease runs out and the other replica takes over; the unroutable message is retried for ever; every fault can hit every step; backoff reaches its cap |
| `Delivery_duplicate` | 3 messages, no faults, equal clocks | a full batch of slow sends |
| `OngoingScreening` | 2 replicas, 1 customer, 1 owner, 2 intervals, 2 configurations | configuration during a run, again during the next; the owner may be added, and the API may screen, at any step of a run |
| `Ingestion` | 3 requests, 2 keys, 2 customers, 3 payloads | same key and same payload, same key and other payload, two keys with one reference, no rule and both rules tripped, amounts just below and at the threshold |
| `Ingestion_replay` | 2 requests with one key | the second is a replay |
| `Investigations` | 5 requests of any kind on 1 alert | every pair and triple of operations races, and a whole history (create, assign, comment, resolve, close) fits; alerts share no rows or locks, so a second one adds no interaction |
| `ProcessMemory`, circuit breaker | 4 callers, threshold 3, 1 retry | three failed calls of one caller open the circuit while the three others are under way, whose failures open it again; or the failures that open it are all under way at once |
| `ProcessMemory`, key cache | 2 handlers, 2 keys, lifetime 2, fetch time 1 | one handler waits while the other fetches; one key replaces the other |
| `ScreeningProvider_contract` | 2 callers, threshold 3 | three failed calls in a row |
| `Onboarding` | 4 requests, 2 people, 1 reference and none, 2 assessments (35 and 55 points) | two submissions and two reviews, one submission and three reviews that race, or a customer, its evidence and two reviews of it, by the maker or by somebody else; enhanced due diligence begins at 50 points, between the two (the sanctions override and all other factors are covered by `AssessMonotone`) |
| `Onboarding_documents` | 3 requests, 2 people | a customer, a document and its review |
| `Pages` | 3 rows, 2 timestamps, pages of 1 and 2, an invalid size, every status filter | ties across a page boundary, inserts on both sides of the cursor, full, empty and last pages |
| `APIProcess` | 2 replicas, releases with 1 and 2 migrations, 1 failing start, 1 client, burst 2, half a token a tick, pruned after 2 ticks | an old and a new release race and either fails half way; the bucket is empty, part filled, full and forgotten, also before it has filled (an empty one takes 4 ticks); clients share nothing but the search for idle ones |

Bounds: `MaxAttempts` and `MaxFailures` say after how many failures an attempt
succeeds, `MaxConfigs` how often operators configure, `MaxAge` how long a batch
is counted (beyond lease, skew and longest delay nothing changes any more);
`accepted` is counted to two; times beyond the point where they matter are not
told apart. With `Limit = 1` in `Delivery.cfg`, where the message without a sender
fills a batch by itself, the run passes as well. `MaxFaults` bounds the starts that fail, since a database that
refuses every start keeps everybody down. `Pages` counts how often a row was
returned to two. `ProcessMemory` asks one question of two parts that share no
state and of which no code uses both under a lock: each is explored while the
other is in an initial state, where it has no step that fairness demands.
Symmetry is used over requests, keys and people in the request
models, whose properties are safety properties only; the runs that check
liveness declare none. The `Quiet` action of the request models is the state in
which no request is open.

### Findings

Four runs show the code and a document of the repository disagreeing:

* `Delivery_duplicate`: `docs/ARCHITECTURE.md:69` promises replicas "without
  duplicate screening or notification delivery"; two minutes of lease cover a
  batch of up to 25 sends, and a slow batch is delivered twice. When the promise
  does hold is the theorem `NoDuplicatesWithinLease`.
* `Ingestion_replay`: `README.md:285` promises that a retry "returns the
  original response"; the alerts in it are read again and may be closed by then.
* `ScreeningProvider_contract`: `docs/PROVIDER_ONBOARDING.md:32` keeps contract
  violations away from the circuit breaker; `Screen` counts every failed call.
* `Onboarding_documents`: `docs/openapi.yaml:188` ("Independently verify or reject
  KYC evidence") and `README.md:56` promise an independent reviewer;
  `ReviewKYCDocument` compares the status only, and an administrator, whose role
  allows both, files a document and verifies it.

## 5. Fairness

* `Delivery`, `OngoingScreening`: weak fairness of time, of restarting a
  process (the orchestrator does) and of the end of a call (every call has a
  timeout). Strong fairness, message by message and customer by customer, of
  being claimed by some replica, of a successful send or screening while the
  lease is held, and of recording it: faults do not come every single time.
  Nothing is assumed of messages without a sender, and nothing forces a message
  to be saved or a schedule to be configured.
* `Pages`: the client asks for the next page while it has a token.
* `APIProcess`: the orchestrator starts what is down, statements of a start
  return or fail (it has a deadline of ten seconds), and PostgreSQL queues those
  who wait for the advisory lock (strong fairness of `Lock`). Nothing makes a
  process end.
* `ScreeningProvider`: requests end (client timeout), a finished call reports,
  time passes. Callers need not call.
* `SigningKeys`: a fetch ends, and `sync.RWMutex` starves nobody (a waiting
  writer blocks new readers, and readers run between writers).
* `Ingestion` and `Investigations` need no fairness. `NeverStuck` has two parts:
  the waits for locks never form a cycle (`NoCircularWait`, also proved), and a
  request that waits for nobody can take a step that is not a failure. Since a
  request has finitely many statements, all of them end.

## 6. Theorems

All hold for any number of workers, messages, requests, alerts and people, any
clock skew up to `MaxSkew`, and any lease and delays that satisfy the named
assumptions of the modules.

* `LeasedWorkProofs`. The exclusion is not inductive: it says nothing of a
  worker whose row was taken. `LeaseInv` adds that a worker which still owns a
  row has a lease that covers the age of its batch (`LeaseCoversBatch`), that a
  row is lost only by an overrun (`LostOnlyByOverrun`), and that a process that
  is down owns nothing (`DownOwnsNothing`), which rests on fresh worker ids.
  `ClaimedIsDue`: what a worker owns stays due on its clock.
* `DeliveryProofs`. The steps of `Delivery` that touch a lease are written with
  the actions of `LeasedWork`, so its invariant carries over. `DeliveryInv` says that a worker's copy of a row is
  current while it owns the row (`ClaimedCopyIsFresh`) and that what it is
  about to record happened (`SentIsInBatch`); from these follow the refinement
  of `AtLeastOnce` and the fencing. `DeliverySendsInLease`: within its lease a
  worker owns the message it sends, so that its copy is current and the message
  due, and another worker that has sent it has lost it, by an overrun.
  `NoDuplicatesWithinLease` is the other half
  of the finding `Delivery_duplicate`: if no process ends, no answer is lost
  (`Faults = {}`) and every batch is finished within its lease less the clock
  skew (`BatchesWithinLease`), no message is accepted twice. Its invariant,
  `SentOnce`, says that an accepted message is delivered or is in the hands of
  the worker that owns the row and is about to record it; that nobody takes the
  row from it meanwhile is the lease invariant above. Neither hypothesis can be
  dropped: the finding is a batch that is too slow, and a process that ends
  between send and record leaves the message to be sent again.
* `ScreeningProofs`, worker. `OperatorConfigKept` is about the step that records
  a run, and what it needs is older: that the row has not been rewritten since
  the claim. `ScreeningInv` says that as long as a worker owns a row of its
  batch the row is enabled, not revoked and equal to the copy which the claim
  returned (`ClaimedScheduleIsFresh`). Owning the row protects it because
  `ConfigureSchedule` takes the lease away and other workers only take rows
  that are not leased; `CallIsInBatch` and `RevokedIsInBatch` tie the running
  call and the history to the batch. The lease invariant is part of it, and with
  it the exclusion.
* `ScreeningProofs`, provider. An outcome is reported long after the circuit was
  read, by any of the callers. `ProviderInv` says that `failures` is the length
  of the streak (`StreakCounted`), from which it follows that only the failure
  number `Threshold` opens the circuit.
* `IngestionProofs`. `IngestionInv`: a key's lock has one holder, so that what
  its lookup found is still true at the commit (`LookupStaysTrue`), and an
  inserted row keeps others out of the unique indexes (`IndexReserved`). From
  these, completeness of the records and the refinement of `IdempotentLedger`.
  `NoCircularWait`: whoever waits for a key waits for a transaction, and
  whoever waits in the index waits for a transaction that has inserted its row
  and waits for nothing more, so that the two kinds of locks have an order.
  `AnswersStayTrue`: an answer is right when it is given (`OneAnswerGiven`),
  because of what the lookup found and of complete records, whose alerts a replay
  lists in full (`RowsAreRules`, `ReplayLists`); it stays right since the tables
  only go forward (`TablesGoForward`, `OldAnswerStaysTrue`).
  `TypeOK` needs that no more alerts are inserted than there are findings and
  that there are at most two of those.
* `InvestigationsProofs`. `InvestigationsInv`: row locks have one holder and
  requests hold those their statement needs; hence `ChecksHold` at the commit,
  and each commit is one operation of `CaseWorkflow`. That refinement carries
  `TrailExplainsTables`: an operation of the workflow adds one event, or two
  when a case is resolved, and it is enough to show that each is in order after
  the events before it (`OneEventAdded`, `ResolutionAdded`), which the statuses
  that the operation found tell. `NoCircularWait`: a request that has locked
  both rows waits for nothing more, one that has locked a case waits for the
  alert at most, and the insertion of `CreateCase`, which holds the alert,
  waits for another insertion at most. `AnswersStayTrue` rests on `ChecksHold` at
  the moment of the answer and on statuses that only go forward after it; two
  requests cannot both be told that they created a case, because the first one's
  case refutes the check of the second when it commits.
* `OnboardingProofs`. `OnboardingInv`: the condition of the review's `UPDATE`
  holds until the commit (`CheckedStays`), rows are what their requests asked
  for (`RowFromRequest`), references are reserved (`RefReserved`).
  `AssessMonotone` covers all risk factors, not only those of the run.
* `PagesProofs`. The property speaks of finished scans. `PagesInv` says for
  every moment that a row which was there and has not been written is ahead of
  the cursor and not yet returned, or behind it and returned once
  (`UntouchedAheadOrListed`); that a row with a fixed key is returned only when
  it falls behind the cursor (`FixedListedBehind`); and that rows which did not
  satisfy the filter and were not written still do not (`OtherRowsFilteredOut`).
  The lemmas about `Newest` and `Oldest` (a finite set of rows has a last one;
  what the page returns is what lies between the two cursors) carry the step.
  `ScanMakesProgress` is the safety half of `ScanEnds`: whatever is written
  meanwhile, the token only moves to older keys.
* `APIProcessProofs`. `MigrationsInv`: exactly the process that holds the
  advisory lock is in a transaction (`LockHeld`), and behind its loop the
  ledger, committed or its own, has no gaps (`LoopConsistent`). The limiter
  implements `TokenBucket` with `level`: the refilled bucket, or a full one for
  a client that is not known, and `silence`: how long ago a client asked.
  `TokenBucket` leaves one thing open, that the bucket of a client which has been
  silent for longer than `PruneAfter` may be full early; the theorem says that
  nobody else gains by pruning. It assumes nothing of rate and burst, since
  `run` accepts every pair: 10 a second with a burst of 10000, for instance, where
  ten minutes do not fill a bucket. Its invariant, `SweptLately`, bounds how long
  a known client has been idle by the time since the last search.
  `LimiterBoundsEveryWindow` says what this comes to: for every `g` that is at
  least the rate and for which `g` times (`PruneAfter + 1`) is at least the burst,
  a span of `t` ticks admits at most `burst + g * t` requests of a client. With the
  defaults (20 a second, a burst of 40) `g` is the rate; with 10 and 10000 it is
  burst over ten minutes, about 17 a second, and TLC confirms on a small instance
  that the rate itself would not do. The span may begin at any moment, which is a step
  of `RateWindow`. `WindowInv` is that what is left in the bucket was not admitted
  (`Unspent`), nor was what could have been gained while the client was silent
  (`Unasked`), which pays for a full bucket after the client was forgotten.
* `APIProcessProofs`, signing keys. A caller may accept a key that somebody else
  has fetched, from an answer that was given before the key was retired.
  `KeysInv` bounds the age of all three copies: the key is in the answer under
  way only if it was retired during this fetch (`AnswerIsRecent`), and in the
  cache only if it was retired no longer ago than the fetch took and the cache
  has lived since (`CacheIsRecent`); so a key that was overdue when the call
  began is in none of them when the caller looks again (`OverdueRefused`). The
  converse, `SteadyKnown`, follows a key that stays published from the answer
  to the cache to the caller. Both need the write lock (`OneFetch`).

## 7. Only model-checked

Every invariant and every safety property of the passing runs is the subject of
a theorem, with these exceptions, which are beyond the prover:

* Liveness: `EventuallyDelivered`, `OwnersEventuallyScreened`, `ScanEnds`,
  `EventuallyServes`, `CircuitCloses`, `ScreenReturns`, `CallsReturn`.
* The second part of both `NeverStuck`, which uses `ENABLED`. The first part,
  `NoCircularWait`, is proved.

Conversely, `NoDuplicatesWithinLease`, `ScanMakesProgress` and
`LimiterBoundsEveryWindow` are theorems that no run of `PROJECT.json` repeats:
the first has a hypothesis on whole behaviours, the second adds to a run that
checks `ScanEnds`, and the history variables of the third grow without bound.
They and the inductive invariants were checked with TLC on small instances
before they were proved.

## 8. Not modelled

* Values of settings, decoding and validation of requests, formatting, metrics,
  traces, the web console, deployment and scripts: no property here depends on
  them. Security headers: the same for every response. Checks of a single token
  and of roles: no state. The demo provider's name similarity.
* Notification inbox and preferences: each operation is one statement without a
  condition on earlier state (a notification is marked as read, the row of a
  user replaced), so that whichever comes last wins and nothing can interleave.
  The same holds of the CDD profile.
* Demo seeding and the provider check: development commands that call the
  modelled operations one after another.
* The in-memory repository beyond what serves as abstract specification: only
  tests use it.
* Duplicate match rows of a screening that is repeated: `OngoingScreening`
  keeps which owners are covered, not how often. A case whose alert was closed
  directly can never be resolved; the tests accept that.

## 9. Plan

1. The second part of `NeverStuck` and the liveness properties, once the prover
   supports `ENABLED` and fairness.
2. Duplicate match rows of repeated screenings, and the inbox if it gets
   operations that depend on each other.
