# A TLA+ development for cass-cdc-pg

The program keeps a PostgreSQL copy of Cassandra tables up to date through Debezium and Kafka,
and adds what the connectors do not do: conflict resolution by timestamp, a PostgreSQL repository
with retries and a circuit breaker, replay of dead letters, GDPR erasure in both stores,
reconciliation with alerts, schema evolution, health checks, and credentials from Vault.  The modules here
specify that code, TLC checks them on small instances, and TLAPS proves the properties that
matter most for every value of the constants.

    tlc -workers 2 -config OutOfOrder.cfg MCOutOfOrder.tla      # one run, see "Runs"
    tlapm OutOfOrderProofs.tla                                  # one module of proofs

`PROJECT.json` maps every definition to the lines it models, and lists the runs, the mutants that
show that each property can fail, the hazards with the properties that cover them, and the theorems.

## Inventory

State, operations and interactions of each part of `src/src`, and what makes it correct.

| Part | State | Operations | Hard because | Correct when |
|---|---|---|---|---|
| `connectors/transforms/timestamp_conflict_resolver.py` | a table row | `should_accept_event`, conditional upsert statement | events of a row come late, twice, tied, without a timestamp or id | the row is a newest event of what was delivered, in any order; both ways agree |
| `utils/circuit_breaker.py` | `state`, `failure_count`, `last_failure_time`, no lock | `call` | threads interleave at every statement | opens after 5 consecutive failures, half open only while it is tested, recovers |
| `repositories/postgresql_repository.py` | pool, breaker | `upsert` with retry; reads and deletes without | three mechanisms nested: retry, breaker, pool; lost acknowledgements | no connection kept, every write accounted for, ends |
| `services/dlq_service.py`, `api/routes/dlq.py` | table `_cdc_dlq_records`, Kafka | `replay_events`; `query_dlq_records`, `get_dlq_stats` | Kafka and PostgreSQL without a common transaction; row locks; timeouts whose send still happens; pages and counts taken one after another while rows move | nothing resolved that is not in Kafka; all or none; ends; a walk through the pages misses no row but for those that moved |
| `api/routes/gdpr.py` | a row in each store | erase: back up, delete, delete, compensate, audit | a saga beside writers, other erasures and the pipeline; statements that fail after they took effect | every missing row accounted for, success for good, stores converge |
| `services/reconciliation_engine.py` (checksum, sample, timestamp) | job and mismatch tables, the shared connection | count, sample, compare row by row, record | the tables change between the queries; the insert order and the handlers decide which job is left | differences reported, no alarm without a reason, one verdict per run |
| `services/reconciliation_engine.py` (row counts), `reconciliation_scheduler.py`, `alert_service.py`, `repositories/reconciliation_repository.py`, `api/routes/reconciliation.py` | job table, one shared connection, in-flight runs | hourly and manual runs, alert, trigger answer; the lists of jobs and mismatches, `resolve_mismatch` | runs yield to each other at the alert's HTTP push; one SQL error poisons the shared connection | every ended run recorded, `alert_fired` true only if accepted, a trigger never answers with an old job |
| `services/schema_service.py` | none; the Schema Registry's subject | detect, check, register | two HTTP calls with other clients between them, swallowed errors | the local verdict is the registry's; an override holds for the version it registered |
| `repositories/vault_repository.py` | two dictionaries | cached reads, refresh, renew, close | hours of caching against leases, rotation and token expiry | no dead lease handed out, bounded staleness, refresh final |
| TTL: `services/type_mapper.py`, trigger of `docker/postgres/init-db.sql` | `_ttl_expiry_timestamp` of each row | `calculate_ttl_expiry`; the trigger in each writer's transaction | every statement sweeps the whole table while it holds its own row, beside others that do the same | no renewed row deleted, no expired one left, every operation ends |
| the rest of `services/type_mapper.py`, `utils/validators.py`, `models/*.py` | none | pure functions, value classes | string parsing | not modelled, see the plan |
| `monitoring/health_check.py`, `api/routes/health.py` | `_health_service` and three global repositories, no lock | `get_health_service`; five checks, aggregated | a sync dependency in a thread pool initialises the globals statement by statement; stores go down meanwhile | a service has all repositories or none; healthy was so; every request answered |
| `repositories/cassandra_repository.py`, `config`, `middleware`, the rest of `monitoring`, `docker`, `helm` | | | configuration and thin wrappers | not modelled, but for `connect` as health checks call it |

**Interactions.**  `PostgreSQLRepository.upsert` is the only caller of `CircuitBreaker.call`, and
all threads that share a repository share one breaker and one pool.  `api/main.py` opens *one*
psycopg2 connection and hands it to the engine, the scheduler, the alert service and the trigger
route.  DLQ and GDPR handlers are `async` functions that never await, so inside a process they
follow each other; the default deployment is one uvicorn process (`docker/api/Dockerfile.api:32`),
and several requests "at once" in the models mean several processes, or an old and a new one during
a restart.  The erasure's deletes meet the pipeline, which applies Cassandra's changes to
PostgreSQL later.  Replayed events meet the resolver again, where a duplicate can replace a
row of its own timestamp but never a newer one (`RedeliveryKeepsTime`).  The checksum validation reads both stores while the pipeline is on its way
between them.  The health routes build repositories of their own and share them among requests.  Nothing in the repository calls `SchemaService`, and
`VaultRepository` is used by one thread at a time; those two are modelled as libraries whose
methods are called in any order.

**Wiring the models take as repaired.**  Several classes do not fit the objects they get:
`PostgreSQLRepository` has no `.connection`, `Settings.cassandra` has `host` and not `hosts`, the
settings are named `postgresql` where some code says `postgres`, `ReconciliationRepository` leaves
`connect` and `close` abstract, rows of `dict_factory` are read as named tuples, `prometheus_pushgateway_url`
is missing from the settings, `init-db.sql` names the columns of the dead-letter table differently from
`dlq_service.py`, the UUID adapter is registered only by `tests/integration/conftest.py:123`, no
`dependency_overrides` turn `Depends()` on classes into connected repositories, and the sink's filter
`.*` drops every record.  The modules describe the code behind those seams, as the tests' fixtures
connect it.  They are plain errors that any execution shows and no exploration is needed for.

## Modules

| Module | Specifies | Built on |
|---|---|---|
| `LastWriteWins` | what a last-write-wins row promises: the abstract specification | |
| `ConflictResolver` | the consumer that asks `should_accept_event`; implements `LastWriteWins` | `INSTANCE LastWriteWins` |
| `ConditionalUpsert` | the statement of `create_conditional_upsert_query` with SQL's NULL | |
| `OutOfOrder` | both fed the same events in different orders | the two above |
| `CircuitBreaker` | `call`, one statement a step, any number of threads | |
| `BreakerPolicy` | FR-020 as history variables over the calls | `CircuitBreaker` |
| `PostgresRepository` | `upsert`: retry around breaker around a pooled connection | `CircuitBreaker` |
| `DeadLetters` | what a replay promises: the abstract specification | |
| `DlqReplay` | `replay_events`, Kafka, row locks; implements `DeadLetters` | `INSTANCE DeadLetters` |
| `TtlRetention` | upsert, soft delete and delete with the TTL trigger in their transactions | |
| `GdprErasure` | the erasure saga, application, pipeline, crashes | |
| `Reconciliation` | runs, shared connection, alert push, trigger answer, restarts | |
| `ChecksumValidation` | checksum, sample and timestamp validation beside the pipeline and writers | |
| `RecordListing` | paging through dead letters, jobs and mismatches; the dead-letter statistics | |
| `HealthService` | initialization on several threads, the checks, the status codes | |
| `SchemaEvolution` | detection, local check, Avro schema; registration by several clients | |
| `VaultCache` | the cache before Vault's two engines | |
| `MC*` | values for TLC | the module of that name |
| `*Proofs` | theorems | the module of that name; `RepositoryProofs` covers `CircuitBreaker`, `BreakerPolicy`, `PostgresRepository` and `TtlRetention`, `DlqProofs` covers `DlqReplay` and `RecordListing`, `ReconciliationProofs` covers `Reconciliation` and `ChecksumValidation` |

### Conflict resolution

An event is `[ts, id, data]`, where `ts` and `id` may be `Null`; a row stores the three columns.
`ConflictResolver.ShouldAcceptEvent` and `ResolveTimestampTie` follow the early returns of
`should_accept_event` and `_resolve_timestamp_tie` one by one.  `Consume` is the consumer the module is written for: it
looks the row up with `create_conflict_resolver_query`, the repository's only lookup, which returns the primary key
(`PrimaryKey`, any value) under the name of the last event id.  The decision by itself is the order of `data-model.md`
(`DecisionFollowsOrder`); through the lookup a tie is decided against the row's key.  What that leaves is what the
properties say: no delivered event is newer than the row, and of its ties the row is one whose id
follows the key, if there is any (`HoldsKeyWinner`); `LastWriteWins` therefore promises a newest event and
leaves ties open; and a redelivery can change only a row of its own timestamp.  That the highest id wins is the
document's claim (`ResolverTieWinner`), which TLC refutes.  `ConditionalUpsert` has the `WHERE` clause and the `CASE` of each
column apart, with three-valued comparison: the statement settles ties in a third way (`StatementTieWinner`).

### Breaker and repository

`CircuitBreaker` has a program counter for each thread whose labels are statements.  Only
`failure_count += 1` is one step although it reads and writes: CPython 3.11 switches threads at calls
and backward jumps only.  Time is the difference `time.time() - last_failure_time`, saturated at the
timeout.  `PostgresRepository` adds tenacity's loop (elapsed time, next wait), the pool (`held`) and
what the server did (`wrote`, `lostAcks`).  The other methods of the repository, which borrow a
connection without breaker or retry, are the `Borrowers`.

### Dead letters

A session goes through `fetch`, `producer`, the loop (`sent`, `update`, `except`), `finally`.  Kafka
publishes or drops a sent event at any time, also after `future.get` has given up.  The transaction
holds its rows; a failed statement aborts it, after which psycopg2 raises at each statement but
`commit()` rolls back silently, which is why `AllOrNone` is about what was committed.  The answer's
`failed_count` also counts events that reached Kafka after the 10 s timeout, or whose `UPDATE` failed
after the send (`FailedStaysUnpublished`), and `replayed_count` counts records that an aborted transaction
rolled back (`ReplayedIsResolved`).

`DeadLetters` says the same to a reader who does not care how: a request brings events back one by one, at any time,
also after its answer (a late send); it resolves once, a set of records at one moment, only what it names and has
brought back, and nothing after its answer; and nothing becomes pending again.  A request is `over`
once it has committed rows or is answered.

### TTL

A writer is one call of `upsert`, `soft_delete` or `delete`: one statement, one transaction.  `own` is what it
has locked and how it has left it; the trigger's DELETE (`Trigger`, `Scan`, `DeleteExpired`) takes a snapshot, comes to the
rows in any order, waits for those that others have locked, and looks again.  A row is `[tuple, by, expiry]`, where
`tuple` tells a row from one that was inserted after it was deleted.  `NOW()` is the transaction's beginning.  Two writers
that each renew a row the other's sweep wants are a deadlock; the server fails one, and only `upsert` tries again.
What the code does and no property says: expired rows stay until somebody writes to the table
(`type_mapper.py:145` says "automatically"); a swept row leaves no timestamp behind, so an older event that comes later brings
its key back; `fromtimestamp` is local time without a zone, right where process and session are in UTC.

### Erasure

One row, with Cassandra's value a version number or none, PostgreSQL's likewise, and `feed`, the
changes the pipeline has still to apply.  A statement that raises may have been executed.  History
variables say which request removed the row (`remover`), whose Cassandra write was `doubtful`, which
requests `overlapped`, and whether the application wrote between two deletes (`raced`).  Two things
the properties have to except, and the models reach: of two overlapping requests one can succeed
and the other's compensation bring the row back from its older backup (`ErasedStaysErased`); and PostgreSQL can lose a row
written between the two deletes until it is written again.  The audit `INSERT` names columns that
`_cdc_audit_log` does not have, so no erasure is ever audited (`AuditAccepted` computes it from both
sides, `EveryErasureAudited` states what `docs/reconciliation.md` promises).

### Reconciliation

A step is a run up to its alert's push, or from the push to its end, as database calls block the
event loop.  `unusable` is the aborted or lost shared connection, which only a restart repairs.
`Drift` computes in hundredths of a percent, as the column's `DECIMAL(5,2)` and the model's `le=100`
compare.  A run whose drift is over 100 percent raises after it is stored and before its alert (`CriticalDriftAlerts`).  Also reachable, and stated nowhere as a promise: a failed scheduled run keeps the label
`MANUAL_ONDEMAND`, `GET /jobs` raises on a row over 100 percent, and zero rows in Cassandra is a drift of
0.  The trigger route takes a `validation_strategy` and always validates row counts.  A trigger for
several tables is one run per table.  `started_at` values are taken to be distinct.

### Checksum validation

A row is the number of the write it stems from, so that equal numbers are equal checksums;
`setup` says whether the engine has a repository, whether `json.dumps` takes the rows' values,
whether the `cdc_` table exists and whether it has metadata columns.  Each query, comparison and insert is a step,
and Cassandra, the pipeline (`feed`) and other writers move between any two.  `held` and
`unsettled` are histories of what PostgreSQL had, and where the stores were apart, while the validation ran.
What the model makes plain about the code:

* Rows that only PostgreSQL has are never found: the sample comes from Cassandra, and from the
  first `2 * sample_size` rows in token order when a `LIMIT` applies.  No property depends on which rows
  are fetched, and three rows make no `LIMIT` effective in the run.
* Checksums are over all columns, so a copy with metadata columns disagrees in every row.
* `create_mismatch` comes before the `create_job` it refers to; the foreign key refuses it and aborts
  the shared connection (or `json.dumps` has raised before), and the FAILED job is then refused too.  With a
  repository no mismatch is ever stored and no validation that found one returns: `MismatchesAreAResult` states what the
  docstring and `tests/integration/test_reconciliation_checksum.py:99` say instead.
* The timestamp validation delegates to the checksum validation and fills a COMPLETED job of its own that it
  does not save; when it fails, a second FAILED job is.
* An id that Python takes for false (`Falsy`) is not compared (`SampleCompared`).

### Listing

One client walks by `limit` and `offset`, or asks for the statistics, and other requests insert rows
or move them into and out of its filter.  `Slice` is the set of answers PostgreSQL may give: rows with equal timestamps
come in any order, and another one in each statement.  `Total` is the second query of
`query_dlq_records`, capped at `MaxTotal`; the routes for jobs and mismatches answer with the length of the page
as `total`, although `routes/reconciliation.py:52` calls it the "Total number of jobs matching filters".  A row
that the model class refuses fails each page and each total it is in (`unreadable`), for dead letters with
400 "Invalid filter value".  The properties allow exactly what offset paging loses: one row
for each that leaves the filter, one repetition for each that enters, and rows that share a timestamp.  The
dead-letter table has the columns `dlq_service.py` names.

### Health

A program counter for each request whose labels are the calls at which `get_health_service` can lose the
interpreter; a repository is named by the request that made it, and `opened` and `dead` are its connection.
The checks run on the event loop, one request at a time (`RunCheck`).  psycopg2's connection never comes
back once lost, the drivers of Cassandra and Vault reconnect; Vault's client exists before its token is
verified.  A failed first initialization leaves a service without repositories for the life of the process,
whose `/health` says 200 "degraded": `contracts/rest-api.md` promises 503 (`UnhealthyIs503`).

### Schema evolution

Columns are a function from names to `[type, nullable, default]`.  A default is `Any`, copied as it is: it is none, fits the
column's type, or misfits, and the registry refuses a schema with the last kind.  The registry's side (Avro schema
resolution, the promotions, the latest version under the subject's mode) is external.  `Compatible` gives BACKWARD and
FORWARD the meaning the registry gives them, that of `data-model.md:191-198`: under BACKWARD new schemas read old data.  The docstrings
of `schema_service.py:307` and `:342` say it the other way round ("old consumers can read new data" of BACKWARD,
"new consumers can read old data" of FORWARD); the code under them does what the registry means, up to `CheckBlind`.  `CheckBlind`
collects the changes the local check cannot see, as it compares `cassandra_type` alone: a column that becomes
required, one that is dropped although required, and a nullable column with a default, which becomes
a union whose default is not of its first branch.  Outside of these the local verdict is proved
right; `ForwardRemovesOptional` is the document's rule that the second kind breaks.  A mode whose PUT fails is only logged,
and the registration goes on under the mode the subject had; a mode that was put can be another client's by the time of the POST.
`OverrideHolds` therefore goes by the last PUT that took effect, whoever's it was, and `OwnOverrideHolds`, the promise of an
"override", is refuted.

### Vault

Hours; a secret's versions are counted, a role's credentials are the number of their lease.
`Empty` is the credentials without a field, which `if cached_creds` takes for a miss.
`refresh_credentials` on a path of the database engine asks the key-value engine and always raises,
after it has thrown the live entry away.  Callers pass any cache length; with one beyond the lease, or when the token
ends, credentials are handed out dead, and `LeaseOutlivesCache` says that these are the only two ways.  With the role of `docker/vault/init-secrets.sh` (`max_ttl`
equal to `default_ttl`) `renew_lease` extends nothing.

## Runs

All bounds are in the `.cfg` files and `MC*` modules.

| Run | Instance | Shows |
|---|---|---|
| `out_of_order` | 8 events: three timestamps, a three-way tie, missing ids and timestamps; any subset in any order on each side | the resolver's row is a newest event and what its lookup leaves of the tiebreak, implements `LastWriteWins`, is moved by a redelivery only among ties; the statement's row is the newest; both agree when timestamps differ |
| `breaker_policy` | 3 threads, threshold 2, timeout 2 ticks | serial calls follow FR-020, the breaker never settles closed over its threshold, and recovers |
| `postgres_repository` | 2 upserts (one with a bad record), a borrower, pool of 1, threshold 2, window 2 | no connection kept, writes accounted for, every upsert ends |
| `dlq_replay` | 2 sessions over 3 and 2 of 3 records, crashes, deadlocks, late deliveries | resolved was published, all or none, implements `DeadLetters`, ends |
| `ttl_retention` | 2 operations of any kind, with and without TTL, on 2 rows, absent, expiring or not; 2 attempts, 1 lost connection | the table holds what was written last unless it expired; a sweep leaves nothing expired; every operation ends |
| `gdpr_erasure` | 3 requests in 2 processes, 3 writes by the application | accounted removal, success for good, convergence |
| `reconciliation` | 1 hourly and 3 manual runs, counts on each side of 1 %, 5 %, 100 % and 999.99 %, a table without copy, 1 lost connection, restarts | records of a healthy connection are right, fired alerts were accepted, triggers answer with fresh jobs |
| `checksum` | 3 rows, one with a false id, samples of 2, 2 validations, 2 changes, 1 lost connection, each `setup` | differences reported, no false alarm on a table at rest, one verdict per run |
| `listing` | pages of 1 over 3 rows and up to 2 moves, totals capped at 3, 4 timestamps with ties | a walk shows every row that stayed but for one per row that left; repeats only for rows that entered |
| `health` | 2 requests (`/health`, `/health/postgresql`), Cassandra and PostgreSQL may go down, twice | all or no repositories, connected ones unless a connect raised, 503 without an outage only in a race, healthy is earned, every request answered |
| `schema_evolution` | 3 clients (override `BACKWARD`, override `FULL`, none), 7 column sets, failing calls | the local verdict holds outside of `CheckBlind`; the override put last holds for what is registered |
| `vault_cache` | 1 secret with 3 versions (one empty), 1 role, 2 leases of 2 hours (3 with renewals), cache for 1 or 3 hours, 4 hours | no dead lease but by a dead token or an overlong cache length, brief staleness, refresh lasts |

The configurations that refute what documents say are listed under "Findings".
`ListingStats.cfg`, kept beside the runs, checks that the breakdowns of `GET /dlq/stats` never fall below its total, which holds.

**Why the bounds are enough.**  Order and ties need three values of each and a missing one; eight
events have them all.  A threshold of 2 has a state below, at and beyond it, and three threads give two racing and
one bystander; `SettledBelowThreshold` is proved for all.  Two sessions are enough for a lock cycle,
and the third record is one that is left to the first after it.  Three requests in two processes have both a sequence
in one process and an overlap between two.  The counts of reconciliation sit at each side of every
limit, and one lost connection is as good as several, because nothing repairs it but a restart, after which the
outages are bounded but the restarts are not.  Seven column sets are pairwise related by every kind of
change, and by a default that does not fit.  The hours of the vault run let an entry be replaced, rotated over and expire, and a lease be renewed and end, before its entry or after it.
Three rows leave one outside of a sample of two, and one of them has a false id; two changes can take PostgreSQL
away from what was sampled and back, and the second validation meets what the first left behind.  Two writers on two rows are the smallest deadlock and renewal race of the
TTL trigger; its safety also held for three writers (upserts and deletes, one attempt each), where a row can be deleted and inserted
again during a sweep.  Two moves between
pages of one row are enough to skip a row, to repeat one, and to do both; the listing also held with three moves, and
with pages of two over four rows.  Two requests are all the threads that overlap in one initialization; a third
finds a service.  Two outages can take the same component down twice, or both at once.
Symmetry is used only in `reconciliation`, for runs with the same trigger and table.

**Deadlock** is checked in the runs whose system never stops; `CHECK_DEADLOCK FALSE` stands where
every request ends (dead letters, erasure, reconciliation's runs, validations, walks, health
requests, TTL writers, schema clients) or the clock does (vault).

**Fairness.**  `CircuitBreaker`: weak fairness of each thread's next statement inside a call and of the
clock; entering a call and the database's changes are unfair.  `Recovers` therefore assumes in its own
statement that calls keep coming and the database stays up.  `PostgresRepository`: the same, for the retry
loop; a statement ends because psycopg2's connection ends it.  `DlqReplay`: weak fairness of a
session's `Progress` while its process lives; waits end by `future.get`'s timeout, by the end of the transaction that
holds the row and by the server's deadlock detector.  Nothing forces a connection to break (`ConnectionLost` is unfair, like crashes)
and there is no lock timeout, so without the detector a request can wait for ever, which is the mutant of `EveryRequestEnds`.  `HealthService`: weak fairness of a request's next step once
it has come, as the interpreter and the event loop serve every thread and task, and each `connect()` and each check ends:
by a timeout of its own, but for `check_postgresql`'s `cursor.execute`, which has none and ends when TCP gives the
connection up; outages and recoveries are unfair.  `TtlRetention`: weak fairness of each
writer's step, as waits end with the commit or failure they wait for and cycles with the server's deadlock detector.  The other modules have safety properties only and
no fairness.

## Findings

No run expects a violation.  Each configuration below is kept beside the runs and checks what a document says; TLC refutes it.
None of these formulas is in a run, and none of the properties of the runs asserts the opposite: they say what
the code still guarantees.

| Configuration (module) | The code | Against |
|---|---|---|
| `Ties.cfg` (`MCOutOfOrder`, with `-continue`), `StatementTieWinner` | the upsert's `WHERE` accepts a tie with a higher id, the `CASE` of each column keeps the lower | "higher event_id wins", `data-model.md:626` |
| the same, `ResolverTieWinner` | the lookup returns the key as the last event id; a tie with a lower id replaces a higher one | the same line |
| `HalfOpenStuck.cfg` (`CircuitBreaker`) | a late success sets the count of an open breaker to 0, and the probe that fails next counts 1 and leaves it half open, with nothing probing and every later call admitted; no fine-grained race is needed | "Testing if service recovered", `circuit_breaker.py:19` |
| `RetryWindow.cfg` (`PostgresRepository`) | the fifth failure opens the breaker, whose exception the retry predicate does not know: the retries end after 31 seconds, before the waits of 32 and 60 (that it may be raised is in the docstring as well) | "stop_after_delay: 300s (5 minutes)", `postgresql_repository.py:196` |
| `DlqCounts.cfg` (`MCDlqReplay`) | records whose update a silent commit rolled back are counted as replayed | "Status should be updated to resolved", `test_dlq_replay.py:148` |
| `DlqLateSend.cfg` (`MCDlqReplay`) | an event counted as failed is published after the timeout | "Number of events that failed to replay", `api/routes/dlq.py:29` |
| `ErasureUndone.cfg` (`MCGdprErasure`) | a failed erasure's compensation brings back what an overlapping one erased | "Deletes a record from both", `docs/reconciliation.md:415` |
| `DriftAlert.cfg` (`MCReconciliation`) | a drift over 100 percent is stored and pushes no alert | "Sends alerts ... when drift exceeds thresholds", `alert_service.py:18` |
| `MismatchRaises.cfg` (`ChecksumValidation`) | a validation that finds a mismatch raises | "Completed reconciliation job with mismatches", `reconciliation_engine.py:188` |
| `FalsyIds.cfg` (`ChecksumValidation`) | a sampled row with a false id is not compared | "Compares checksums of sampled records", `reconciliation_engine.py:178` |
| `HealthUnavailable.cfg` (`MCHealthService`) | a component that is down is answered with 200 "degraded" | "503 ... One or more components unhealthy", `rest-api.md:135` |
| `OverrideLost.cfg` (`MCSchemaEvolution`) | a version is registered that the client's own override forbids | "compatibility mode override", `schema_service.py:48` |
| `ForwardDrop.cfg` (`MCSchemaEvolution`) | dropping a required column passes as forward compatible | "remove optional column", `data-model.md:196` |

`EveryErasureAudited` of `GdprErasure` needs no exploration: the audit `INSERT` never fits its table (`docs/reconciliation.md:424`).
That Prometheus fires `ReconciliationDriftCritical` (`docs/reconciliation.md:46`) is not contradicted by `DriftAlert.cfg`: its rule
reads a gauge that is set before the run fails.

## Proofs

TLAPS checks every proof to its leaves; assumptions are the named `ASSUME`s of the modules, which TLC
evaluates on each run.

* **`OutOfOrderProofs`**, for any set of events and any primary key.  `DecisionFollowsOrder`: `should_accept_event`
  decides by the order of `LastWriteWins`, for events with and without ids and timestamps.  `ResolverInv`: the row
  is one delivered event that no delivered event beats in `KeyBeats`, the order that is left through the lookup; it is inductive because
  that order is transitive.  From it `ResolverHoldsKeyWinner`, `ResolverImplementsLWW` (each step is one of
  `LastWriteWins` or a stutter) and `ResolverRedelivery`.
  `StatementInv` says that the statement's row is one whole executed event; from both, `SinksAlwaysAgree`.
* **`RepositoryProofs`**, for any threads, threshold and timeout.  `NeverSettlesOverThreshold` needs to
  remember, of a closed breaker with its threshold reached, that some thread stands at the comparison, the trip
  or the reset.  `SerialCallsFollowPolicy` relates the streak of failures to `failure_count` at each label of
  the one active thread (`SerialInv`).  Of `PostgresRepository`, for any threads, pool and
  retry window, `ConnectionsGoBack` and `WritesAreAccounted`: `RepoInv` ties the label of a thread to the outcome of its attempt,
  the connection it holds and what the server did.  `Used` is what any user may make of a breaker; the steps of
  `CircuitBreaker` and those of `PostgresRepository` are both of that kind, so that the breaker's invariant holds inside
  upsert too (`RetriesNeverSettleOverThreshold`).  Of `TtlRetention`, for any writers, operations and rows,
  `SweepsKeepRenewedRows` and the action property `SweepsAreComplete`.  `TtlInv` has three parts: no two writers have
  a row locked (`OneOwner`); what a writer has locked is what it wrote or found, or it is gone and was expired
  when the transaction began (`OwnFate`); and a row that is expired for a sweep under way is still among those it
  has to delete, or somebody else changed it since (`SweepFate`).
* **`DlqProofs`**.  Of `DlqReplay`, for any sessions and requests: `TypeCorrect`; `ResolvedIsPublished` from what each
  label knows of the current record and from locks that attribute an uncommitted update to one session;
  `ResolvedTogether` from what a session's transaction has updated.  `ReplayImplements` puts the three invariants
  together, with one that keeps a session to the records it names: each step is one of `DeadLetters` or a stutter.
  Of `RecordListing`, for any rows, page size, cap and number of moves: `WalksAreComplete` and `RepeatsAreAccounted`.  The rank of
  a row is the number of matching rows before it; rows with a timestamp of their own have distinct ranks, and a page
  shows exactly those whose rank it covers, however the ties fall (`FirstByRank`, `SliceByRank`).  `ListInv` then
  bounds two sets: rows the walk has passed without showing them (`Missed`), at most as many as left the filter, and rows shown
  that have a rank still to come (`Again`), at most as many as entered.  A row that moves shifts the others by one, so at most one of
  them crosses the position the walk has reached.  `StatisticsAddUp` is the formula of `ListingStats.cfg`: rows are never deleted.
* **`GdprErasureProofs`**, for any requests, processes and number of writes.  `RemovalAccounted`;
  `SuccessIsForGood`, from a bound on every value in sight by what was written before the delete;
  `PipelineCatchesUp`, from an invariant over the feed: applied to the end it leads to Cassandra's value.
* **`SchemaEvolutionProofs`**, for any clients and columns.  `LocalCheckSound` is about the operators alone.
  `VerdictInv` ties a client's verdict to the version it read, an answer to the version and mode it met, and
  a subject's mode to the last PUT, with no two versions equal as Avro; from it `LocalVerdictAlwaysHolds` and
  `OverrideAlwaysHolds`.  `TypeCorrect` assumes finitely many clients, as it bounds the versions by their number.
* **`VaultCacheProofs`**, for any paths and cache lengths.  `CacheInv` bounds the end of each entry
  by its lease unless it was made for longer, or by its replacement plus a cache length, and its version by the last refresh; renewals need
  that a lease is never longer than a renewal now would make it.

* **`ReconciliationProofs`**, for any table, sample size, and number of writes, runs and lost connections.  Of
  `ChecksumValidation`: `CheckInv`
  says at each step what the histories know of both tables, where the sample came from, and that a run without a verdict has
  no job or no connection; from it `DifferencesAreReported`, `MismatchesHaveReasons` and `EveryRunIsTold`.  Of `Reconciliation`: `RunsInv`, from which `RunsTypeCorrect`, `HealthyRecordsAreRight`,
  `FiredAlertsAreAccepted` and `TriggersAnswerFreshJobs`.  It knows of each run what its job and alert are at each phase
  (`PhaseFacts`), above all that a run at its push has stored a job that says not fired and whose drift is within the model's
  bounds; and that places in time are given out in order, one for each run started.  That a trigger finds some latest job to
  answer with (`SomeMaximum`) comes from the library's theorem that strict inclusion of finite sets is well founded,
  as induction over the set is not available.
* **`HealthServiceProofs`**, for any requests, paths and outages.  `HealthInv`: what a thread has passed
  is no longer None in the globals, whoever assigned it last, and a repository in sight has a connection, is just getting one, or
  some `connect()` has failed; so a service is whole (`ServiceIsWhole`) and, once all are done, connected
  (`QuietServiceIsConnected`).  `HealthyAnswersAreEarned` from what each check saw (`SeenInv`).  `FalseAlarmsNeedRace`
  from both and `AlarmInv`: as long as one request alone has initialized, it is done by the time there is a service, so
  with no outage and no failed `connect()` the checks meet connected repositories and see health.

**Model-checked only.**  Liveness (`Recovers`, `UpsertEnds`, `EveryRequestEnds`, `EveryRequestAnswered`,
`EveryOperationEnds`), which is out of the prover's reach.  Every other property of the runs, invariants and action
properties alike, is a theorem.  So is the type invariant of each module that has one; the runs leave it out.

## Not modelled

`enrich_event_with_conflict_metadata` (copies the decision), `get_job_statistics` (one aggregate query),
`consume_dlq_topic` (no caller; without a group id it reads the topic from its beginning at each call), `utils/retry.py` (unused; `upsert` carries its own decorator with the same policy),
checkpoints and the DLQ record class (no code stores or reads them), middleware, logging, metrics,
tracing, TLS, and the connectors' configuration.

## Plan

What the development does not have yet, in order of what each adds:

1. **Deletes** in conflict resolution: `soft_delete` leaves `_cdc_timestamp_micros`, and a late event revives the
   row.
2. An abstract erasure that `GdprErasure` implements, with the proof that it does.
3. **Types**: `TypeMapper` and the validators as operators with a reference definition, and the identity of
   mapped types across `schema_service` and `type_mapper`.
