-------------------------- MODULE ChecksumValidation --------------------------
(***************************************************************************)
(* services/reconciliation_engine.py: the checksum validation, which the   *)
(* sample and the timestamp validation delegate to, query by query, beside *)
(* the pipeline and other writers of the two tables.                       *)
(*                                                                         *)
(* A row is the number of the write it stems from, 0 when there is none.   *)
(* One validation runs at a time: its coroutines never suspend.            *)
(***************************************************************************)
EXTENDS Naturals, Sequences, FiniteSets

CONSTANTS
    Rows,           \* the rows have the ids 1..Rows, in token order
    Falsy,          \* the ids Python takes for false, as 0 and ""
    SampleSize,
    MaxWrites, MaxRuns, MaxLosses   \* bounds

Keys == 1..Rows

ASSUME ChecksumAssumption ==
    /\ Rows \in Nat /\ Falsy \subseteq Keys
    /\ SampleSize \in Nat \ {0}
    /\ MaxWrites \in Nat /\ MaxRuns \in Nat /\ MaxLosses \in Nat

VARIABLES
    setup,      \* what the deployment and the table decide, see Init
    cassandra, postgres,    \* key -> row
    feed,       \* the changes of Cassandra the pipeline has still to apply
    writes,
    pc,         \* "idle", "count", "select", "compare", "handler" or "outer"
    strategy,
    total,      \* the answer of SELECT COUNT(*), until it is used
    sample,     \* key -> the row that was sampled, for the keys of the sample
    todo,       \* the keys of the sample that are still to be compared
    found,      \* the mismatches, each [key, type]
    runs,       \* the validations started
    jobs,       \* _cdc_reconciliation_jobs, each [run, strategy, status]
    broken,     \* the shared connection refuses every statement
    losses,
    last,       \* history: how the latest validation ended, and whether that is known
    held,       \* history: key -> the rows it had in PostgreSQL during the validation
    unsettled   \* history: the keys PostgreSQL was behind or off with during it

data == <<cassandra, postgres, feed, writes, held, unsettled>>
work == <<strategy, total, sample, todo, found>>
connection == <<broken, losses>>
vars == <<setup, data, pc, work, runs, jobs, connection, last>>

Nothing == [k \in {} |-> 0]
NoRun == [ended |-> "none", told |-> TRUE]

Init ==
    /\ setup \in [persists : BOOLEAN,   \* the engine has a ReconciliationRepository
                  jsonable : BOOLEAN,   \* json.dumps takes every value of a row
                  exists : BOOLEAN,     \* there is a cdc_ table
                  metadata : BOOLEAN]   \* it has columns of its own
    /\ setup.metadata => setup.exists
    /\ setup.jsonable => setup.persists     \* of no account without the repository
    /\ cassandra = [k \in Keys |-> 1] /\ postgres = cassandra
    /\ feed = <<>> /\ writes = 1
    /\ held = [k \in Keys |-> {}] /\ unsettled = {}
    /\ pc = "idle" /\ strategy = "CHECKSUM" /\ total = 0
    /\ sample = Nothing /\ todo = {} /\ found = {}
    /\ runs = 0 /\ jobs = {}
    /\ broken = FALSE /\ losses = 0
    /\ last = NoRun

Goes(from, to) == pc = from /\ pc' = to

\* The statement that is due goes wrong because the connection is lost.
LosesConnection ==
    /\ losses < MaxLosses
    /\ losses' = losses + 1
    /\ broken' = TRUE

-----------------------------------------------------------------------------
(* run_checksum_validation *)

Behind(k) == postgres[k] # cassandra[k] \/ \E i \in DOMAIN feed : feed[i].key = k

\* SAMPLE is CHECKSUM with another sample size, and says so in its job.
Start ==
    /\ Goes("idle", "count")
    /\ runs < MaxRuns
    /\ runs' = runs + 1
    /\ strategy' \in {"CHECKSUM", "TIMESTAMP_RANGE"}
    /\ total' = 0 /\ sample' = Nothing /\ todo' = {} /\ found' = {}
    /\ held' = [k \in Keys |-> {postgres[k]}]
    /\ unsettled' = {k \in Keys : Behind(k)}
    /\ UNCHANGED <<setup, cassandra, postgres, feed, writes, jobs, connection, last>>

Stored == {k \in Keys : cassandra[k] # 0}

Count ==
    /\ pc = "count"
    /\ total' = Cardinality(Stored)
    /\ pc' = IF total' = 0 THEN "compare" ELSE "select"
    /\ UNCHANGED <<setup, data, strategy, sample, todo, found, runs, jobs, connection, last>>

Smaller(a, b) == IF a < b THEN a ELSE b

\* SELECT *, with a LIMIT when the count says that the sample is a part of the table: the
\* first rows in token order.
Fetched ==
    IF SampleSize < total
    THEN {k \in Stored : Cardinality({q \in Stored : q <= k}) <= Smaller(2 * SampleSize, total)}
    ELSE Stored

\* random.sample out of what was fetched.
Select ==
    /\ Goes("select", "compare")
    /\ \E S \in SUBSET Fetched :
          /\ Cardinality(S) = Smaller(SampleSize, Cardinality(Fetched))
          /\ sample' = [k \in S |-> cassandra[k]]
          /\ todo' = S
    /\ total' = 0
    /\ UNCHANGED <<setup, data, strategy, found, runs, jobs, connection, last>>

\* Cassandra raises in either query.
CassandraFails ==
    /\ pc \in {"count", "select"}
    /\ pc' = "handler"
    /\ UNCHANGED <<setup, data, work, runs, jobs, connection, last>>

\* An id that is false is not compared.
Skip ==
    /\ pc = "compare"
    /\ \E k \in todo \cap Falsy : todo' = todo \ {k}
    /\ UNCHANGED <<setup, data, pc, strategy, total, sample, found, runs, jobs, connection, last>>

\* A mistake: the row is looked up by its place in the sample.
AnyRecord(k) == postgres[1]

\* _get_postgres_record, 0 for None.
PostgresRecord(k) == postgres[k]

\* A mistake: a row that PostgreSQL does not have is taken for one without checksum.
DiffersIfPresent(k) ==
    PostgresRecord(k) # 0 /\ (setup.metadata \/ PostgresRecord(k) # sample[k])

\* Both checksums are taken over all columns, also those only one side has.
Differs(k) ==
    PostgresRecord(k) = 0 \/ setup.metadata \/ PostgresRecord(k) # sample[k]

MismatchType(k) == IF PostgresRecord(k) = 0 THEN "MISSING_IN_POSTGRES" ELSE "DATA_MISMATCH"

CanQuery == setup.exists /\ ~broken

Agrees ==
    /\ pc = "compare" /\ CanQuery
    /\ \E k \in todo \ Falsy : ~Differs(k) /\ todo' = todo \ {k}
    /\ UNCHANGED <<setup, data, pc, strategy, total, sample, found, runs, jobs, connection, last>>

\* create_mismatch either raises in json.dumps, before any SQL, or inserts a row whose
\* job_id has no job yet, which the foreign key refuses.
Disagrees ==
    /\ pc = "compare" /\ CanQuery
    /\ \E k \in todo \ Falsy :
          /\ Differs(k)
          /\ found' = found \cup {[key |-> k, type |-> MismatchType(k)]}
          /\ todo' = todo \ {k}
    /\ pc' = IF setup.persists THEN "handler" ELSE "compare"
    /\ broken' = (setup.persists /\ setup.jsonable)
    /\ UNCHANGED <<setup, data, strategy, total, sample, runs, jobs, losses, last>>

\* The lookup raises: no table, or no connection.
LookupFails ==
    /\ pc = "compare" /\ todo \ Falsy # {}
    /\ pc' = "handler"
    /\ IF broken THEN UNCHANGED connection
       ELSE \/ ~setup.exists /\ broken' = TRUE /\ UNCHANGED losses
            \/ LosesConnection
    /\ UNCHANGED <<setup, data, work, runs, jobs, last>>

Insert(kind, status) ==
    jobs' = jobs \cup {[run |-> runs, strategy |-> kind, status |-> status]}

Ends(how) ==
    /\ pc' = "idle"
    /\ last' = [ended |-> how,
                told |-> broken' \/ ~setup.persists \/ \E j \in jobs' : j.run = runs]

\* The timestamp validation fills its own job from the result and does not save it.
Finish ==
    /\ pc = "compare" /\ todo = {}
    /\ setup.persists => ~broken
    /\ IF setup.persists THEN Insert("CHECKSUM", "COMPLETED") ELSE UNCHANGED jobs
    /\ UNCHANGED <<setup, data, work, runs, connection>>
    /\ Ends("returned")

\* create_job raises, and has committed or not.
FinishFails ==
    /\ pc = "compare" /\ todo = {} /\ setup.persists
    /\ pc' = "handler"
    /\ IF broken THEN UNCHANGED <<jobs, connection>>
       ELSE LosesConnection /\ (UNCHANGED jobs \/ Insert("CHECKSUM", "COMPLETED"))
    /\ UNCHANGED <<setup, data, work, runs, last>>

\* What follows an except block that has raised again.
Reraises ==
    IF pc = "handler" /\ strategy = "TIMESTAMP_RANGE"
    THEN pc' = "outer" /\ UNCHANGED last
    ELSE Ends("raised")

\* A mistake: the handler only logs.
SaveNothing == UNCHANGED jobs

\* The FAILED job of an except block; a create_job that raises raises out of it.
SaveFailed ==
    IF setup.persists /\ ~broken
    THEN Insert(IF pc = "outer" THEN "TIMESTAMP_RANGE" ELSE "CHECKSUM", "FAILED")
    ELSE UNCHANGED jobs

\* The except blocks of run_checksum_validation and of run_timestamp_range_validation.
Handle ==
    /\ pc \in {"handler", "outer"}
    /\ SaveFailed
    /\ UNCHANGED <<setup, data, work, runs, connection>>
    /\ Reraises

\* The same, and the connection is lost under create_job.
HandleBadly ==
    /\ pc \in {"handler", "outer"} /\ setup.persists /\ ~broken
    /\ SaveFailed \/ UNCHANGED jobs
    /\ LosesConnection
    /\ UNCHANGED <<setup, data, work, runs>>
    /\ Reraises

-----------------------------------------------------------------------------
(* The tables, the pipeline and the process *)

Changes(k) == unsettled' = IF pc = "idle" THEN unsettled ELSE unsettled \cup {k}

Write(k) ==
    /\ writes < MaxWrites
    /\ writes' = writes + 1
    /\ \E row \in {0, writes'} :
          /\ cassandra' = [cassandra EXCEPT ![k] = row]
          /\ feed' = Append(feed, [key |-> k, row |-> row])
    /\ Changes(k)
    /\ UNCHANGED <<setup, postgres, held, pc, work, runs, jobs, connection, last>>

Puts(k, row) ==
    /\ postgres' = [postgres EXCEPT ![k] = row]
    /\ held' = IF pc = "idle" THEN held ELSE [held EXCEPT ![k] = @ \cup {row}]

Apply ==
    /\ feed # <<>>
    /\ Puts(Head(feed).key, Head(feed).row)
    /\ feed' = Tail(feed)
    /\ UNCHANGED <<setup, cassandra, writes, unsettled, pc, work, runs, jobs, connection, last>>

\* Somebody changes the copy, as the tests do to have something to find.
Modify(k) ==
    /\ writes < MaxWrites
    /\ writes' = writes + 1
    /\ \E row \in {0, writes'} : Puts(k, row)
    /\ Changes(k)
    /\ UNCHANGED <<setup, cassandra, feed, pc, work, runs, jobs, connection, last>>

Restart ==
    /\ broken /\ pc = "idle"
    /\ broken' = FALSE
    /\ UNCHANGED <<setup, data, pc, work, runs, jobs, losses, last>>

Step ==
    \/ Start \/ Count \/ Select \/ CassandraFails
    \/ Skip \/ Agrees \/ Disagrees \/ LookupFails
    \/ Finish \/ FinishFails \/ Handle \/ HandleBadly

Next ==
    \/ Step
    \/ \E k \in Keys : Write(k) \/ Modify(k)
    \/ Apply
    \/ Restart

Spec == Init /\ [][Next]_vars

-----------------------------------------------------------------------------
Latest(status) == [run |-> runs, strategy |-> "CHECKSUM", status |-> status] \in jobs

\* The keys of the sample that have been compared; sample and history are the latest
\* validation's until the next one starts.
Compared == DOMAIN sample \ (todo \cup Falsy)

\* A validation that returns has reported every row of its sample that PostgreSQL did not
\* hold, as it was sampled, at some time while it ran.
DifferencesReported ==
    pc = "idle" /\ last.ended = "returned" =>
       \A k \in DOMAIN sample \ Falsy :
          sample[k] \in held[k] \/ \E m \in found : m.key = k

\* A mismatch in a table without columns of its own is a row with which PostgreSQL was
\* behind, or which somebody changed, while the validation ran: no false alarm on a table
\* at rest, whatever else the validation meets.
MismatchHasReason ==
    ~setup.metadata => \A m \in found : m.key \in unsettled

\* A validation leaves a job, or the shared connection broken, and never two verdicts.
EveryRunTold ==
    /\ last.told
    /\ ~(Latest("COMPLETED") /\ Latest("FAILED"))

-----------------------------------------------------------------------------
(* What the documents say and the code does not keep *)

\* "Returns: Completed reconciliation job with mismatches" of run_checksum_validation: a
\* validation that finds mismatches returns.
MismatchesAreAResult ==
    pc = "idle" /\ found # {} => last.ended = "returned"

\* "Compares checksums of sampled records" of run_checksum_validation: DifferencesReported
\* for every record of the sample, whatever its id.
SampleCompared ==
    pc = "idle" /\ last.ended = "returned" =>
       \A k \in DOMAIN sample : sample[k] \in held[k] \/ \E m \in found : m.key = k
=============================================================================
