--------------------------- MODULE Reconciliation ---------------------------
(***************************************************************************)
(* The reconciliation of the API process: ReconciliationScheduler, the row *)
(* count validation of ReconciliationEngine (the only one anything calls), *)
(* AlertService and the trigger route, over the one psycopg2 connection    *)
(* that api/main.py gives to all of them.                                  *)
(*                                                                         *)
(* Everything runs on one event loop, and every database call blocks it:   *)
(* the one place where a run lets others proceed is the HTTP push of an    *)
(* alert.  A step is therefore a run up to its push, or from the push to   *)
(* its end.  Nothing calls rollback(): after a statement that PostgreSQL   *)
(* refuses, or a lost connection, every later statement of every run       *)
(* raises, until the process is restarted.                                 *)
(***************************************************************************)
EXTENDS Integers, FiniteSets

CONSTANTS
    Runs,             \* the runs of the model, each started at most once
    Table,            \* run -> the table it is for
    Type,             \* run -> "HOURLY_SCHEDULED" or "MANUAL_ONDEMAND"
    Replicated,       \* the tables that have a cdc_ table in PostgreSQL
    CassandraCounts, PostgresCounts,
    NoRow,
    MaxOutages        \* bound: how often the connection is lost

ColumnLimit == 99999    \* DECIMAL(5,2): 999.99

\* The columns of _cdc_reconciliation_jobs that the handlers and routes tell apart.
Jobs == [status : {"COMPLETED", "FAILED"}, type : {"HOURLY_SCHEDULED", "MANUAL_ONDEMAND"},
         drift : 0..ColumnLimit, fired : BOOLEAN]

ASSUME ReconciliationAssumption ==
    /\ Type \in [Runs -> {"HOURLY_SCHEDULED", "MANUAL_ONDEMAND"}]
    /\ DOMAIN Table = Runs
    /\ CassandraCounts \subseteq Nat /\ PostgresCounts \subseteq Nat
    /\ MaxOutages \in Nat
    /\ NoRow \notin Jobs

VARIABLES
    phase,      \* run -> "new", "pushing", "over" or "killed"
    start,      \* run -> the place of its started_at among all, 0 before
    rows,       \* run -> its row of _cdc_reconciliation_jobs, or NoRow
    unusable,   \* the shared connection refuses every statement
    alert,      \* run -> "none", "sent" or "accepted" by the Pushgateway
    response,   \* manual run -> the runs whose job_id the trigger route returned
    failed,     \* manual runs whose trigger was answered with status 500
    outages,
    recent      \* history: the runs that ended since the process started

runVars == <<phase, start, rows, unusable, alert, response, failed, outages, recent>>

RunsInit ==
    /\ phase = [r \in Runs |-> "new"]
    /\ start = [r \in Runs |-> 0]
    /\ rows = [r \in Runs |-> NoRow]
    /\ unusable = FALSE
    /\ alert = [r \in Runs |-> "none"]
    /\ response = [r \in Runs |-> {}]
    /\ failed = {}
    /\ outages = 0
    /\ recent = {}

-----------------------------------------------------------------------------
(* Drift, in hundredths of a percent. *)

Warning == 100          \* drift_warning_threshold, 1.0
Critical == 500         \* drift_critical_threshold, 5.0
ModelLimit == 10000     \* ReconciliationJob: le=100

\* quantize(Decimal("0.01")): to the nearest, a half to the even neighbour.
Quantized(n, d) ==
    LET q == n \div d
        r == n % d
    IN  IF 2 * r > d \/ (2 * r = d /\ q % 2 = 1) THEN q + 1 ELSE q

\* A mistake: abs() is forgotten.
DriftSigned(cass, pg) ==
    IF cass = 0 THEN 0 ELSE Quantized(10000 * (cass - pg), cass)

Drift(cass, pg) ==
    IF cass = 0 THEN 0
    ELSE Quantized(10000 * (IF cass > pg THEN cass - pg ELSE pg - cass), cass)

-----------------------------------------------------------------------------
(* ReconciliationRepository *)

\* The engine labels every job it creates MANUAL_ONDEMAND.
Job(status, drift) ==
    [status |-> status, type |-> "MANUAL_ONDEMAND", drift |-> drift, fired |-> FALSE]

Save(r, job) == rows' = [rows EXCEPT ![r] = job]

Unreadable(job) == job.drift > ModelLimit

\* The jobs of the table that carry the label by then.
Labelled(r) ==
    {j \in Runs : /\ rows'[j] # NoRow
                  /\ Table[j] = Table[r]
                  /\ rows'[j].type = "MANUAL_ONDEMAND"}

\* A mistake: ORDER BY started_at without DESC.
Oldest(r) == {j \in Labelled(r) : \A k \in Labelled(r) : start'[k] >= start'[j]}

\* list_jobs(table_name, MANUAL_ONDEMAND, limit=1).
LatestJobs(r) == {j \in Labelled(r) : \A k \in Labelled(r) : start'[k] <= start'[j]}

\* _run_reconciliation has swallowed whatever its run raised.  A scheduled run is over;
\* the trigger route asks for the latest job, on the same connection.
RunEnds(r) ==
    /\ phase' = [phase EXCEPT ![r] = "over"]
    /\ recent' = recent \cup {r}
    /\ IF Type[r] = "HOURLY_SCHEDULED"
       THEN UNCHANGED <<response, failed>>
       ELSE IF unusable' \/ \E j \in LatestJobs(r) : Unreadable(rows'[j])
       THEN failed' = failed \cup {r} /\ UNCHANGED response
       ELSE response' = [response EXCEPT ![r] = LatestJobs(r)] /\ UNCHANGED failed

-----------------------------------------------------------------------------
(* A run up to its push *)

\* APScheduler skips a table whose last scheduled run is still going (max_instances).
Begins(r) ==
    /\ phase[r] = "new"
    /\ Type[r] = "HOURLY_SCHEDULED" =>
          \A q \in Runs : Type[q] = Type[r] /\ Table[q] = Table[r] => phase[q] # "pushing"
    /\ start' = [start EXCEPT ![r] = Cardinality({q \in Runs : phase[q] # "new"}) + 1]

Outage ==
    /\ outages < MaxOutages
    /\ outages' = outages + 1
    /\ unusable' = TRUE

Holds == UNCHANGED <<unusable, outages>>

\* A mistake: the handler does not record the failed job.
FailureNotRecorded(r) ==
    /\ Begins(r)
    /\ UNCHANGED rows /\ Holds
    /\ RunEnds(r)
    /\ UNCHANGED alert

\* The Cassandra count raises: the handler inserts a FAILED job.
CassandraCountFails(r) ==
    /\ Begins(r)
    /\ \/ ~unusable /\ Save(r, Job("FAILED", 0)) /\ (Holds \/ Outage)
       \/ unusable /\ UNCHANGED rows /\ Holds
    /\ RunEnds(r)
    /\ UNCHANGED alert

\* The PostgreSQL count raises, and so does the handler's create_job after it.
PostgresCountFails(r) ==
    /\ Begins(r)
    /\ UNCHANGED rows
    /\ \/ unusable /\ Holds
       \/ Table[r] \notin Replicated /\ unusable' = TRUE /\ UNCHANGED outages
       \/ Outage
    /\ RunEnds(r)
    /\ UNCHANGED alert

Counted(r, drift) ==
    /\ Begins(r)
    /\ ~unusable
    /\ Table[r] \in Replicated
    /\ \E cass \in CassandraCounts, pg \in PostgresCounts : drift = Drift(cass, pg)

Drifts == {Drift(cass, pg) : cass \in CassandraCounts, pg \in PostgresCounts}

\* INSERT overflows the column: refused, and so is the handler's second INSERT.
Overflows(r, drift) ==
    /\ Counted(r, drift)
    /\ drift > ColumnLimit
    /\ unusable' = TRUE
    /\ UNCHANGED <<rows, alert, outages>>
    /\ RunEnds(r)

\* INSERT commits, then the model class refuses the row that RETURNING gives back, and
\* the handler inserts the same job_id again.
RefusedByModel(r, drift) ==
    /\ Counted(r, drift)
    /\ drift \in (ModelLimit + 1)..ColumnLimit
    /\ Save(r, Job("COMPLETED", drift))
    /\ unusable' = TRUE
    /\ RunEnds(r)
    /\ UNCHANGED <<alert, outages>>

\* create_job and update_job succeed; a drift from Warning on is pushed.
Completes(r, drift) ==
    /\ Counted(r, drift)
    /\ drift <= ModelLimit
    /\ Save(r, [Job("COMPLETED", drift) EXCEPT !.type = Type[r]])
    /\ Holds
    /\ IF drift >= Warning
       THEN /\ phase' = [phase EXCEPT ![r] = "pushing"]
            /\ alert' = [alert EXCEPT ![r] = "sent"]
            /\ UNCHANGED <<response, failed, recent>>
       ELSE RunEnds(r) /\ UNCHANGED alert

\* The connection is lost under create_job or update_job, before or after the commit.
CompletesBadly(r, drift) ==
    /\ Counted(r, drift)
    /\ drift <= ModelLimit
    /\ \/ UNCHANGED rows
       \/ \E type \in {"MANUAL_ONDEMAND", Type[r]} :
             Save(r, [Job("COMPLETED", drift) EXCEPT !.type = type])
    /\ Outage
    /\ RunEnds(r)
    /\ UNCHANGED alert

-----------------------------------------------------------------------------
(* From the push to the end *)

Fired(r) == rows' = [rows EXCEPT ![r].fired = TRUE]

\* A mistake: alert_fired is set whatever the Pushgateway said.
FiredAnyway(r) ==
    /\ phase[r] = "pushing"
    /\ UNCHANGED <<alert, start>> /\ Holds
    /\ IF unusable THEN UNCHANGED rows ELSE Fired(r)
    /\ RunEnds(r)

PushAccepted(r) ==
    /\ phase[r] = "pushing"
    /\ alert' = [alert EXCEPT ![r] = "accepted"]
    /\ \/ ~unusable /\ Fired(r) /\ (Holds \/ Outage)
       \/ UNCHANGED rows /\ (IF unusable THEN Holds ELSE Outage)
    /\ UNCHANGED start
    /\ RunEnds(r)

\* Another status than 200, no answer within ten seconds, or no connection.
PushFails(r) ==
    /\ phase[r] = "pushing"
    /\ UNCHANGED <<alert, start, rows>> /\ Holds
    /\ RunEnds(r)

-----------------------------------------------------------------------------
(* The environment *)

ConnectionLost ==
    /\ ~unusable
    /\ Outage
    /\ UNCHANGED <<phase, start, rows, alert, response, failed, recent>>

\* The process is restarted: startup connects again; the runs it had are gone.
RestartProcess ==
    /\ unusable \/ \E r \in Runs : phase[r] = "pushing"
    /\ unusable' = FALSE
    /\ phase' = [r \in Runs |-> IF phase[r] = "pushing" THEN "killed" ELSE phase[r]]
    /\ recent' = {}
    /\ UNCHANGED <<start, rows, alert, response, failed, outages>>

RunsNext ==
    \/ \E r \in Runs :
          \/ CassandraCountFails(r) \/ PostgresCountFails(r)
          \/ \E drift \in Drifts :
                \/ Overflows(r, drift) \/ RefusedByModel(r, drift)
                \/ Completes(r, drift) \/ CompletesBadly(r, drift)
          \/ PushAccepted(r) \/ PushFails(r)
    \/ ConnectionLost
    \/ RestartProcess

RunsSpec == RunsInit /\ [][RunsNext]_runVars

-----------------------------------------------------------------------------
TypeOK ==
    /\ phase \in [Runs -> {"new", "pushing", "over", "killed"}]
    /\ start \in [Runs -> Nat]
    /\ \A r \in Runs : phase[r] = "new" <=> start[r] = 0
    /\ \A q, r \in Runs : start[q] = start[r] /\ start[q] # 0 => q = r
    /\ rows \in [Runs -> Jobs \cup {NoRow}]
    /\ unusable \in BOOLEAN
    /\ alert \in [Runs -> {"none", "sent", "accepted"}]
    /\ response \in [Runs -> SUBSET Runs]
    /\ failed \subseteq Runs
    /\ outages \in 0..MaxOutages

\* As long as the shared connection works, every run that has ended has its job, under
\* the label of what started it, and the job tells whether its alert was accepted: no
\* interleaving with other runs' pushes loses an update.
HealthyRecord ==
    ~unusable =>
      \A r \in recent :
         /\ rows[r] # NoRow
         /\ rows[r].status = "COMPLETED" => rows[r].type = Type[r]
         /\ rows[r].fired <=> alert[r] = "accepted"

\* A job that says its alert has fired was accepted by the Pushgateway, for a drift that
\* calls for an alert, whatever broke in between.
FiredIsAccepted ==
    \A r \in Runs :
       rows[r] # NoRow /\ rows[r].fired =>
         /\ alert[r] = "accepted"
         /\ rows[r].drift \in Warning..ModelLimit
         /\ rows[r].type = Type[r]

\* A trigger answered with 200 has recorded its run, and the job it hands out is its own
\* or one that started on the same table while it waited for its push: an earlier
\* result is never taken for the new one.
TriggerAnswersFreshJob ==
    \A r \in Runs :
       Type[r] = "MANUAL_ONDEMAND" /\ phase[r] = "over" /\ r \notin failed =>
         /\ rows[r] # NoRow /\ response[r] # {}
         /\ \A j \in response[r] : /\ Table[j] = Table[r] /\ rows[j] # NoRow
                                  /\ start[j] >= start[r]

\* AlertService, "Sends alerts to Prometheus Pushgateway when drift exceeds thresholds": a
\* run that recorded a critical drift has sent its alert by the time it is over.
CriticalDriftAlerts ==
    \A r \in Runs :
       phase[r] = "over" /\ rows[r] # NoRow /\ rows[r].drift > Critical => alert[r] # "none"
=============================================================================
