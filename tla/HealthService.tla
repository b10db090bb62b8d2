---------------------------- MODULE HealthService ----------------------------
(***************************************************************************)
(* monitoring/health_check.py and api/routes/health.py: requests for       *)
(* /health and /health/{component}, and the globals they share.            *)
(*                                                                         *)
(* get_health_service is a synchronous dependency: each request runs it on *)
(* a thread of its own, and CPython 3.11 switches threads at calls.  The   *)
(* checks run on the event loop, one request after another.  A repository  *)
(* is named by the request that made it, as a request makes at most one of *)
(* each kind; a service is the three repositories it was built with.       *)
(***************************************************************************)
EXTENDS Naturals, FiniteSets, Sequences

CONSTANTS
    Requests,
    Asks,           \* request -> "all", or the {component} of its path
    Nobody,         \* Python's None, as a repository and as the service
    Fallible,       \* the components that may go down
    MaxOutages      \* bound: how often one does

Repos == {"cassandra", "postgresql", "vault"}

\* The order of check_all.
Order == <<"cassandra", "postgresql", "kafka", "schema_registry", "vault">>
Components == {Order[i] : i \in DOMAIN Order}

ASSUME HealthAssumption ==
    /\ Nobody \notin Requests /\ Nobody \notin [Repos -> Requests \cup {Nobody}]
    /\ Fallible \subseteq Components
    /\ MaxOutages \in Nat

VARIABLES
    _health_service,    \* Nobody, or [Repos -> Requests \cup {Nobody}]
    globals,            \* _cassandra_repo, _postgres_repo and _vault_repo
    opened,             \* <<request, kind>>: the repositories that have a connection
    dead,               \* those of them that have lost it for good
    pc,
    holds,              \* request -> the service it has built, then the one it got
    seen,               \* request -> the status of each component it has checked
    answer,             \* request -> 0, or the status code of its answer
    up,                 \* the components that answer
    outages,
    absent,             \* history: request -> what has been down ever since it came
    initializers,       \* history: the requests that found no service
    raised              \* history: a connect() has raised

shared == <<_health_service, globals, opened, dead>>
environment == <<up, outages>>
history == <<absent, initializers, raised>>
vars == <<shared, pc, holds, seen, answer, environment, history>>

Bare == [s \in Repos |-> Nobody]

Init ==
    /\ _health_service = Nobody
    /\ globals = Bare
    /\ opened = {}
    /\ dead = {}
    /\ pc = [r \in Requests |-> "new"]
    /\ holds = [r \in Requests |-> Nobody]
    /\ seen = [r \in Requests |-> [c \in {} |-> "healthy"]]
    /\ answer = [r \in Requests |-> 0]
    /\ up = Components
    /\ outages = 0
    /\ absent = [r \in Requests |-> {}]
    /\ initializers = {}
    /\ raised = FALSE

Goes(r, from, to) == pc[r] = from /\ pc' = [pc EXCEPT ![r] = to]

-----------------------------------------------------------------------------
(* get_health_service, on the request's thread *)

Finds(r) ==
    IF _health_service = Nobody
    THEN /\ Goes(r, "new", "settings")
         /\ initializers' = initializers \cup {r}
         /\ UNCHANGED holds
    ELSE /\ Goes(r, "new", "queued")
         /\ holds' = [holds EXCEPT ![r] = _health_service]
         /\ UNCHANGED initializers

Enter(r) ==
    /\ Finds(r)
    /\ absent' = [absent EXCEPT ![r] = Components \ up]
    /\ UNCHANGED <<shared, seen, answer, environment, raised>>

\* The constructor has returned: the global is assigned, and connect() called on it.
Assigns(r, s) == globals' = [globals EXCEPT ![s] = r]

AssignCassandra(r) ==
    /\ Goes(r, "settings", "cassandra")
    /\ Assigns(r, "cassandra")
    /\ UNCHANGED <<_health_service, opened, dead, holds, seen, answer, environment, history>>

\* VaultRepository.connect() has a client before it knows whether it may use it.
MakeVaultClient(r) ==
    /\ pc[r] = "vault" /\ <<r, "vault">> \notin opened
    /\ opened' = opened \cup {<<r, "vault">>}
    /\ UNCHANGED <<_health_service, globals, dead, pc, holds, seen, answer, environment, history>>

\* A mistake: a connect() that fails returns like one that succeeds.
ConnectsAnyway(r, s, next) ==
    /\ Goes(r, s, next)
    /\ IF s = "vault"
       THEN <<r, s>> \in opened /\ UNCHANGED <<opened, globals>>
       ELSE /\ opened' = IF s \in up THEN opened \cup {<<r, s>>} ELSE opened
            /\ Assigns(r, next)
    /\ UNCHANGED <<_health_service, dead, holds, seen, answer, environment, history>>

\* connect() returns, and the next repository is assigned.
Connects(r, s, next) ==
    /\ Goes(r, s, next)
    /\ s \in up
    /\ IF s = "vault"
       THEN <<r, s>> \in opened /\ UNCHANGED <<opened, globals>>
       ELSE opened' = opened \cup {<<r, s>>} /\ Assigns(r, next)
    /\ UNCHANGED <<_health_service, dead, holds, seen, answer, environment, history>>

\* A mistake: the service is built with what there is.
RaisesHalfway(r, s) ==
    /\ Goes(r, s, "install")
    /\ s \notin up
    /\ holds' = [holds EXCEPT ![r] = globals]
    /\ raised' = TRUE
    /\ UNCHANGED <<shared, seen, answer, environment, absent, initializers>>

\* A mistake: connect() to a store that is down has no timeout.
ConnectHangs(r, s) ==
    /\ Goes(r, s, "install")
    /\ s = "vault" /\ <<r, s>> \in opened
    /\ holds' = [holds EXCEPT ![r] = Bare]
    /\ raised' = TRUE
    /\ UNCHANGED <<shared, seen, answer, environment, absent, initializers>>

\* The store is down, or Vault refuses the token: the handler builds a service without
\* repositories.
ConnectRaises(r, s) ==
    /\ Goes(r, s, "install")
    /\ s = "vault" => <<r, s>> \in opened
    /\ s \notin up \/ s = "vault"
    /\ holds' = [holds EXCEPT ![r] = Bare]
    /\ raised' = TRUE
    /\ UNCHANGED <<shared, seen, answer, environment, absent, initializers>>

\* A mistake: the service is built before Vault's connect().
BuildEarly(r) ==
    /\ Goes(r, "vault", "install")
    /\ holds' = [holds EXCEPT ![r] = globals]
    /\ UNCHANGED <<shared, seen, answer, environment, history>>

\* The constructor is called with the globals of this moment.
Build(r) ==
    /\ Goes(r, "build", "install")
    /\ holds' = [holds EXCEPT ![r] = globals]
    /\ UNCHANGED <<shared, seen, answer, environment, history>>

Install(r) ==
    /\ Goes(r, "install", "return")
    /\ _health_service' = holds[r]
    /\ UNCHANGED <<globals, opened, dead, holds, seen, answer, environment, history>>

Return(r) ==
    /\ Goes(r, "return", "queued")
    /\ holds' = [holds EXCEPT ![r] = _health_service]
    /\ UNCHANGED <<shared, seen, answer, environment, history>>

-----------------------------------------------------------------------------
(* The handlers, on the event loop *)

Live(repo, c) == <<repo, c>> \in opened \ dead

Verdict(ok) == IF ok THEN "healthy" ELSE "unhealthy"

\* A mistake: a check trusts the connection it has.
CheckConnection(repo, c) ==
    IF repo = Nobody THEN "degraded" ELSE Verdict(Live(repo, c))

\* check_cassandra and check_postgresql.
CheckRepo(repo, c) ==
    IF repo = Nobody THEN "degraded" ELSE Verdict(c \in up /\ Live(repo, c))

\* check_vault: Vault is up when it answers and is not sealed.
CheckVault(repo) == CheckRepo(repo, "vault")

\* check_kafka and check_schema_registry open a connection of their own.
CheckService(c) == Verdict(c \in up)

Check(service, c) ==
    IF c \notin Repos THEN CheckService(c)
    ELSE IF c = "vault" THEN CheckVault(service[c])
    ELSE CheckRepo(service[c], c)

\* check_all's status over those of the components.
Overall(statuses) ==
    IF statuses = {"healthy"} THEN "healthy"
    ELSE IF "unhealthy" \in statuses THEN "unhealthy"
    ELSE "degraded"

Checks(r) ==
    IF Asks[r] = "all" THEN Components ELSE {Asks[r]} \cap Components

\* The one check that is next in the order.
NextCheck(r) == CHOOSE c \in Checks(r) \ DOMAIN seen[r] :
                   \A i, j \in DOMAIN Order :
                      Order[i] \in Checks(r) \ DOMAIN seen[r] /\ Order[j] = c => j <= i

StatusCode(r) ==
    IF Checks(r) = {} THEN 404
    ELSE LET status == Overall({seen[r][c] : c \in DOMAIN seen[r]})
         IN  IF status = "healthy" \/ (status = "degraded" /\ Asks[r] = "all")
             THEN 200 ELSE 503

RunCheck(r) ==
    /\ \/ pc[r] = "checking"
       \/ pc[r] = "queued" /\ \A q \in Requests : pc[q] # "checking"
    /\ DOMAIN seen[r] # Checks(r)
    /\ pc' = [pc EXCEPT ![r] = "checking"]
    /\ LET c == NextCheck(r)
       IN  seen' = [seen EXCEPT ![r] = [d \in DOMAIN @ \cup {c} |->
                                           IF d = c THEN Check(holds[r], c) ELSE @[d]]]
    /\ UNCHANGED <<shared, holds, answer, environment, history>>

Answer(r) ==
    /\ \/ pc[r] = "checking"
       \/ pc[r] = "queued" /\ \A q \in Requests : pc[q] # "checking"
    /\ DOMAIN seen[r] = Checks(r)
    /\ pc' = [pc EXCEPT ![r] = "answered"]
    /\ answer' = [answer EXCEPT ![r] = StatusCode(r)]
    /\ holds' = [holds EXCEPT ![r] = Nobody]
    /\ UNCHANGED <<shared, seen, environment, history>>

-----------------------------------------------------------------------------
(* The components *)

\* The drivers of Cassandra and Vault connect again; a lost psycopg2 connection is lost.
GoesDown(c) ==
    /\ c \in up \cap Fallible
    /\ outages < MaxOutages
    /\ outages' = outages + 1
    /\ up' = up \ {c}
    /\ dead' = IF c = "postgresql" THEN dead \cup (opened \cap (Requests \X {c})) ELSE dead
    /\ UNCHANGED <<_health_service, globals, opened, pc, holds, seen, answer, history>>

ComesUp(c) ==
    /\ c \notin up
    /\ up' = up \cup {c}
    /\ absent' = [r \in Requests |->
                     IF pc[r] = "answered" THEN absent[r] ELSE absent[r] \ {c}]
    /\ UNCHANGED <<shared, pc, holds, seen, answer, outages, initializers, raised>>

Step(r) ==
    \/ Enter(r) \/ AssignCassandra(r) \/ MakeVaultClient(r)
    \/ Connects(r, "cassandra", "postgresql") \/ Connects(r, "postgresql", "vault")
    \/ Connects(r, "vault", "build")
    \/ \E s \in Repos : ConnectRaises(r, s)
    \/ Build(r) \/ Install(r) \/ Return(r)
    \/ RunCheck(r) \/ Answer(r)

Environment == \E c \in Components : GoesDown(c) \/ ComesUp(c)

Next == (\E r \in Requests : Step(r)) \/ Environment

\* Every driver's connect() and every check has a timeout, and the interpreter and the
\* event loop serve every request that has come.
Fairness == \A r \in Requests : WF_vars(pc[r] # "new" /\ Step(r))

Spec == Init /\ [][Next]_vars /\ Fairness

-----------------------------------------------------------------------------
Initializing == {"settings", "cassandra", "postgresql", "vault", "build", "install"}

Quiet == \A r \in Requests : pc[r] \notin Initializing

Services == [Repos -> Requests \cup {Nobody}]

TypeOK ==
    /\ _health_service \in Services \cup {Nobody}
    /\ globals \in Services
    /\ opened \subseteq Requests \X Repos /\ dead \subseteq opened
    /\ pc \in [Requests -> Initializing \cup {"new", "return", "queued", "checking", "answered"}]
    /\ holds \in [Requests -> Services \cup {Nobody}]
    /\ DOMAIN seen = Requests
    /\ \A r \in Requests : seen[r] \in UNION {[C -> {"healthy", "degraded", "unhealthy"}] :
                                                 C \in SUBSET Checks(r)}
    /\ answer \in [Requests -> {0, 200, 404, 503}]
    /\ up \subseteq Components
    /\ absent \in [Requests -> SUBSET Components]
    /\ initializers \subseteq Requests
    /\ raised \in BOOLEAN

\* However the threads that initialize share the three globals, a service never mixes
\* repositories with None: a request is checked with all of them or with none.
AllOrNoRepos ==
    \A service \in {_health_service} \cup {holds[r] : r \in Requests} :
       service # Nobody =>
          service = Bare \/ \A s \in Repos : service[s] # Nobody

\* Once nobody initializes, the service consists of repositories whose connect() has
\* returned, though several threads may have made them: it takes a failed connect() to
\* leave one that never works in the service for the life of the process.
QuietServiceConnected ==
    Quiet /\ _health_service # Nobody /\ ~raised =>
       \A s \in Repos : <<_health_service[s], s>> \in opened

\* While every component answers and every connect() succeeds, 503 is only ever said
\* when two requests initialize at once, and nothing is ever degraded.
FalseAlarmNeedsRace ==
    outages = 0 /\ ~raised =>
       \A r \in Requests :
          /\ \A c \in DOMAIN seen[r] : seen[r][c] # "degraded"
          /\ answer[r] = 503 => Cardinality(initializers) > 1

\* A request answered with all components healthy met each of them up at some time
\* between its arrival and its answer.
HealthyIsEarned ==
    \A r \in Requests :
       answer[r] = 200 /\ (\A c \in DOMAIN seen[r] : seen[r][c] = "healthy") =>
          absent[r] \cap Checks(r) = {}

\* Every request that has come is answered.
EveryRequestAnswered ==
    \A r \in Requests : pc[r] # "new" ~> pc[r] = "answered"

\* contracts/rest-api.md, "503 Service Unavailable: One or more components unhealthy": no
\* /health says 200 about a component that is down from its arrival to its answer.
UnhealthyIs503 ==
    \A r \in Requests : Asks[r] = "all" /\ answer[r] = 200 => absent[r] = {}
=============================================================================
