------------------------- MODULE PostgresRepository -------------------------
(***************************************************************************)
(* repositories/postgresql_repository.py: upsert, that is tenacity's retry *)
(* loop around the circuit breaker around one statement on a pooled        *)
(* connection, and the other methods, which only borrow a connection.      *)
(*                                                                         *)
(* The breaker is CircuitBreaker, statement by statement.  psycopg2's pool *)
(* and the server are external, as the code sees them: getconn hands out   *)
(* at most MaxConnections or raises PoolError, putconn takes back (and     *)
(* rolls back) whatever it is given, and a statement succeeds, raises a    *)
(* data error for a bad record, or raises OperationalError, possibly after *)
(* the server has committed it.  An outage is a run of the last: failing   *)
(* keeps its initial value, and each statement fails or not by itself.     *)
(***************************************************************************)
EXTENDS CircuitBreaker, FiniteSets

CONSTANTS
    Borrowers,        \* threads inside health_check, query, delete, ...
    BadRecords,       \* the threads whose record the server refuses
    MaxConnections,   \* max_pool_size
    RetryWindow,      \* stop_after_delay, in seconds
    MaxWait           \* wait_exponential's max, in seconds

ASSUME RepositoryAssumption ==
    /\ BadRecords \subseteq Threads
    /\ Borrowers \cap Threads = {}
    /\ MaxConnections \in Nat \ {0}
    /\ RetryWindow \in Nat \ {0}
    /\ MaxWait \in Nat \ {0}

VARIABLES
    upsert,     \* thread -> "idle", "attempt", "backoff", "returned" or "raised"
    outcome,    \* thread -> what the current attempt ended with, or "none"
    elapsed,    \* thread -> seconds since its upsert began, up to RetryWindow
    nextWait,   \* thread -> the wait before the next attempt
    wait,       \* thread -> seconds left of the current wait
    held,       \* who holds a pooled connection
    wrote,      \* history: how often the thread's statement was committed, up to 2
    lostAcks    \* history: the threads one of whose commits ended in OperationalError

breaker == vars
retrying == <<upsert, outcome, elapsed, nextWait, wait>>
writes == <<wrote, lostAcks>>
repoVars == <<breaker, retrying, held, writes>>

RepoInit ==
    /\ Init
    /\ upsert = [t \in Threads |-> "idle"]
    /\ outcome = [t \in Threads |-> "none"]
    /\ elapsed = [t \in Threads |-> 0]
    /\ nextWait = [t \in Threads |-> 1]
    /\ wait = [t \in Threads |-> 0]
    /\ held = {}
    /\ wrote = [t \in Threads |-> 0]
    /\ lostAcks = {}

Applied(t) == wrote' = [wrote EXCEPT ![t] = IF @ < 2 THEN @ + 1 ELSE 2]

Ends(t, result) == outcome' = [outcome EXCEPT ![t] = result]

-----------------------------------------------------------------------------
(* upsert and its retry decorator *)

\* The application calls upsert; the first attempt enters the breaker.
Begin(t) ==
    /\ upsert[t] = "idle"
    /\ Enter(t)
    /\ upsert' = [upsert EXCEPT ![t] = "attempt"]
    /\ UNCHANGED <<outcome, elapsed, nextWait, wait, held, writes>>

Retry(t) ==
    /\ upsert[t] = "backoff"
    /\ wait[t] = 0
    /\ Enter(t)
    /\ upsert' = [upsert EXCEPT ![t] = "attempt"]
    /\ UNCHANGED <<outcome, elapsed, nextWait, wait, held, writes>>

\* Mistakes: the attempt is repeated although it succeeded; it is repeated for ever.
RetryOnAnything(t) == elapsed[t] < RetryWindow
RetryForever(t) == outcome[t] = "operational"

\* retry_if_exception_type((OperationalError, InterfaceError)), stop_after_delay.
MayRetry(t) == outcome[t] = "operational" /\ elapsed[t] < RetryWindow

Settled(t) == upsert[t] = "attempt" /\ pc[t] = "idle" /\ outcome[t] # "none"

\* A mistake: the wait doubles without wait_exponential's max.
BackOffUncapped(t) ==
    /\ Settled(t)
    /\ MayRetry(t)
    /\ upsert' = [upsert EXCEPT ![t] = "backoff"]
    /\ wait' = [wait EXCEPT ![t] = nextWait[t]]
    /\ nextWait' = [nextWait EXCEPT ![t] = 2 * @]
    /\ Ends(t, "none")
    /\ UNCHANGED <<breaker, elapsed, held, writes>>

BackOff(t) ==
    /\ Settled(t)
    /\ MayRetry(t)
    /\ upsert' = [upsert EXCEPT ![t] = "backoff"]
    /\ wait' = [wait EXCEPT ![t] = nextWait[t]]
    /\ nextWait' = [nextWait EXCEPT
            ![t] = IF 2 * nextWait[t] < MaxWait THEN 2 * nextWait[t] ELSE MaxWait]
    /\ Ends(t, "none")
    /\ UNCHANGED <<breaker, elapsed, held, writes>>

\* The attempt's result is the caller's: success, an exception that is not retried
\* (PoolError, a data error, CircuitBreakerOpenError), or the window is over.
Finish(t) ==
    /\ Settled(t)
    /\ ~MayRetry(t)
    /\ upsert' = [upsert EXCEPT ![t] = IF outcome[t] = "ok" THEN "returned" ELSE "raised"]
    /\ UNCHANGED <<breaker, outcome, elapsed, nextWait, wait, held, writes>>

\* The caller has its answer; its next upsert starts from the beginning.
Leave(t) ==
    /\ upsert[t] \in {"returned", "raised"}
    /\ upsert' = [upsert EXCEPT ![t] = "idle"]
    /\ Ends(t, "none")
    /\ elapsed' = [elapsed EXCEPT ![t] = 0]
    /\ nextWait' = [nextWait EXCEPT ![t] = 1]
    /\ wrote' = [wrote EXCEPT ![t] = 0]
    /\ lostAcks' = lostAcks \ {t}
    /\ UNCHANGED <<breaker, wait, held>>

-----------------------------------------------------------------------------
(* circuit_breaker.call(_execute_upsert) *)

Admit(t) ==
    /\ \/ ToHalfOpen(t) /\ UNCHANGED outcome
       \/ CheckElapsed(t) /\ IF pc'[t] = "idle" THEN Ends(t, "open") ELSE UNCHANGED outcome
    /\ UNCHANGED <<upsert, elapsed, nextWait, wait, held, writes>>

GetConn(t) ==
    /\ pc[t] = "func"
    /\ t \notin held
    /\ Cardinality(held) < MaxConnections
    /\ held' = held \cup {t}
    /\ UNCHANGED <<breaker, retrying, writes>>

\* getconn is inside the protected function: its failures count for the breaker.
GetConnRaises(t) ==
    /\ t \notin held
    /\ FuncRaises(t)
    /\ \/ Cardinality(held) >= MaxConnections /\ Ends(t, "pool")
       \/ Ends(t, "operational")
    /\ UNCHANGED <<upsert, elapsed, nextWait, wait, held, writes>>

\* execute and commit succeed; the finally clause gives the connection back.
Commit(t) ==
    /\ t \in held
    /\ t \notin BadRecords
    /\ FuncReturns(t)
    /\ Ends(t, "ok")
    /\ held' = held \ {t}
    /\ Applied(t)
    /\ UNCHANGED <<upsert, elapsed, nextWait, wait, lostAcks>>

\* A mistake: no finally around putconn.
LeaksOnError(t) ==
    /\ t \in held
    /\ FuncRaises(t)
    /\ Ends(t, "operational")
    /\ UNCHANGED <<held, upsert, elapsed, nextWait, wait, writes>>

\* The connection breaks under the statement, or under the commit's answer.
ConnectionLost(t) ==
    /\ t \in held
    /\ FuncRaises(t)
    /\ Ends(t, "operational")
    /\ held' = held \ {t}
    /\ \/ UNCHANGED writes
       \/ /\ t \notin BadRecords
          /\ Applied(t)
          /\ lostAcks' = lostAcks \cup {t}
    /\ UNCHANGED <<upsert, elapsed, nextWait, wait>>

RecordRefused(t) ==
    /\ t \in held
    /\ t \in BadRecords
    /\ FuncRaises(t)
    /\ Ends(t, "data")
    /\ held' = held \ {t}
    /\ UNCHANGED <<upsert, elapsed, nextWait, wait, writes>>

Account(t) == Bookkeeping(t) /\ UNCHANGED <<retrying, held, writes>>

-----------------------------------------------------------------------------
(* The methods without breaker or retry: each borrows a connection, runs its  *)
(* statements and gives it back in a finally clause.  When the pool is        *)
(* exhausted they raise, or health_check reports, and nothing changes.        *)

Borrow(b) ==
    /\ b \notin held
    /\ Cardinality(held) < MaxConnections
    /\ held' = held \cup {b}
    /\ UNCHANGED <<breaker, retrying, writes>>

GiveBack(b) ==
    /\ b \in held
    /\ held' = held \ {b}
    /\ UNCHANGED <<breaker, retrying, writes>>

-----------------------------------------------------------------------------
InProgress(t) == upsert[t] \in {"attempt", "backoff"}

RepoTick ==
    /\ \/ sinceFailure < timeout_seconds
       \/ \E t \in Threads : InProgress(t) /\ (elapsed[t] < RetryWindow \/ wait[t] > 0)
    /\ sinceFailure' = IF sinceFailure < timeout_seconds THEN sinceFailure + 1 ELSE sinceFailure
    /\ elapsed' = [t \in Threads |->
            IF InProgress(t) /\ elapsed[t] < RetryWindow THEN elapsed[t] + 1 ELSE elapsed[t]]
    /\ wait' = [t \in Threads |-> IF wait[t] > 0 THEN wait[t] - 1 ELSE 0]
    /\ UNCHANGED <<state, failure_count, pc, failing, upsert, outcome, nextWait,
                   held, writes>>

Proceed(t) ==
    \/ Retry(t) \/ BackOff(t) \/ Finish(t)
    \/ Admit(t) \/ GetConn(t) \/ GetConnRaises(t)
    \/ Commit(t) \/ ConnectionLost(t) \/ RecordRefused(t) \/ Account(t)

RepoNext ==
    \/ \E t \in Threads : Begin(t) \/ Proceed(t) \/ Leave(t)
    \/ \E b \in Borrowers : Borrow(b) \/ GiveBack(b)
    \/ RepoTick

RepoSpec == RepoInit /\ [][RepoNext]_repoVars

FairRepoSpec ==
    RepoSpec /\ WF_repoVars(RepoTick) /\ \A t \in Threads : WF_repoVars(Proceed(t))

-----------------------------------------------------------------------------
RepoTypeOK ==
    /\ TypeOK
    /\ upsert \in [Threads -> {"idle", "attempt", "backoff", "returned", "raised"}]
    /\ outcome \in [Threads -> {"none", "ok", "operational", "pool", "data", "open"}]
    /\ elapsed \in [Threads -> 0..RetryWindow]
    /\ nextWait \in [Threads -> 1..MaxWait]
    /\ wait \in [Threads -> 0..MaxWait]
    /\ held \subseteq Threads \cup Borrowers
    /\ wrote \in [Threads -> 0..2]
    /\ lostAcks \subseteq Threads

\* No path through upsert keeps a connection past the protected function, so a
\* thread that backs off, or is done, leaves the whole pool to the others.
NoConnectionLeak == \A t \in Threads \cap held : pc[t] = "func"

\* What the caller is told against what the server did: an upsert that returned was
\* applied, one that raised was not, and none was applied twice, unless an attempt's
\* acknowledgement was lost on the way; a refused record is never applied.
WriteAccounting ==
    \A t \in Threads :
       /\ upsert[t] = "returned" => wrote[t] > 0 /\ t \notin BadRecords
       /\ t \notin lostAcks => wrote[t] = IF outcome[t] = "ok" THEN 1 ELSE 0

\* Every upsert ends, whatever the server does: by then it has returned or raised.
UpsertEnds == \A t \in Threads : upsert[t] = "attempt" ~> upsert[t] \in {"returned", "raised"}

\* upsert's docstring, "Retries with exponential backoff on transient errors ...
\* 300s (5 minutes)": a transient error reaches the caller only after the window.
TransientErrorsUseWindow ==
    \A t \in Threads :
       upsert[t] = "raised" /\ outcome[t] = "open" /\ nextWait[t] > 1
         => elapsed[t] >= RetryWindow
=============================================================================
