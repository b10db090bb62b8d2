----------------------------- MODULE TtlRetention -----------------------------
(***************************************************************************)
(* How Cassandra's TTL is kept in PostgreSQL: services/type_mapper.py      *)
(* computes _ttl_expiry_timestamp, and the trigger it generates (the one   *)
(* of docker/postgres/init-db.sql) deletes the expired rows of the whole   *)
(* table after every statement that inserts or updates, in that            *)
(* statement's transaction.  The writers are repositories/                 *)
(* postgresql_repository.py's upsert, soft_delete and delete, each one     *)
(* statement and one transaction; pool and breaker are PostgresRepository's.*)
(*                                                                         *)
(* PostgreSQL runs under READ COMMITTED.  The trigger's DELETE has a       *)
(* snapshot of its own, waits for the row locks of others and then looks   *)
(* at the row again, if it is still the same row; NOW() is the beginning   *)
(* of the transaction.                                                     *)
(***************************************************************************)
EXTENDS Naturals, FiniteSets

CONSTANTS
    Writers,
    Keys,
    Ops,        \* [kind, key, ts, ttl]: what a writer may be called with
    Null,       \* SQL's NULL
    NoRow,
    Horizon,    \* bound of the clock
    MaxTries,   \* bound of upsert's attempts, for stop_after_delay(300)
    MaxLosses   \* bound of the connections that are lost

\* [tuple, by, expiry]: inserted by, written by; Null stands for before all writers.
Rows == [tuple : Writers \cup {Null}, by : Writers \cup {Null}, expiry : Nat \cup {Null}]

ASSUME TtlAssumption ==
    /\ Ops \subseteq [kind : {"upsert", "soft_delete", "delete"}, key : Keys, ts : Nat, ttl : Nat]
    /\ Horizon \in Nat /\ MaxLosses \in Nat /\ MaxTries \in Nat \ {0}
    /\ Null \notin Nat \cup Writers
    /\ {NoRow, Null} \cap Rows = {} /\ NoRow # Null

VARIABLES
    op,         \* writer -> what it is called with
    now,
    table,      \* key -> its row, or NoRow
    stage,      \* "new", "write", "trigger", "sweep", "commit", "done" or "raised"
    tries,
    started,    \* writer -> NOW() in its transaction
    own,        \* writer -> the rows it has locked, as it has left them
    found,      \* writer -> <<key, tuple>>: what its sweep has still to delete
    target,     \* writer -> {} or the one of them it is at
    losses,
    written,    \* history: writer -> the row its operation wrote, or Null
    latest,     \* history: key -> the row that was written last and committed
    disturbed   \* history: writer -> the keys others committed during its sweep

sweep == <<found, target>>
history == <<written, latest, disturbed>>
ttlVars == <<op, now, table, stage, tries, started, own, sweep, losses, history>>

Unlocked == [k \in {} |-> NoRow]

TtlInit ==
    /\ op \in [Writers -> Ops]
    /\ now = 0
    /\ table \in [Keys -> {NoRow} \cup {[tuple |-> Null, by |-> Null, expiry |-> e] : e \in {Null, 0}}]
    /\ stage = [w \in Writers |-> "new"] /\ tries = [w \in Writers |-> 0]
    /\ started = [w \in Writers |-> 0]
    /\ own = [w \in Writers |-> Unlocked]
    /\ found = [w \in Writers |-> {}] /\ target = found
    /\ losses = 0
    /\ written = [w \in Writers |-> Null]
    /\ latest = table
    /\ disturbed = [w \in Writers |-> {}]

GoesTo(w, label) == stage' = [stage EXCEPT ![w] = label]

Locks(u, k) == k \in DOMAIN own[u]
Locked(w, k) == \E u \in Writers \ {w} : Locks(u, k)

\* What a statement of w reads.
Seen(w, k) == IF Locks(w, k) THEN own[w][k] ELSE table[k]

Holds(w, k, r) ==
    own' = [own EXCEPT ![w] = [q \in DOMAIN @ \cup {k} |-> IF q = k THEN r ELSE @[q]]]

-----------------------------------------------------------------------------
(* The statement *)

\* calculate_ttl_expiry: no TTL, or 0, is no expiry.
CalculateTtlExpiry(o) == IF o.ttl = 0 THEN Null ELSE o.ts + o.ttl

BeginTransaction(w) ==
    /\ stage[w] = "new"
    /\ tries' = [tries EXCEPT ![w] = @ + 1]
    /\ started' = [started EXCEPT ![w] = now]
    /\ GoesTo(w, "write")
    /\ UNCHANGED <<op, now, table, own, sweep, losses, history>>

\* UPDATE and DELETE wait only for rows they see.
Waits(w) ==
    /\ Locked(w, op[w].key)
    /\ op[w].kind = "upsert" \/ table[op[w].key] # NoRow

\* INSERT ... ON CONFLICT DO UPDATE writes each column it is given, so also the expiry.
Upserted(w, r) ==
    [tuple |-> IF r = NoRow THEN w ELSE r.tuple, by |-> w, expiry |-> CalculateTtlExpiry(op[w])]

\* The statement; delete has no trigger.
Write(w) ==
    /\ stage[w] = "write" /\ ~Waits(w)
    /\ LET r == table[op[w].key]
           new == CASE op[w].kind = "upsert" -> Upserted(w, r)
                    [] op[w].kind = "soft_delete" -> [r EXCEPT !.by = w]
                    [] OTHER -> NoRow
       IN  IF op[w].kind # "upsert" /\ r = NoRow
           THEN UNCHANGED <<own, written>>
           ELSE Holds(w, op[w].key, new) /\ written' = [written EXCEPT ![w] = new]
    /\ GoesTo(w, IF op[w].kind = "delete" THEN "commit" ELSE "trigger")
    /\ UNCHANGED <<op, now, table, tries, started, sweep, losses, latest, disturbed>>

-----------------------------------------------------------------------------
(* The trigger, AFTER INSERT OR UPDATE FOR EACH STATEMENT *)

Expired(r, t) == r # NoRow /\ r.expiry # Null /\ r.expiry < t

\* A mistake: a BEFORE trigger, which does not see what the statement writes.
BeforeTrigger(w) ==
    /\ stage[w] = "trigger"
    /\ found' = [found EXCEPT ![w] =
                    {<<k, table[k].tuple>> : k \in {q \in Keys : Expired(table[q], started[w])}}]
    /\ disturbed' = [disturbed EXCEPT ![w] = {}]
    /\ GoesTo(w, "sweep")
    /\ UNCHANGED <<op, now, table, tries, started, own, target, losses, written, latest>>

\* The snapshot of its DELETE: what is committed, and what its own transaction has done.
Trigger(w) ==
    /\ stage[w] = "trigger"
    /\ found' = [found EXCEPT ![w] =
                    {<<k, Seen(w, k).tuple>> : k \in {q \in Keys : Expired(Seen(w, q), started[w])}}]
    /\ disturbed' = [disturbed EXCEPT ![w] = {}]
    /\ GoesTo(w, "sweep")
    /\ UNCHANGED <<op, now, table, tries, started, own, target, losses, written, latest>>

\* The scan comes to a row, in the order the table has them.
Scan(w) ==
    /\ stage[w] = "sweep" /\ target[w] = {}
    /\ \/ \E f \in found[w] : /\ target' = [target EXCEPT ![w] = {f}]
                              /\ found' = [found EXCEPT ![w] = @ \ {f}]
                              /\ UNCHANGED stage
       \/ found[w] = {} /\ GoesTo(w, "commit") /\ UNCHANGED sweep
    /\ UNCHANGED <<op, now, table, tries, started, own, losses, history>>

Scanned(w) == /\ target' = [target EXCEPT ![w] = {}]
              /\ UNCHANGED <<op, now, table, stage, tries, started, found, losses, history>>

\* A mistake: the row is deleted as it was in the snapshot.
DeletesUnchecked(w) ==
    /\ \E f \in target[w] : ~Locked(w, f[1]) /\ Holds(w, f[1], NoRow)
    /\ Scanned(w)

\* Once nobody else has it locked: the row is deleted if it is still the same and still
\* expired, and stays locked if it is the same and is not.
DeleteExpired(w) ==
    /\ \E f \in target[w] :
          LET r == Seen(w, f[1]) IN
          /\ ~Locked(w, f[1])
          /\ IF r # NoRow /\ r.tuple = f[2]
             THEN Holds(w, f[1], IF Expired(r, started[w]) THEN NoRow ELSE r)
             ELSE UNCHANGED own
    /\ Scanned(w)

-----------------------------------------------------------------------------
(* The end of the transaction *)

CommitTransaction(w) ==
    /\ stage[w] = "commit"
    /\ table' = [k \in Keys |-> Seen(w, k)]
    /\ latest' = IF written[w] = Null THEN latest ELSE [latest EXCEPT ![op[w].key] = written[w]]
    /\ disturbed' = [u \in Writers |-> IF u = w THEN disturbed[u]
                                       ELSE disturbed[u] \cup DOMAIN own[w]]
    /\ own' = [own EXCEPT ![w] = Unlocked]
    /\ GoesTo(w, "done")
    /\ UNCHANGED <<op, now, tries, started, sweep, losses, written>>

WaitsFor(w, u) ==
    \/ stage[w] = "write" /\ Waits(w) /\ Locks(u, op[w].key)
    \/ stage[w] = "sweep" /\ \E f \in target[w] : Locks(u, f[1])

\* A mistake: nobody looks for cycles.
NoDetector(w) == FALSE /\ w \in Writers

\* PostgreSQL looks for a cycle of waiting transactions and fails one of them.
Deadlocked(w) ==
    \E cycle \in SUBSET Writers :
       /\ w \in cycle
       /\ \A u \in cycle : /\ \E v \in cycle \ {u} : WaitsFor(u, v)
                           /\ \E v \in cycle \ {u} : WaitsFor(v, u)

\* The statement raises OperationalError, in the trigger too: nothing of it stays, and only
\* upsert tries again.
Fails(w) ==
    /\ stage[w] \in {"write", "trigger", "sweep", "commit"}
    /\ \/ Deadlocked(w) /\ UNCHANGED losses
       \/ losses < MaxLosses /\ losses' = losses + 1
    /\ own' = [own EXCEPT ![w] = Unlocked]
    /\ found' = [found EXCEPT ![w] = {}] /\ target' = [target EXCEPT ![w] = {}]
    /\ written' = [written EXCEPT ![w] = Null]
    /\ GoesTo(w, IF op[w].kind = "upsert" /\ tries[w] < MaxTries THEN "new" ELSE "raised")
    /\ UNCHANGED <<op, now, table, tries, started, latest, disturbed>>

Step(w) ==
    \/ BeginTransaction(w) \/ Write(w) \/ Trigger(w) \/ Scan(w) \/ DeleteExpired(w)
    \/ CommitTransaction(w) \/ Fails(w)

ClockTick ==
    /\ now < Horizon
    /\ now' = now + 1
    /\ UNCHANGED <<op, table, stage, tries, started, own, sweep, losses, history>>

TtlNext == (\E w \in Writers : Step(w)) \/ ClockTick

\* The server goes on with each statement, breaks every deadlock and ends a statement whose
\* connection is lost; tenacity comes back to an upsert that failed.
Fairness == \A w \in Writers : WF_ttlVars(Step(w))

TtlSpec == TtlInit /\ [][TtlNext]_ttlVars /\ Fairness

-----------------------------------------------------------------------------
\* The table holds for each key what was written last, by whatever operation, unless that
\* has expired: no sweep deletes a row that another transaction has renewed meanwhile, and
\* no write is lost to one that waited for it.
LatestUnlessExpired ==
    \A k \in Keys :
       \/ table[k] = latest[k]
       \/ table[k] = NoRow /\ Expired(latest[k], now)

\* A transaction that fires the trigger leaves no row that had expired when it began, its own
\* among them, but for those that others committed while it swept.
SweepComplete ==
    [][\A w \in Writers :
          CommitTransaction(w) /\ op[w].kind # "delete" =>
             \A k \in Keys : Expired(table'[k], started[w]) => k \in disturbed[w]]_ttlVars

\* Every operation ends, although each sweep waits for rows that others have locked, in no
\* common order, while it keeps its own row locked.
EveryOperationEnds == \A w \in Writers : stage[w] = "write" ~> stage[w] \in {"done", "raised"}
=============================================================================
