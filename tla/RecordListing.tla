---------------------------- MODULE RecordListing ----------------------------
(***************************************************************************)
(* The reading endpoints of api/routes/dlq.py and api/routes/              *)
(* reconciliation.py: a client walks through GET /dlq/records, GET /jobs   *)
(* or GET /mismatches by limit and offset, or asks for GET /dlq/stats,     *)
(* while rows are inserted, resolved and reopened.                         *)
(*                                                                         *)
(* Rows are numbered as they are inserted; none is ever deleted.  Every    *)
(* query is a statement under READ COMMITTED: it sees the rows of its own  *)
(* moment, those of an equal timestamp in any order.                       *)
(***************************************************************************)
EXTENDS Naturals, Sequences, FiniteSets

CONSTANTS
    Limit,      \* the client's page size
    MaxTotal,   \* the limit of the query that counts: 10000 in the code
    Times,      \* values of failed_at, started_at or detected_at
    Initial,    \* rows in the table when the client begins
    MaxMoves    \* bound on what other requests do meanwhile

ASSUME ListingAssumption ==
    /\ Limit \in Nat \ {0} /\ MaxTotal \in Nat
    /\ Times \subseteq Nat
    /\ Initial \in Nat /\ MaxMoves \in Nat

VARIABLES
    kind,       \* what the client asks for: "records", "stats", "jobs" or "mismatches"
    at,         \* row -> its timestamp
    matches,    \* the rows that pass the client's filter
    unreadable, \* the rows the model class refuses, as an unknown error_type does
    progress,   \* "page", "total", "done", "refused" (by such a row) or "failed"
    offset,
    page,       \* the rows of the page that is being answered
    seen,       \* the rows of the pages that were answered
    capped,     \* history: the walk ended on a total that was cut off
    stats,      \* the numbers of rows that the queries of get_dlq_stats have added up
    moves,
    came, left, \* history: how many rows entered and left the filter since the walk began
    stayed,     \* history: the rows that have passed the filter ever since
    repeated,   \* history: the rows the client was shown twice
    first       \* history: the number of rows when /dlq/stats was asked for

table == <<at, matches, unreadable>>
walk == <<progress, offset, page, seen, capped, repeated>>
others == <<moves, came, left, stayed>>
statistics == <<stats, first>>
listVars == <<kind, table, walk, others, statistics>>

RowsOf(f) == DOMAIN f

ListInit ==
    /\ kind \in {"records", "stats", "jobs", "mismatches"}
    /\ at \in {f \in [1..Initial -> Times] : \A i \in 1..Initial - 1 : f[i] <= f[i + 1]}
    /\ matches \in SUBSET (1..Initial)
    /\ unreadable \in {{}} \cup {{r} : r \in 1..Initial}
    /\ progress = "page" /\ offset = 0
    /\ page = {} /\ seen = {} /\ repeated = {}
    /\ capped = FALSE
    /\ stats = <<>> /\ first = 0
    /\ moves = 0 /\ came = 0 /\ left = 0
    /\ stayed = matches

Smaller(a, b) == IF a < b THEN a ELSE b

-----------------------------------------------------------------------------
(* The walk *)

\* A mistake: the query has no ORDER BY.
AnyFirst(n) == {T \in SUBSET matches : Cardinality(T) = Smaller(n, Cardinality(matches))}

\* The first n rows of ORDER BY timestamp DESC, in each way the database may choose.
FirstRows(n) ==
    {T \in SUBSET matches :
        /\ Cardinality(T) = Smaller(n, Cardinality(matches))
        /\ \A r \in T, q \in matches \ T : at[r] >= at[q]}

\* A mistake: limit and offset are bound in the wrong order.
SwappedSlice ==
    {pair[2] \ pair[1] : pair \in {p \in FirstRows(Limit) \X FirstRows(offset + Limit) :
                                      p[1] \subseteq p[2]}}

\* LIMIT limit OFFSET offset.
Slice ==
    {pair[2] \ pair[1] : pair \in {p \in FirstRows(offset) \X FirstRows(offset + Limit) :
                                      p[1] \subseteq p[2]}}

Refuses(rows) == rows \cap unreadable # {}

\* The page's answer: the client takes it and goes on if it says that there is more.
Answers(rows, another) ==
    /\ seen' = seen \cup rows
    /\ repeated' = repeated \cup (seen \cap rows)
    /\ offset' = offset + Limit
    /\ page' = {}
    /\ progress' = IF another THEN "page" ELSE "done"

\* list_jobs and list_mismatches, whose routes take for the total what is in the page, so
\* that a client asks on as long as pages are full; query_dlq_records, for the page.
Page ==
    /\ progress = "page" /\ kind # "stats"
    /\ \E rows \in Slice :
          \/ /\ Refuses(rows)
             /\ progress' = "refused"
             /\ UNCHANGED <<offset, page, seen, repeated>>
          \/ /\ ~Refuses(rows) /\ kind = "records"
             /\ progress' = "total" /\ page' = rows
             /\ UNCHANGED <<offset, seen, repeated>>
          \/ /\ ~Refuses(rows) /\ kind # "records"
             /\ Answers(rows, Cardinality(rows) = Limit)
    /\ UNCHANGED <<kind, table, others, statistics, capped>>

\* The same query from the beginning, over a connection of its own, for its length alone.
Total ==
    /\ progress = "total"
    /\ \E rows \in FirstRows(MaxTotal) :
          IF Refuses(rows)
          THEN progress' = "refused" /\ UNCHANGED <<offset, page, seen, capped, repeated>>
          ELSE /\ Answers(page, offset + Limit < Cardinality(rows))
               /\ capped' = (progress' = "done" /\ Cardinality(rows) = MaxTotal)
    /\ UNCHANGED <<kind, table, others, statistics>>

\* Either query raises: no connection, or a lost one.
QueryFails ==
    /\ progress \in {"page", "total"} /\ kind # "stats"
    /\ progress' = "failed"
    /\ UNCHANGED <<kind, table, others, statistics, offset, page, seen, capped, repeated>>

-----------------------------------------------------------------------------
(* get_dlq_stats *)

\* COUNT(*), then the counts by error type, by status and by table: four statements.
Counts(n) == Append(stats, n)

StatsQuery ==
    /\ kind = "stats" /\ Len(stats) < 4
    /\ stats' = Counts(Cardinality(RowsOf(at)))
    /\ first' = IF stats = <<>> THEN Cardinality(RowsOf(at)) ELSE first
    /\ UNCHANGED <<kind, table, walk, others>>

-----------------------------------------------------------------------------
(* What others do *)

Moves == moves < MaxMoves /\ moves' = moves + 1

\* The sink, create_job or create_mismatch; a row may come after a younger one.
Insert ==
    /\ Moves
    /\ LET r == Cardinality(RowsOf(at)) + 1 IN
       /\ \E t \in Times : at' = Append(at, t)
       /\ \/ matches' = matches \cup {r} /\ came' = came + 1
          \/ UNCHANGED <<matches, came>>
    /\ UNCHANGED <<kind, unreadable, walk, statistics, left, stayed>>

\* replay_events resolves a record, resolve_mismatch changes a status: the row leaves the
\* filter.  No status of a job changes.
Leave ==
    /\ kind # "jobs" /\ Moves
    /\ \E r \in matches :
          /\ matches' = matches \ {r}
          /\ stayed' = stayed \ {r}
    /\ left' = left + 1
    /\ UNCHANGED <<kind, at, unreadable, walk, statistics, came>>

\* Whatever the status was, resolve_mismatch sets the one it is given, also PENDING; a
\* replay resolves records of any status.
Enter ==
    /\ kind # "jobs" /\ Moves
    /\ \E r \in RowsOf(at) \ matches : matches' = matches \cup {r}
    /\ came' = came + 1
    /\ UNCHANGED <<kind, at, unreadable, walk, statistics, left, stayed>>

ListNext == Page \/ Total \/ QueryFails \/ StatsQuery \/ Insert \/ Leave \/ Enter

ListSpec == ListInit /\ [][ListNext]_listVars

-----------------------------------------------------------------------------
Alone(r) == \A q \in RowsOf(at) \ {r} : at[q] # at[r]

\* A walk that ends has shown every row that passed the filter all the time and shares its
\* timestamp with no other, but for one for each row that left the filter meanwhile, and
\* but for a total that was cut off; one that is refused met a row that cannot be read.
WalkComplete ==
    /\ progress = "done" /\ ~capped => Cardinality({r \in stayed : Alone(r)} \ seen) <= left
    /\ progress = "done" => seen \cap unreadable = {}
    /\ progress = "refused" => unreadable # {}

\* A row is shown twice only where another entered the filter meanwhile, or shares its
\* timestamp: at most one for each that entered.
RepeatedOnlyMoved == Cardinality({r \in repeated : Alone(r)}) <= came

\* The breakdowns of an answer to GET /dlq/stats have every row its total has, each of them
\* at least those of the one before, although rows are inserted and resolved between them.
StatsAddUp ==
    /\ \A i \in DOMAIN stats : first <= stats[i]
    /\ \A i \in 1..Len(stats) - 1 : stats[i] <= stats[i + 1]
=============================================================================
