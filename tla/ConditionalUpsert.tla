-------------------------- MODULE ConditionalUpsert --------------------------
(***************************************************************************)
(* connectors/transforms/timestamp_conflict_resolver.py, second half: the  *)
(* INSERT ... ON CONFLICT statement create_conditional_upsert_query makes, *)
(* "LWW at the database level".  PostgreSQL runs each statement under the  *)
(* row's lock, so a step is one whole statement whichever consumer sent    *)
(* it.  The statement's columns are those of the target tables: ts is      *)
(* _cdc_timestamp_micros, id is _last_event_id, data the rest.             *)
(***************************************************************************)
EXTENDS Integers

CONSTANTS Events, Null, NoRow

VARIABLES
    executed,    \* the events whose statement has run
    tableRow     \* the row the table holds, or NoRow

vars == <<executed, tableRow>>

Columns == {"ts", "id", "data"}

\* SQL's a > b: not true when either side is NULL.
SqlGreater(a, b) == a # Null /\ b # Null /\ a > b

SqlEqual(a, b) == a # Null /\ b # Null /\ a = b

\* Mistakes the properties below must notice; no specification uses them.
WhereWithoutNullArm(excluded, r) == SqlGreater(excluded.ts, r.ts)
CaseOnlyData(c, excluded, r) == IF c = "data" THEN excluded[c] ELSE r[c]

\* The WHERE clause of the ON CONFLICT arm.
UpdateApplies(excluded, r) ==
    \/ SqlGreater(excluded.ts, r.ts)
    \/ SqlEqual(excluded.ts, r.ts) /\ SqlGreater(excluded.id, r.id)
    \/ r.ts = Null

\* The CASE expression of one column.
ColumnValue(c, excluded, r) ==
    IF SqlGreater(excluded.ts, r.ts) \/ r.ts = Null
    THEN excluded[c] ELSE r[c]

ConditionalUpsertQuery(e, r) ==
    IF r = NoRow THEN e
    ELSE IF UpdateApplies(e, r)
         THEN [c \in Columns |-> ColumnValue(c, e, r)]
         ELSE r

Init == executed = {} /\ tableRow = NoRow

Execute(e) ==
    /\ executed' = executed \cup {e}
    /\ tableRow' = ConditionalUpsertQuery(e, tableRow)

Next == \E e \in Events : Execute(e)

Spec == Init /\ [][Next]_vars

-----------------------------------------------------------------------------
\* Columns are never mixed: the row is one whole event that was executed.
TypeOK ==
    /\ executed \subseteq Events
    /\ tableRow \in executed \cup {NoRow}

\* No executed event is newer, by timestamp, than the row.
NewestTimestamp ==
    \A e \in executed : ~SqlGreater(e.ts, tableRow.ts) /\ (tableRow.ts = Null => e.ts = Null)

\* Once a row carries a timestamp, no statement makes it older.
NeverOlder ==
    [][tableRow # NoRow /\ tableRow.ts # Null
         => tableRow'.ts # Null /\ tableRow'.ts >= tableRow.ts]_vars

\* data-model.md, "Resolution Algorithm" step 4: when timestamps are equal the
\* higher event_id wins.
TieWinnerStored ==
    \A e \in executed : SqlEqual(e.ts, tableRow.ts) => ~SqlGreater(e.id, tableRow.id)
=============================================================================
