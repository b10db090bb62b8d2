----------------------------- MODULE OutOfOrder -----------------------------
(***************************************************************************)
(* The two implementations of last-write-wins in                           *)
(* timestamp_conflict_resolver.py side by side: a row kept by a consumer   *)
(* that asks the resolver and a row kept by the conditional upsert, each   *)
(* fed the events of one Cassandra row in an order of its own.             *)
(***************************************************************************)
EXTENDS ConflictResolver

VARIABLES executed, tableRow

SQL == INSTANCE ConditionalUpsert

allVars == <<delivered, row, executed, tableRow>>

BothInit == Init /\ SQL!Init

ResolverStep == Next /\ UNCHANGED <<executed, tableRow>>

StatementStep == SQL!Next /\ UNCHANGED <<delivered, row>>

BothNext == ResolverStep \/ StatementStep

BothSpec == BothInit /\ [][BothNext]_allVars

-----------------------------------------------------------------------------
BothTypeOK == TypeOK /\ SQL!TypeOK

\* Resolver and statement, given the same events in any two orders, end with the
\* same row whenever timestamps alone decide.
SinksAgree ==
    (/\ delivered = executed
     /\ \A a, b \in delivered : a # b => a.ts # b.ts)
    => row = tableRow

\* The statement's row never falls behind a newer executed event, nor goes back.
StatementNewest == executed # {} => SQL!NewestTimestamp
StatementNeverOlder == SQL!NeverOlder

\* The claim of data-model.md for the statement's row: a tie goes to the higher id.
StatementTieWinner == executed # {} => SQL!TieWinnerStored
=============================================================================
