-------------------------- MODULE MCReconciliation --------------------------
(***************************************************************************)
(* A scheduled and three manual runs over two tables, one of which was     *)
(* asked for by mistake: it has no cdc_ table.  The counts reach each side *)
(* of the thresholds, of the model's limit and of the column's.            *)
(***************************************************************************)
EXTENDS Reconciliation, TLC

CONSTANTS h1, m1, m2, m3, orders, typo

MCRuns == {h1, m1, m2, m3}

MCTable == [r \in MCRuns |-> IF r = m3 THEN typo ELSE orders]

MCType == [r \in MCRuns |->
              IF r = h1 THEN "HOURLY_SCHEDULED" ELSE "MANUAL_ONDEMAND"]

MCCassandraCounts == {300}
MCPostgresCounts == {298, 297, 280, 900, 3301}

\* Runs that were started by the same thing on the same table are alike.
Alike == Permutations({m1, m2})
=============================================================================
