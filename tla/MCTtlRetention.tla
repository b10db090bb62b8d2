---------------------------- MODULE MCTtlRetention ----------------------------
(* Values for TLC. *)
EXTENDS TtlRetention

\* Upserts without expiry and with one that is still to come when they are early and past when
\* they are late; the other two operations.
MCOps ==
    [kind : {"upsert"}, key : Keys, ts : {0}, ttl : {0, 1}]
    \cup [kind : {"soft_delete", "delete"}, key : Keys, ts : {0}, ttl : {0}]
=============================================================================
