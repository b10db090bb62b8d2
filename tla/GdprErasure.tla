----------------------------- MODULE GdprErasure -----------------------------
(***************************************************************************)
(* api/routes/gdpr.py: DELETE /records/{keyspace}/{table}/{primary_key},   *)
(* a saga over two databases.  A request backs the Cassandra row up,       *)
(* deletes it there, deletes the PostgreSQL row, and writes the backup     *)
(* back when PostgreSQL fails.                                             *)
(*                                                                         *)
(* The module follows one row.  The handler never awaits, so that requests *)
(* of one API process follow each other; requests of two processes         *)
(* interleave at every statement, with the application's writes and with   *)
(* the pipeline, which applies Cassandra's changes to PostgreSQL in their  *)
(* order, some time later.  FastAPI's Depends() gives each request         *)
(* repositories of its own: no transaction outlives a request.  A          *)
(* statement that raises may have been executed all the same (a Cassandra  *)
(* write timeout, a lost answer to a commit).                              *)
(***************************************************************************)
EXTENDS Naturals, Sequences

CONSTANTS
    Requests,
    Process,      \* request -> the API process that serves it
    MaxVersions   \* bound: how often the application writes the row

ASSUME GdprAssumption ==
    /\ MaxVersions \in Nat \ {0}
    /\ DOMAIN Process = Requests

None == 0                     \* no row
Versions == 1..MaxVersions    \* the application's writes, numbered

VARIABLES
    pc,           \* request -> its next statement
    backup,       \* request -> cassandra_backup
    answer,       \* request -> "none", or what the response says
    cassandra,    \* the version Cassandra's row holds, or None
    postgres,     \* the version the cdc_ table's row holds, or None
    feed,         \* changes of Cassandra's row that PostgreSQL has not seen
    written,      \* versions the application has written
    audited,      \* requests with a row in _cdc_audit_log
    remover,      \* history: {} or the request that removed Cassandra's row
    doubtful,     \* history: requests with a Cassandra write that raised
    erased,       \* history: request -> the last version when it deleted, or None
    overlapped,   \* history: requests that ran beside another one
    raced         \* history: the row was written before some PostgreSQL delete

saga == <<pc, backup, answer>>
history == <<remover, doubtful, erased, overlapped, raced>>
vars == <<saga, cassandra, postgres, feed, written, audited, history>>

Running(r) == pc[r] \in {"delete", "postgres", "restore", "audit"}

Init ==
    /\ pc = [r \in Requests |-> "new"]
    /\ backup = [r \in Requests |-> None]
    /\ answer = [r \in Requests |-> "none"]
    /\ cassandra = 1 /\ postgres = 1
    /\ feed = <<>> /\ written = 1
    /\ audited = {}
    /\ remover = {} /\ doubtful = {}
    /\ erased = [r \in Requests |-> None]
    /\ overlapped = {} /\ raced = FALSE

Goto(r, label) == pc' = [pc EXCEPT ![r] = label]

Respond(r, a) == answer' = [answer EXCEPT ![r] = a] /\ Goto(r, "ended")

\* One mutation of Cassandra's row, and its entry in the change feed.
Mutate(value) == cassandra' = value /\ feed' = Append(feed, value)

Writes(value) ==
    /\ Mutate(value)
    /\ remover' = {}
    /\ raced' = (raced \/ \E q \in Requests : pc[q] = "postgres")

Removes(r) == Mutate(None) /\ remover' = {r} /\ UNCHANGED raced

Untouched == UNCHANGED <<cassandra, feed, remover, raced>>

-----------------------------------------------------------------------------
(* Step 1: back up *)

\* A mistake: the missing row is not noticed.
BackupUnchecked(r) ==
    /\ pc[r] = "new"
    /\ backup' = [backup EXCEPT ![r] = cassandra]
    /\ Goto(r, "delete")
    /\ UNCHANGED <<answer, cassandra, postgres, feed, written, audited, history>>

\* A request starts when its process is free, and reads the row: 404 when there is
\* none, 500 when the read raises.
Backup(r) ==
    /\ pc[r] = "new"
    /\ \A q \in Requests : Process[q] = Process[r] => ~Running(q)
    /\ \/ /\ cassandra # None
          /\ backup' = [backup EXCEPT ![r] = cassandra]
          /\ Goto(r, "delete")
          /\ overlapped' = overlapped \cup
                (LET others == {q \in Requests : Running(q)}
                 IN  IF others = {} THEN {} ELSE others \cup {r})
          /\ UNCHANGED answer
       \/ /\ cassandra = None
          /\ Respond(r, "404")
          /\ UNCHANGED <<backup, overlapped>>
       \/ Respond(r, "500") /\ UNCHANGED <<backup, overlapped>>
    /\ UNCHANGED <<cassandra, postgres, feed, written, audited,
                   remover, doubtful, erased, raced>>

-----------------------------------------------------------------------------
(* Step 2: Cassandra *)

DeleteCassandra(r) ==
    /\ pc[r] = "delete"
    /\ Removes(r)
    /\ erased' = [erased EXCEPT ![r] = written]
    /\ Goto(r, "postgres")
    /\ UNCHANGED <<backup, answer, postgres, written, audited, doubtful, overlapped>>

\* deleted_from_cassandra stays False, whatever the statement did: no compensation.
DeleteCassandraRaises(r) ==
    /\ pc[r] = "delete"
    /\ Untouched \/ Removes(r)
    /\ doubtful' = doubtful \cup {r}
    /\ Respond(r, "500")
    /\ UNCHANGED <<backup, postgres, written, audited, erased, overlapped>>

-----------------------------------------------------------------------------
(* Step 3: PostgreSQL, or the compensation *)

DeletePostgres(r) ==
    /\ pc[r] = "postgres"
    /\ postgres' = None
    /\ Goto(r, "audit")
    /\ UNCHANGED <<backup, answer, cassandra, feed, written, audited, history>>

\* A mistake: the handler of the failure forgets to compensate.
NoCompensation(r) ==
    /\ pc[r] = "postgres"
    /\ UNCHANGED postgres
    /\ Respond(r, "500")
    /\ UNCHANGED <<backup, cassandra, feed, written, audited, history>>

DeletePostgresRaises(r) ==
    /\ pc[r] = "postgres"
    /\ postgres' \in {postgres, None}
    /\ Goto(r, "restore")
    /\ UNCHANGED <<backup, answer, cassandra, feed, written, audited, history>>

\* A mistake: the compensation is not followed by a raise.
RestoreWithoutRaise(r) ==
    /\ pc[r] = "restore"
    /\ Writes(backup[r])
    /\ Goto(r, "audit")
    /\ UNCHANGED <<backup, answer, postgres, written, audited, doubtful, erased, overlapped>>

\* INSERT of every column of the backup, over whatever the row holds by now.
Restore(r) ==
    /\ pc[r] = "restore"
    /\ Writes(backup[r])
    /\ Respond(r, "500")
    /\ UNCHANGED <<backup, postgres, written, audited, doubtful, erased, overlapped>>

RestoreRaises(r) ==
    /\ pc[r] = "restore"
    /\ Untouched \/ Writes(backup[r])
    /\ doubtful' = doubtful \cup {r}
    /\ Respond(r, "500")
    /\ UNCHANGED <<backup, postgres, written, audited, erased, overlapped>>

-----------------------------------------------------------------------------
(* The audit log *)

AuditTable ==
    {"audit_id", "event_type", "event_timestamp", "requester", "table_name",
     "record_identifier", "action", "reason", "details", "created_at"}
AuditNotNull == {"audit_id", "event_type", "action"}    \* those without a default

AuditInsert ==
    {"audit_id", "event_type", "table_name", "record_identifier", "requester",
     "reason", "timestamp", "metadata"}

AuditAccepted == AuditInsert \subseteq AuditTable /\ AuditNotNull \subseteq AuditInsert

\* A refused INSERT is logged and the request succeeds all the same.
Audit(r) ==
    /\ pc[r] = "audit"
    /\ audited' = IF AuditAccepted THEN audited \cup {r} ELSE audited
    /\ Respond(r, "success")
    /\ UNCHANGED <<backup, cassandra, postgres, feed, written, history>>

-----------------------------------------------------------------------------
(* The environment *)

Crash(p) ==
    /\ \E r \in Requests : Running(r) /\ Process[r] = p
    /\ pc' = [r \in Requests |-> IF Running(r) /\ Process[r] = p THEN "crashed" ELSE pc[r]]
    /\ UNCHANGED <<backup, answer, cassandra, postgres, feed, written, audited, history>>

ApplicationWrites ==
    /\ written < MaxVersions
    /\ written' = written + 1
    /\ Writes(written + 1)
    /\ UNCHANGED <<saga, postgres, audited, doubtful, erased, overlapped>>

\* A mistake: the sink is given changes without their tombstones.
ReplicateUpserts ==
    /\ feed # <<>>
    /\ postgres' = IF Head(feed) = None THEN postgres ELSE Head(feed)
    /\ feed' = Tail(feed)
    /\ UNCHANGED <<saga, cassandra, written, audited, history>>

Replicate ==
    /\ feed # <<>>
    /\ postgres' = Head(feed)
    /\ feed' = Tail(feed)
    /\ UNCHANGED <<saga, cassandra, written, audited, history>>

Step(r) ==
    \/ Backup(r)
    \/ DeleteCassandra(r) \/ DeleteCassandraRaises(r)
    \/ DeletePostgres(r) \/ DeletePostgresRaises(r)
    \/ Restore(r) \/ RestoreRaises(r)
    \/ Audit(r)

Next ==
    \/ \E r \in Requests : Step(r) \/ Crash(Process[r])
    \/ ApplicationWrites
    \/ Replicate

Spec == Init /\ [][Next]_vars

-----------------------------------------------------------------------------
TypeOK ==
    /\ pc \in [Requests -> {"new", "delete", "postgres", "restore", "audit",
                            "ended", "crashed"}]
    /\ backup \in [Requests -> Versions \cup {None}]
    /\ \A r \in Requests : pc[r] \in {"delete", "postgres", "restore"} => backup[r] # None
    /\ answer \in [Requests -> {"none", "success", "404", "500"}]
    /\ cassandra \in Versions \cup {None}
    /\ postgres \in Versions \cup {None}
    /\ feed \in Seq(Versions \cup {None})
    /\ written \in Versions
    /\ audited \subseteq Requests /\ doubtful \subseteq Requests
    /\ overlapped \subseteq Requests
    /\ remover \subseteq Requests
    /\ erased \in [Requests -> Versions \cup {None}]
    /\ raced \in BOOLEAN

\* Cassandra's row is missing only while the request that removed it is at work, or
\* because that request succeeded, crashed, or had a Cassandra write that raised: a
\* failed erasure gives the row back, whatever other requests do meanwhile.
AccountedRemoval ==
    cassandra = None =>
      \E r \in remover : \/ pc[r] \in {"postgres", "restore", "audit", "crashed"}
                         \/ answer[r] = "success"
                         \/ r \in doubtful

\* A success is for good: when no other request ran beside it, nothing of what it
\* erased is in Cassandra again, through no failure and no later compensation.
ErasedForGood ==
    \A r \in Requests \ overlapped :
       answer[r] = "success" => cassandra = None \/ cassandra > erased[r]

\* Once the pipeline has caught up, PostgreSQL holds what Cassandra holds, also after
\* crashes and half-done requests, except that it may have lost a row that was
\* written between the two deletes of a request.
CaughtUp == feed = <<>> => postgres = cassandra \/ (postgres = None /\ raced)

-----------------------------------------------------------------------------
(* What the documents say and the code does not keep *)

\* docs/reconciliation.md, "Deletes a record from both Cassandra and PostgreSQL":
\* ErasedForGood for every success, also beside other requests.
ErasedStaysErased ==
    \A r \in Requests :
       answer[r] = "success" => cassandra = None \/ cassandra > erased[r]

\* docs/reconciliation.md, "Audit Trail: All deletions are logged in _cdc_audit_log".
EveryErasureAudited == \A r \in Requests : answer[r] = "success" => r \in audited
=============================================================================
