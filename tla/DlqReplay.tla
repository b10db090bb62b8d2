------------------------------ MODULE DlqReplay ------------------------------
(***************************************************************************)
(* services/dlq_service.py, replay_events, as POST /dlq/replay calls it: a *)
(* session publishes each requested dead-letter record to Kafka again and  *)
(* marks it MANUAL_RESOLVED in one PostgreSQL transaction of its own.      *)
(* Sessions run in different API processes: inside one the handler blocks  *)
(* the event loop, so that its requests follow each other.                 *)
(*                                                                         *)
(* Kafka and PostgreSQL are external, as the code sees them.  A sent event *)
(* is published or dropped at any time, whatever future.get was told.  A   *)
(* transaction holds the rows it updated until it ends; a failed statement *)
(* ends it early (psycopg2 raises at every later statement, but commit()   *)
(* of such a transaction rolls back without an exception); the server      *)
(* breaks a cycle of waiting transactions by failing one; a connection can *)
(* be lost at any statement.                                               *)
(***************************************************************************)
EXTENDS Naturals, FiniteSets

CONSTANTS
    Sessions,
    Records,      \* the rows of _cdc_dlq_records
    Requested,    \* session -> the records its dlq_ids name
    Pending       \* the status of a record nobody resolved

ASSUME DlqAssumption ==
    /\ Requested \in [Sessions -> (SUBSET Records) \ {{}}]
    /\ Pending \notin Sessions

VARIABLES
    pc,         \* session -> its statement in replay_events
    todo,       \* session -> fetched records the loop has not reached
    current,    \* session -> {} or the record in the body of the loop
    replayed,   \* session -> records counted in replayed_count
    failed,     \* session -> records counted in failed_count
    answer,     \* session -> "none", "ok" (200) or "error" (500)
    tx,         \* session -> its transaction: "open", "aborted" or "lost"
    updated,    \* session -> rows updated and locked by its transaction
    row,        \* record -> Pending, or the session whose MANUAL_RESOLVED it carries
    sending,    \* <<session, record>> handed to the producer and not settled
    published,  \* <<session, record>> appended to cdc-events-<table>
    committed   \* history: session -> rows its transaction committed

local == <<todo, current, replayed, failed>>
database == <<tx, updated, row, committed>>
kafka == <<sending, published>>
vars == <<pc, local, answer, database, kafka>>

Labels == {"new", "fetch", "producer", "loop", "sent", "update", "except", "finally", "ended"}

Empty == [s \in Sessions |-> {}]

Init ==
    /\ pc = [s \in Sessions |-> "new"]
    /\ todo = Empty /\ current = Empty
    /\ replayed = Empty /\ failed = Empty
    /\ answer = [s \in Sessions |-> "none"]
    /\ tx = [s \in Sessions |-> "open"]
    /\ updated = Empty /\ committed = Empty
    /\ row = [r \in Records |-> Pending]
    /\ sending = {} /\ published = {}

Goto(s, label) == pc' = [pc EXCEPT ![s] = label]
Answer(s, a) == answer' = [answer EXCEPT ![s] = a]

\* The transaction is over without effect: failed, or gone with its connection.
TxEnds(s, how) ==
    /\ tx' = [tx EXCEPT ![s] = how]
    /\ updated' = [updated EXCEPT ![s] = {}]
    /\ UNCHANGED <<row, committed>>

-----------------------------------------------------------------------------
(* Up to the loop *)

\* psycopg2.connect is outside the try: its exception goes straight to the route.
Connect(s) ==
    /\ pc[s] = "new"
    /\ \/ Goto(s, "fetch") /\ UNCHANGED answer
       \/ Goto(s, "ended") /\ Answer(s, "error")
    /\ UNCHANGED <<local, database, kafka>>

\* SELECT ... WHERE id = ANY(dlq_ids), without ORDER BY and whatever their status;
\* ids that name no row are answered at once.
Fetch(s) ==
    /\ pc[s] = "fetch"
    /\ \/ Goto(s, "finally") /\ Answer(s, "ok") /\ UNCHANGED todo
       \/ /\ todo' = [todo EXCEPT ![s] = Requested[s]]
          /\ Goto(s, "producer")
          /\ UNCHANGED answer
    /\ UNCHANGED <<current, replayed, failed, database, kafka>>

FetchFails(s) ==
    /\ pc[s] = "fetch"
    /\ Goto(s, "except")
    /\ TxEnds(s, "lost")
    /\ UNCHANGED <<local, answer, kafka>>

\* KafkaProducer(...) raises when no broker answers.
StartProducer(s) ==
    /\ pc[s] = "producer"
    /\ Goto(s, "loop") \/ Goto(s, "except")
    /\ UNCHANGED <<local, answer, database, kafka>>

-----------------------------------------------------------------------------
(* The loop's body *)

\* The body raises: the record is counted and the loop goes on.
CountFailed(s, r) ==
    /\ failed' = [failed EXCEPT ![s] = @ \cup {r}]
    /\ current' = [current EXCEPT ![s] = {}]
    /\ UNCHANGED replayed
    /\ Goto(s, "loop")

Send(s) ==
    /\ pc[s] = "loop"
    /\ \E r \in todo[s] :
          /\ todo' = [todo EXCEPT ![s] = @ \ {r}]
          /\ current' = [current EXCEPT ![s] = {r}]
          /\ sending' = sending \cup {<<s, r>>}
    /\ Goto(s, "sent")
    /\ UNCHANGED <<replayed, failed, answer, database, published>>

\* json.loads of a malformed event_data, or send waiting for metadata in vain.
SendRaises(s) ==
    /\ pc[s] = "loop"
    /\ \E r \in todo[s] :
          /\ todo' = [todo EXCEPT ![s] = @ \ {r}]
          /\ CountFailed(s, r)
    /\ UNCHANGED <<answer, database, kafka>>

\* A mistake: send without waiting for the confirmation.
ConfirmedUnseen(s) ==
    /\ pc[s] = "sent"
    /\ Goto(s, "update")
    /\ UNCHANGED <<local, answer, database, kafka>>

\* future.get returns.
Confirmed(s) ==
    /\ pc[s] = "sent"
    /\ \A r \in current[s] : <<s, r>> \in published
    /\ Goto(s, "update")
    /\ UNCHANGED <<local, answer, database, kafka>>

\* future.get raises: an error, or ten seconds without an answer.
NotConfirmed(s) ==
    /\ pc[s] = "sent"
    /\ \E r \in current[s] : CountFailed(s, r)
    /\ UNCHANGED <<todo, answer, database, kafka>>

LockedByOther(s) == \E u \in Sessions \ {s} : current[s] \cap updated[u] # {}

\* A mistake: the connection commits each statement.
UpdateAutocommits(s) ==
    /\ pc[s] = "update"
    /\ tx[s] = "open"
    /\ row' = [r \in Records |-> IF r \in current[s] THEN s ELSE row[r]]
    /\ committed' = [committed EXCEPT ![s] = @ \cup current[s]]
    /\ replayed' = [replayed EXCEPT ![s] = @ \cup current[s]]
    /\ current' = [current EXCEPT ![s] = {}]
    /\ Goto(s, "loop")
    /\ UNCHANGED <<todo, failed, answer, tx, updated, kafka>>

Update(s) ==
    /\ pc[s] = "update"
    /\ tx[s] = "open"
    /\ ~LockedByOther(s)
    /\ updated' = [updated EXCEPT ![s] = @ \cup current[s]]
    /\ replayed' = [replayed EXCEPT ![s] = @ \cup current[s]]
    /\ current' = [current EXCEPT ![s] = {}]
    /\ Goto(s, "loop")
    /\ UNCHANGED <<todo, failed, answer, tx, row, committed, kafka>>

WaitsFor(s, u) == pc[s] = "update" /\ tx[s] = "open" /\ current[s] \cap updated[u] # {}

\* A mistake, of the server: nobody looks for cycles.
NoDetector(s) == FALSE

Deadlocked(s) ==
    \E cycle \in SUBSET Sessions :
       /\ s \in cycle
       /\ \A u \in cycle : /\ \E v \in cycle \ {u} : WaitsFor(u, v)
                           /\ \E v \in cycle \ {u} : WaitsFor(v, u)

\* A mistake: the handler of one record rolls the whole transaction back, and the
\* next records start another.
RollbackInLoop(s) ==
    /\ pc[s] = "update"
    /\ Deadlocked(s)
    /\ TxEnds(s, "open")
    /\ \E r \in current[s] : CountFailed(s, r)
    /\ UNCHANGED <<todo, answer, kafka>>

\* The UPDATE raises: refused in an aborted or lost transaction, or chosen to break a
\* deadlock.
UpdateRaises(s) ==
    /\ pc[s] = "update"
    /\ \/ tx[s] # "open" /\ UNCHANGED database
       \/ Deadlocked(s) /\ TxEnds(s, "aborted")
    /\ \E r \in current[s] : CountFailed(s, r)
    /\ UNCHANGED <<todo, answer, kafka>>

\* The connection breaks under the UPDATE, waiting or not; nothing makes it break.
ConnectionLost(s) ==
    /\ pc[s] = "update"
    /\ tx[s] = "open"
    /\ TxEnds(s, "lost")
    /\ \E r \in current[s] : CountFailed(s, r)
    /\ UNCHANGED <<todo, answer, kafka>>

-----------------------------------------------------------------------------
(* After the loop *)

Committing(s) == pc[s] = "loop" /\ todo[s] = {}

Persist(s) ==
    /\ row' = [r \in Records |-> IF r \in updated[s] THEN s ELSE row[r]]
    /\ committed' = [committed EXCEPT ![s] = @ \cup updated[s]]
    /\ updated' = [updated EXCEPT ![s] = {}]
    /\ UNCHANGED tx

\* commit and producer.close; an aborted transaction holds no update, so that its
\* commit persists nothing and says nothing.
Commit(s) ==
    /\ Committing(s)
    /\ tx[s] # "lost"
    /\ Persist(s)
    /\ Answer(s, "ok")
    /\ Goto(s, "finally")
    /\ UNCHANGED <<local, kafka>>

\* commit raises: the connection was lost, or is, before or after the server commits.
CommitRaises(s) ==
    /\ Committing(s)
    /\ Persist(s) \/ TxEnds(s, "lost")
    /\ Goto(s, "except")
    /\ UNCHANGED <<local, answer, kafka>>

\* The outer handler: rollback (which itself raises on a lost connection), re-raise.
Rollback(s) ==
    /\ pc[s] = "except"
    /\ TxEnds(s, tx[s])
    /\ Answer(s, "error")
    /\ Goto(s, "finally")
    /\ UNCHANGED <<local, kafka>>

\* finally: conn.close() ends whatever transaction is open.
Close(s) ==
    /\ pc[s] = "finally"
    /\ TxEnds(s, tx[s])
    /\ Goto(s, "ended")
    /\ UNCHANGED <<local, answer, kafka>>

-----------------------------------------------------------------------------
(* The environment *)

\* The API process dies; the server drops its connection.
Crash(s) ==
    /\ pc[s] \notin {"new", "ended"}
    /\ TxEnds(s, "lost")
    /\ Goto(s, "ended")
    /\ UNCHANGED <<local, answer, kafka>>

\* The producer's own thread: a broker appends the event, or the batch expires.
Settle(m) ==
    /\ m \in sending
    /\ sending' = sending \ {m}
    /\ published' = published \cup {m} \/ UNCHANGED published
    /\ UNCHANGED <<pc, local, answer, database>>

Progress(s) ==
    \/ Fetch(s) \/ FetchFails(s) \/ StartProducer(s)
    \/ Send(s) \/ SendRaises(s) \/ Confirmed(s) \/ NotConfirmed(s)
    \/ Update(s) \/ UpdateRaises(s)
    \/ Commit(s) \/ CommitRaises(s) \/ Rollback(s) \/ Close(s)

Step(s) == Progress(s) \/ ConnectionLost(s)

Next ==
    \/ \E s \in Sessions : Connect(s) \/ Step(s) \/ Crash(s)
    \/ \E m \in sending : Settle(m)

Spec == Init /\ [][Next]_vars

\* A process runs its session as long as it lives.  A wait for a row lock ends when its
\* holder ends or the server breaks the cycle: lost connections and crashes are not fair.
FairSpec == Spec /\ \A s \in Sessions : WF_vars(Progress(s))
-----------------------------------------------------------------------------
Types ==
    /\ pc \in [Sessions -> Labels]
    /\ todo \in [Sessions -> SUBSET Records]
    /\ current \in [Sessions -> SUBSET Records]
    /\ replayed \in [Sessions -> SUBSET Records]
    /\ failed \in [Sessions -> SUBSET Records]
    /\ answer \in [Sessions -> {"none", "ok", "error"}]
    /\ tx \in [Sessions -> {"open", "aborted", "lost"}]
    /\ updated \in [Sessions -> SUBSET Records]
    /\ row \in [Records -> Sessions \cup {Pending}]
    /\ sending \subseteq Sessions \X Records
    /\ published \subseteq Sessions \X Records
    /\ committed \in [Sessions -> SUBSET Records]

\* The loop has each record in one place, so that the counts of the answer add up.
OnePlace(s) ==
    /\ replayed[s] \cap (failed[s] \cup current[s] \cup todo[s]) = {}
    /\ failed[s] \cap (current[s] \cup todo[s]) = {}
    /\ current[s] \cap todo[s] = {}

TypeOK == Types /\ \A s \in Sessions : OnePlace(s)

\* A record is marked resolved, in the table or for good, only after the session that
\* marks it has its event in Kafka: whatever fails or crashes, none is lost.
ResolvedWasPublished ==
    /\ \A s \in Sessions : \A r \in committed[s] : <<s, r>> \in published
    /\ \A r \in Records : row[r] # Pending => r \in committed[row[r]]

\* The records a request counts as replayed are resolved together or not at all, and
\* all of them when it is answered from a transaction that did not fail.
AllOrNone ==
    \A s \in Sessions :
       /\ pc[s] = "ended" => committed[s] \in {{}, replayed[s]}
       /\ answer[s] = "ok" /\ tx[s] = "open" => committed[s] = replayed[s]

DL == INSTANCE DeadLetters WITH
         Requests <- Sessions, Named <- Requested,
         topic <- published, resolver <- row,
         over <- {s \in Sessions : committed[s] # {} \/ answer[s] # "none"}

\* The replay keeps what it promises: a request resolves records in one step, only what it
\* names and has published, nothing after its answer, and no record is pending again.
ImplementsDeadLetters == DL!Spec

\* A request ends, whatever Kafka, the server and the other requests do: no record
\* stays locked and no session waits for ever.
EveryRequestEnds == \A s \in Sessions : pc[s] = "fetch" ~> pc[s] = "ended"

-----------------------------------------------------------------------------
(* What the documents say and the code does not keep *)

\* tests/integration/test_dlq_replay.py, "Verify DLQ record status updated": the records
\* an answer of 200 counts as replayed are resolved.
ReplayedIsResolved ==
    \A s \in Sessions : answer[s] = "ok" => committed[s] = replayed[s]

\* api/routes/dlq.py, "failed_count: Number of events that failed to replay": the events an
\* answer of 200 counts as failed do not reach the topic.
FailedStaysUnpublished ==
    \A s \in Sessions : answer[s] = "ok" => \A r \in failed[s] : <<s, r>> \notin published
=============================================================================
