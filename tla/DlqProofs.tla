------------------------------ MODULE DlqProofs ------------------------------
(***************************************************************************)
(* Replaying dead letters, for any number of sessions and records: what    *)
(* every step keeps of the types, that a record is resolved only by a      *)
(* session that published it, that a session's rows are resolved together  *)
(* or not at all, and that the replay implements DeadLetters.  Then        *)
(* walking through a listing, for any table, page size and number of       *)
(* changes: what a walk that ends has missed, and what it has shown twice. *)
(***************************************************************************)
EXTENDS DlqReplay, RecordListing, FiniteSetTheorems, SequenceTheorems, TLAPS

\* Every step keeps the types.
LEMMA TypesKept == Spec => []Types
<1>1. Init => Types
  BY DEF Init, Types, Labels, Empty
<1>2. ASSUME Types, [Next]_vars PROVE Types'
  <2>. USE <1>2, DlqAssumption
  <2>. USE DEF Types, Labels, Goto, Answer, local, database, kafka
  <2>1. ASSUME NEW s \in Sessions, Connect(s) PROVE Types'
    BY <2>1 DEF Connect
  <2>2. ASSUME NEW s \in Sessions, Fetch(s) PROVE Types'
    BY <2>2 DEF Fetch
  <2>3. ASSUME NEW s \in Sessions, FetchFails(s) PROVE Types'
    BY <2>3 DEF FetchFails, TxEnds
  <2>4. ASSUME NEW s \in Sessions, StartProducer(s) PROVE Types'
    BY <2>4 DEF StartProducer
  <2>5. ASSUME NEW s \in Sessions, Send(s) PROVE Types'
    BY <2>5 DEF Send
  <2>6. ASSUME NEW s \in Sessions, SendRaises(s) PROVE Types'
    BY <2>6 DEF SendRaises, CountFailed
  <2>7. ASSUME NEW s \in Sessions, Confirmed(s) PROVE Types'
    BY <2>7 DEF Confirmed
  <2>8. ASSUME NEW s \in Sessions, NotConfirmed(s) PROVE Types'
    BY <2>8 DEF NotConfirmed, CountFailed
  <2>9. ASSUME NEW s \in Sessions, Update(s) PROVE Types'
    BY <2>9 DEF Update
  <2>10. ASSUME NEW s \in Sessions, UpdateRaises(s) PROVE Types'
    BY <2>10 DEF UpdateRaises, CountFailed, TxEnds
  <2>18. ASSUME NEW s \in Sessions, ConnectionLost(s) PROVE Types'
    BY <2>18 DEF ConnectionLost, CountFailed, TxEnds
  <2>11. ASSUME NEW s \in Sessions, Commit(s) PROVE Types'
    BY <2>11 DEF Commit, Persist
  <2>12. ASSUME NEW s \in Sessions, CommitRaises(s) PROVE Types'
    BY <2>12 DEF CommitRaises, Persist, TxEnds
  <2>13. ASSUME NEW s \in Sessions, Rollback(s) PROVE Types'
    BY <2>13 DEF Rollback, TxEnds
  <2>14. ASSUME NEW s \in Sessions, Close(s) PROVE Types'
    BY <2>14 DEF Close, TxEnds
  <2>15. ASSUME NEW s \in Sessions, Crash(s) PROVE Types'
    BY <2>15 DEF Crash, TxEnds
  <2>16. ASSUME NEW m \in sending, Settle(m) PROVE Types'
    BY <2>16 DEF Settle
  <2>17. CASE UNCHANGED vars
    BY <2>17 DEF vars
  <2>. QED
    BY <2>1, <2>2, <2>3, <2>4, <2>5, <2>6, <2>7, <2>8, <2>9, <2>10, <2>11, <2>12, <2>13,
       <2>14, <2>15, <2>16, <2>17, <2>18 DEF Next, Step, Progress
<1>. QED
  BY <1>1, <1>2, PTL DEF Spec

-----------------------------------------------------------------------------
\* Before the rows are fetched a session has no record anywhere.
Fresh(s) ==
    pc[s] \in {"new", "fetch"} => replayed[s] = {} /\ failed[s] = {} /\ current[s] = {}

\* Every step keeps the types and each record of a session in one place.
THEOREM TypeCorrect == Spec => []TypeOK
<1>. DEFINE Inv == \A u \in Sessions : OnePlace(u) /\ Fresh(u)
<1>1. Init => Inv
  BY DEF Init, OnePlace, Fresh, Empty
<1>2. ASSUME Types, Inv, [Next]_vars PROVE Inv'
  <2>. SUFFICES ASSUME NEW u \in Sessions PROVE (OnePlace(u) /\ Fresh(u))'
    OBVIOUS
  <2>0. OnePlace(u) /\ Fresh(u)
    BY <1>2
  <2>. USE <2>0 DEF Types, OnePlace, Fresh, Goto, local
  <2>1. ASSUME NEW s \in Sessions, Fetch(s) PROVE (OnePlace(u) /\ Fresh(u))'
    BY <1>2, <2>1 DEF Fetch
  <2>2. ASSUME NEW s \in Sessions, Send(s) PROVE (OnePlace(u) /\ Fresh(u))'
    BY <1>2, <2>2 DEF Send
  <2>3. ASSUME NEW s \in Sessions, SendRaises(s) PROVE (OnePlace(u) /\ Fresh(u))'
    BY <1>2, <2>3 DEF SendRaises, CountFailed
  <2>4. ASSUME NEW s \in Sessions, NotConfirmed(s) \/ UpdateRaises(s) \/ ConnectionLost(s)
        PROVE (OnePlace(u) /\ Fresh(u))'
    BY <1>2, <2>4 DEF NotConfirmed, UpdateRaises, ConnectionLost, CountFailed
  <2>5. ASSUME NEW s \in Sessions, Update(s) PROVE (OnePlace(u) /\ Fresh(u))'
    BY <1>2, <2>5 DEF Update
  <2>6. ASSUME NEW s \in Sessions,
               \/ Connect(s) \/ FetchFails(s) \/ StartProducer(s) \/ Confirmed(s)
               \/ Commit(s) \/ CommitRaises(s) \/ Rollback(s) \/ Close(s) \/ Crash(s)
        PROVE (OnePlace(u) /\ Fresh(u))'
    BY <1>2, <2>6 DEF Connect, FetchFails, StartProducer, Confirmed, Commit, CommitRaises,
       Rollback, Close, Crash
  <2>7. CASE (\E m \in sending : Settle(m)) \/ UNCHANGED vars
    BY <2>7 DEF Settle, vars
  <2>. QED
    BY <1>2, <2>1, <2>2, <2>3, <2>4, <2>5, <2>6, <2>7 DEF Next, Step, Progress
<1>3. Types /\ Inv => TypeOK
  BY DEF TypeOK
<1>. QED
  BY <1>1, <1>2, <1>3, TypesKept, PTL DEF Spec

-----------------------------------------------------------------------------
\* What a session may mark, has marked or has committed, it published before.
Published(s, records) == \A r \in records : <<s, r>> \in published

Backed(s) ==
    /\ pc[s] = "update" => Published(s, current[s])
    /\ Published(s, updated[s])
    /\ Published(s, committed[s])

Attributed == \A r \in Records : row[r] # Pending => r \in committed[row[r]]

BackedInv == (\A u \in Sessions : Backed(u)) /\ Attributed

LEMMA BackedKept == Spec => []BackedInv
<1>. USE DEF BackedInv
<1>1. Init => BackedInv
  BY DEF Init, Backed, Published, Attributed, Empty
<1>2. ASSUME Types, BackedInv, [Next]_vars PROVE BackedInv'
  <2>1. ASSUME NEW u \in Sessions PROVE Backed(u)'
    <3>0. Backed(u)
      BY <1>2
    <3>. USE <3>0 DEF Types, Backed, Published, Goto, local, database, kafka
    <3>1. ASSUME NEW s \in Sessions, Send(s) PROVE Backed(u)'
      BY <1>2, <3>1 DEF Send
    <3>2. ASSUME NEW s \in Sessions, Confirmed(s) PROVE Backed(u)'
      BY <1>2, <3>2 DEF Confirmed
    <3>3. ASSUME NEW s \in Sessions, Update(s) PROVE Backed(u)'
      BY <1>2, <3>3 DEF Update
    <3>4. ASSUME NEW s \in Sessions, Commit(s) \/ CommitRaises(s) PROVE Backed(u)'
      BY <1>2, <3>4 DEF Commit, CommitRaises, Persist, TxEnds
    <3>5. ASSUME NEW s \in Sessions, Connect(s) \/ Fetch(s) \/ StartProducer(s) PROVE Backed(u)'
      BY <1>2, <3>5 DEF Connect, Fetch, StartProducer
    <3>6. ASSUME NEW s \in Sessions, SendRaises(s) \/ NotConfirmed(s) PROVE Backed(u)'
      BY <1>2, <3>6 DEF SendRaises, NotConfirmed, CountFailed
    <3>7. ASSUME NEW s \in Sessions,
                 FetchFails(s) \/ Rollback(s) \/ Close(s) \/ Crash(s)
          PROVE  Backed(u)'
      BY <1>2, <3>7 DEF FetchFails, Rollback, Close, Crash, TxEnds
    <3>8. ASSUME NEW s \in Sessions, UpdateRaises(s) \/ ConnectionLost(s) PROVE Backed(u)'
      BY <1>2, <3>8 DEF UpdateRaises, ConnectionLost, CountFailed, TxEnds
    <3>9. CASE (\E m \in sending : Settle(m)) \/ UNCHANGED vars
      BY <3>9 DEF Settle, vars
    <3>. QED
      BY <1>2, <3>1, <3>2, <3>3, <3>4, <3>5, <3>6, <3>7, <3>8, <3>9 DEF Next, Step, Progress
  <2>2. Attributed'
    <3>1. CASE UNCHANGED <<row, committed>>
      BY <1>2, <3>1 DEF Attributed
    <3>2. ASSUME NEW s \in Sessions, Persist(s) PROVE Attributed'
      BY <1>2, <3>2, DlqAssumption DEF Types, Persist, Attributed
    <3>. QED
      BY <1>2, <3>1, <3>2 DEF Next, Step, Progress, vars, database, Connect, Fetch, FetchFails,
         StartProducer, Send, SendRaises, Confirmed, NotConfirmed, Update, UpdateRaises, ConnectionLost,
         Commit, CommitRaises, Rollback, Close, Crash, Settle, TxEnds
  <2>. QED
    BY <2>1, <2>2
<1>. QED
  BY <1>1, <1>2, TypesKept, PTL DEF Spec

\* A resolved record was published by the session that resolved it.
THEOREM ResolvedIsPublished == Spec => []ResolvedWasPublished
<1>1. BackedInv => ResolvedWasPublished
  BY DEF BackedInv, Backed, Published, Attributed, ResolvedWasPublished
<1>. QED
  BY <1>1, BackedKept, PTL

-----------------------------------------------------------------------------
\* A session commits nothing before its loop is done; as long as its transaction is
\* open it has updated exactly the records it counts, and then committed exactly these.
Running(s) == pc[s] \in {"new", "fetch", "producer", "loop", "sent", "update"}

Together(s) ==
    /\ pc[s] \in {"new", "fetch"} => replayed[s] = {}
    /\ tx[s] # "open" => updated[s] = {}
    /\ Running(s) => /\ committed[s] = {}
                     /\ answer[s] = "none"
                     /\ tx[s] = "open" => updated[s] = replayed[s]
    /\ ~Running(s) => committed[s] \in {{}, replayed[s]}
    /\ answer[s] = "ok" /\ tx[s] = "open" => committed[s] = replayed[s]

TogetherInv == \A u \in Sessions : Together(u)

LEMMA TogetherKept == Spec => []TogetherInv
<1>. USE DEF TogetherInv
<1>1. Init => TogetherInv
  BY DEF Init, Together, Running, Empty
<1>2. ASSUME Types, TogetherInv, [Next]_vars PROVE TogetherInv'
  <2>. SUFFICES ASSUME NEW u \in Sessions PROVE Together(u)'
    OBVIOUS
  <2>0. Together(u)
    BY <1>2
  <2>. USE <2>0 DEF Types, Labels, Together, Running, Goto, Answer, local, database, kafka
  <2>1. ASSUME NEW s \in Sessions, Connect(s) \/ Fetch(s) \/ StartProducer(s) PROVE Together(u)'
    <3>1. CASE Connect(s)
      BY <1>2, <3>1 DEF Connect
    <3>2. CASE Fetch(s)
      BY <1>2, <3>2 DEF Fetch
    <3>3. CASE StartProducer(s)
      BY <1>2, <3>3 DEF StartProducer
    <3>. QED
      BY <2>1, <3>1, <3>2, <3>3
  <2>2. ASSUME NEW s \in Sessions, Send(s) \/ Confirmed(s) PROVE Together(u)'
    BY <1>2, <2>2 DEF Send, Confirmed
  <2>3. ASSUME NEW s \in Sessions, SendRaises(s) \/ NotConfirmed(s) PROVE Together(u)'
    BY <1>2, <2>3 DEF SendRaises, NotConfirmed, CountFailed
  <2>4. ASSUME NEW s \in Sessions, Update(s) PROVE Together(u)'
    BY <1>2, <2>4 DEF Update
  <2>5. ASSUME NEW s \in Sessions, UpdateRaises(s) \/ ConnectionLost(s) PROVE Together(u)'
    BY <1>2, <2>5 DEF UpdateRaises, ConnectionLost, CountFailed, TxEnds
  <2>6. ASSUME NEW s \in Sessions, Commit(s) PROVE Together(u)'
    BY <1>2, <2>6 DEF Commit, Committing, Persist
  <2>7. ASSUME NEW s \in Sessions, CommitRaises(s) PROVE Together(u)'
    <3>1. Running(s) /\ pc' = [pc EXCEPT ![s] = "except"] /\ UNCHANGED <<replayed, answer>>
      BY <2>7 DEF CommitRaises, Committing
    <3>2. answer[s] = "none" /\ committed[s] = {}
      BY <1>2, <3>1
    <3>3. CASE Persist(s)
      BY <1>2, <3>1, <3>2, <3>3 DEF Persist
    <3>4. CASE TxEnds(s, "lost")
      BY <1>2, <3>1, <3>2, <3>4 DEF TxEnds
    <3>. QED
      BY <2>7, <3>3, <3>4 DEF CommitRaises
  <2>8. ASSUME NEW s \in Sessions, FetchFails(s) \/ Rollback(s) \/ Close(s) \/ Crash(s)
        PROVE  Together(u)'
    BY <1>2, <2>8 DEF FetchFails, Rollback, Close, Crash, TxEnds
  <2>9. CASE (\E m \in sending : Settle(m)) \/ UNCHANGED vars
    BY <2>9 DEF Settle, vars
  <2>. QED
    BY <1>2, <2>1, <2>2, <2>3, <2>4, <2>5, <2>6, <2>7, <2>8, <2>9 DEF Next, Step, Progress
<1>. QED
  BY <1>1, <1>2, TypesKept, PTL DEF Spec

\* A session's records are resolved together or not at all.
THEOREM ResolvedTogether == Spec => []AllOrNone
<1>1. Types /\ TogetherInv => AllOrNone
  BY DEF TogetherInv, Types, Together, Running, AllOrNone
<1>. QED
  BY <1>1, TogetherKept, TypesKept, PTL

-----------------------------------------------------------------------------
\* A session touches only the records it was asked for.
Within(s) ==
    /\ todo[s] \subseteq Requested[s]
    /\ current[s] \subseteq Requested[s]
    /\ updated[s] \subseteq Requested[s]

WithinInv ==
    /\ \A u \in Sessions : Within(u)
    /\ \A m \in sending : m[2] \in Requested[m[1]]

LEMMA WithinKept == Spec => []WithinInv
<1>1. Init => WithinInv
  BY DEF Init, WithinInv, Within, Empty
<1>2. ASSUME Types, WithinInv, [Next]_vars PROVE WithinInv'
  <2>1. ASSUME NEW u \in Sessions PROVE Within(u)'
    <3>0. Within(u)
      BY <1>2 DEF WithinInv
    <3>. USE <3>0 DEF Types, Within, local, database, kafka
    <3>1. ASSUME NEW s \in Sessions, Fetch(s) PROVE Within(u)'
      BY <1>2, <3>1 DEF Fetch
    <3>2. ASSUME NEW s \in Sessions, Send(s) PROVE Within(u)'
      BY <1>2, <3>2 DEF Send
    <3>3. ASSUME NEW s \in Sessions, SendRaises(s) \/ NotConfirmed(s) PROVE Within(u)'
      BY <1>2, <3>3 DEF SendRaises, NotConfirmed, CountFailed
    <3>4. ASSUME NEW s \in Sessions, Update(s) PROVE Within(u)'
      BY <1>2, <3>4 DEF Update
    <3>5. ASSUME NEW s \in Sessions, UpdateRaises(s) \/ ConnectionLost(s) PROVE Within(u)'
      BY <1>2, <3>5 DEF UpdateRaises, ConnectionLost, CountFailed, TxEnds
    <3>6. ASSUME NEW s \in Sessions, Commit(s) \/ CommitRaises(s) PROVE Within(u)'
      BY <1>2, <3>6 DEF Commit, CommitRaises, Persist, TxEnds
    <3>7. ASSUME NEW s \in Sessions, FetchFails(s) \/ Rollback(s) \/ Close(s) \/ Crash(s)
          PROVE  Within(u)'
      BY <1>2, <3>7 DEF FetchFails, Rollback, Close, Crash, TxEnds
    <3>8. ASSUME NEW s \in Sessions, Connect(s) \/ StartProducer(s) \/ Confirmed(s)
          PROVE  Within(u)'
      BY <1>2, <3>8 DEF Connect, StartProducer, Confirmed
    <3>9. CASE (\E m \in sending : Settle(m)) \/ UNCHANGED vars
      BY <3>9 DEF Settle, vars
    <3>. QED
      BY <1>2, <3>1, <3>2, <3>3, <3>4, <3>5, <3>6, <3>7, <3>8, <3>9 DEF Next, Step, Progress
  <2>2. \A m \in sending' : m[2] \in Requested[m[1]]
    <3>1. ASSUME NEW s \in Sessions, Send(s) PROVE \A m \in sending' : m[2] \in Requested[m[1]]
      BY <1>2, <3>1 DEF Send, WithinInv, Within
    <3>2. CASE sending' \subseteq sending
      BY <1>2, <3>2 DEF WithinInv
    <3>. QED
      BY <1>2, <3>1, <3>2 DEF Next, Step, Progress, vars, kafka, Connect, Fetch, FetchFails,
         StartProducer, SendRaises, Confirmed, NotConfirmed, Update, UpdateRaises, ConnectionLost,
         Commit, CommitRaises, Rollback, Close, Crash, Settle
  <2>. QED
    BY <2>1, <2>2 DEF WithinInv
<1>. QED
  BY <1>1, <1>2, TypesKept, PTL DEF Spec

-----------------------------------------------------------------------------
(* The replay implements DeadLetters *)

Over == {s \in Sessions : committed[s] # {} \/ answer[s] # "none"}

\* Steps that neither reach the topic, nor commit, nor answer.
Inside(s) ==
    \/ FetchFails(s) \/ StartProducer(s) \/ Send(s) \/ SendRaises(s) \/ Confirmed(s)
    \/ NotConfirmed(s) \/ Update(s) \/ UpdateRaises(s) \/ ConnectionLost(s)
    \/ Close(s) \/ Crash(s)

LEMMA InsideStutters ==
    ASSUME NEW s \in Sessions, Inside(s)
    PROVE  UNCHANGED <<published, row, committed, answer>>
BY DEF Inside, FetchFails, StartProducer, Send, SendRaises, Confirmed, NotConfirmed, Update,
   UpdateRaises, ConnectionLost, Close, Crash, TxEnds, CountFailed, database, kafka

\* A session that answers, or commits, without anything to commit resolves no record.
LEMMA ResolvesNothing ==
    ASSUME NEW s \in Sessions, Types, s \notin Over, Over' = Over \cup {s},
           UNCHANGED <<published, row>>
    PROVE  DL!Next
<1>1. row' = [r \in Records |-> IF r \in {} THEN s ELSE row[r]]
  BY DEF Types
<1>2. DL!Resolve(s, {})
  BY <1>1 DEF DL!Resolve, Over
<1>. QED
  BY <1>2 DEF DL!Next

\* A commit resolves what the session has updated, and has published before.
LEMMA PersistResolves ==
    ASSUME NEW s \in Sessions, Types, BackedInv, WithinInv, s \notin Over,
           Over' = Over \cup {s}, Persist(s), UNCHANGED published
    PROVE  DL!Next
<1>1. /\ updated[s] \subseteq Records
      /\ \A r \in updated[s] : r \in Requested[s] /\ <<s, r>> \in published
  BY DEF Types, BackedInv, Backed, Published, WithinInv, Within
<1>2. ASSUME NEW S \in SUBSET Records, S = updated[s] PROVE DL!Next
  <2>1. DL!Resolve(s, S)
    BY <1>1, <1>2 DEF DL!Resolve, Persist, Over
  <2>. QED
    BY <2>1 DEF DL!Next
<1>3. updated[s] \in SUBSET Records
  BY <1>1
<1>. QED
  BY <1>2, <1>3

LEMMA StepImplements ==
    ASSUME Types, BackedInv, TogetherInv, WithinInv, [Next]_vars
    PROVE  DL!Next \/ UNCHANGED <<published, row, Over>>
<1>. DEFINE Goal == DL!Next \/ UNCHANGED <<published, row, Over>>
<1>1. ASSUME UNCHANGED <<committed, answer>> PROVE Over' = Over
  BY <1>1 DEF Over
<1>2. ASSUME NEW s \in Sessions, Running(s) PROVE s \notin Over /\ committed[s] = {}
  BY <1>2 DEF TogetherInv, Together, Over
<1>3. ASSUME NEW s \in Sessions, NEW a \in {"ok", "error"}, Answer(s, a),
             \A u \in Sessions \ {s} : committed'[u] = committed[u]
      PROVE  Over' = Over \cup {s}
  BY <1>3 DEF Types, Answer, Over
<1>4. ASSUME NEW s \in Sessions, Inside(s) PROVE Goal
  BY <1>1, <1>4, InsideStutters
<1>5. ASSUME NEW s \in Sessions, Connect(s) \/ Fetch(s) PROVE Goal
  <2>1. Running(s) /\ UNCHANGED <<published, row, committed>>
    BY <1>5 DEF Connect, Fetch, Running, database, kafka
  <2>2. UNCHANGED answer \/ Answer(s, "ok") \/ Answer(s, "error")
    BY <1>5 DEF Connect, Fetch
  <2>3. CASE UNCHANGED answer
    BY <1>1, <2>1, <2>3
  <2>4. CASE Answer(s, "ok") \/ Answer(s, "error")
    BY <1>2, <1>3, <2>1, <2>4, ResolvesNothing
  <2>. QED
    BY <2>2, <2>3, <2>4
<1>6. ASSUME NEW s \in Sessions, Commit(s) PROVE Goal
  <2>1. /\ Running(s) /\ Persist(s) /\ Answer(s, "ok") /\ UNCHANGED published
        /\ \A u \in Sessions \ {s} : committed'[u] = committed[u]
    BY <1>6 DEF Commit, Committing, Running, Persist, kafka, Types
  <2>. QED
    BY <1>2, <1>3, <2>1, PersistResolves
<1>7. ASSUME NEW s \in Sessions, CommitRaises(s) PROVE Goal
  <2>1. Running(s) /\ UNCHANGED <<answer, published>> /\ (Persist(s) \/ TxEnds(s, "lost"))
    BY <1>7 DEF CommitRaises, Committing, Running, kafka
  <2>2. CASE TxEnds(s, "lost")
    BY <1>1, <2>1, <2>2 DEF TxEnds
  <2>3. CASE Persist(s) /\ updated[s] = {}
    <3>1. UNCHANGED <<row, committed>>
      BY <2>3 DEF Persist, Types
    <3>. QED
      BY <1>1, <2>1, <3>1
  <2>4. CASE Persist(s) /\ updated[s] # {}
    <3>1. Over' = Over \cup {s}
      BY <2>1, <2>4 DEF Persist, Over, Types
    <3>. QED
      BY <1>2, <2>1, <2>4, <3>1, PersistResolves
  <2>. QED
    BY <2>1, <2>2, <2>3, <2>4
<1>8. ASSUME NEW s \in Sessions, Rollback(s) PROVE Goal
  <2>1. Answer(s, "error") /\ UNCHANGED <<published, row, committed>>
    BY <1>8 DEF Rollback, TxEnds, kafka
  <2>2. Over' = Over \cup {s}
    BY <1>3, <2>1
  <2>3. CASE s \in Over
    BY <2>1, <2>2, <2>3
  <2>4. CASE s \notin Over
    BY <2>1, <2>2, <2>4, ResolvesNothing
  <2>. QED
    BY <2>3, <2>4
<1>9. ASSUME NEW m \in sending, Settle(m) PROVE Goal
  <2>1. PICK s \in Sessions, r \in Records : m = <<s, r>>
    BY DEF Types
  <2>2. r \in Requested[s]
    BY <2>1 DEF WithinInv
  <2>3. UNCHANGED <<row, committed, answer>> /\ Over' = Over
    BY <1>1, <1>9 DEF Settle, database
  <2>4. CASE UNCHANGED published
    BY <2>3, <2>4
  <2>5. CASE published' = published \cup {m}
    <3>1. DL!BringBack(s, r)
      BY <2>1, <2>2, <2>3, <2>5 DEF DL!BringBack, Over
    <3>. QED
      BY <3>1 DEF DL!Next
  <2>. QED
    BY <1>9, <2>4, <2>5 DEF Settle
<1>10. CASE UNCHANGED vars
  BY <1>1, <1>10 DEF vars, database, kafka
<1>. QED
  BY <1>4, <1>5, <1>6, <1>7, <1>8, <1>9, <1>10 DEF Next, Step, Progress, Inside

\* replay_events keeps what DeadLetters promises, for any sessions and records, whatever
\* Kafka and PostgreSQL do and whenever a process dies.
THEOREM ReplayImplements == Spec => ImplementsDeadLetters
<1>1. Init => DL!Init
  BY DEF Init, DL!Init, Empty
<1>2. Types /\ BackedInv /\ TogetherInv /\ WithinInv /\ [Next]_vars
      => [DL!Next]_<<published, row, Over>>
  BY StepImplements
<1>3. Spec => [][DL!Next]_<<published, row, Over>>
  BY <1>2, TypesKept, BackedKept, TogetherKept, WithinKept, PTL DEF Spec
<1>. QED
  BY <1>1, <1>3, PTL DEF Spec, ImplementsDeadLetters, DL!Spec, Over

-----------------------------------------------------------------------------
(* The listing *)

\* The rows of S that come before r in the order of the timestamps f.
Before(f, S, r) == {q \in S : f[q] > f[r]}

Rank(f, S, r) == Cardinality(Before(f, S, r))

\* The position up to which the client has asked for pages, and what they held.
Front == IF progress = "total" THEN offset + Limit ELSE offset

Shown == seen \cup page

\* The rows that the walk has passed without showing them.
Missed == {r \in stayed : Alone(r) /\ r \notin Shown /\ Rank(at, matches, r) < Front}

\* The rows that it has shown twice, or will show again.
Again == {r \in RowsOf(at) :
             /\ Alone(r)
             /\ \/ r \in repeated \/ r \in seen \cap page
                \/ r \in matches \cap Shown /\ Rank(at, matches, r) >= Front}

ListTypes ==
    /\ progress \in {"page", "total", "done", "refused", "failed"}
    /\ at \in Seq(Times)
    /\ matches \subseteq RowsOf(at) /\ stayed \subseteq matches
    /\ seen \subseteq RowsOf(at) /\ page \subseteq RowsOf(at) /\ repeated \subseteq RowsOf(at)
    /\ progress = "page" => page = {}
    /\ offset \in Nat /\ came \in Nat /\ left \in Nat

Walking == progress \in {"page", "total"}

ListInv ==
    /\ ListTypes
    /\ Shown \cap unreadable = {}
    /\ Walking => Cardinality(Missed) <= left /\ Cardinality(Again) <= came
    /\ WalkComplete
    /\ RepeatedOnlyMoved

-----------------------------------------------------------------------------
\* A part of a finite set has no more elements.
LEMMA NoMore ==
    ASSUME NEW S, NEW T, IsFiniteSet(S), T \subseteq S
    PROVE  IsFiniteSet(T) /\ Cardinality(T) <= Cardinality(S)
           /\ Cardinality(T) \in Nat /\ Cardinality(S) \in Nat
  BY FS_Subset, FS_CardinalityType

\* One element more at most.
LEMMA OneMore ==
    ASSUME NEW S, NEW T, IsFiniteSet(S), \A a, b \in T \ S : a = b
    PROVE  IsFiniteSet(T) /\ Cardinality(T) <= Cardinality(S) + 1
           /\ Cardinality(T) \in Nat /\ Cardinality(S) \in Nat
<1>1. CASE T \subseteq S
  BY <1>1, NoMore
<1>2. CASE ~(T \subseteq S)
  <2>1. PICK x \in T : x \notin S
    BY <1>2
  <2>2. T \subseteq S \cup {x}
    BY <2>1
  <2>3. IsFiniteSet(S \cup {x}) /\ Cardinality(S \cup {x}) = Cardinality(S) + 1
    BY <2>1, FS_AddElement
  <2>4. Cardinality(S) \in Nat
    BY FS_CardinalityType
  <2> QED
    BY <2>2, <2>3, <2>4, NoMore
<1> QED
  BY <1>1, <1>2

\* A rank is a natural number.
LEMMA RankIsNat ==
    ASSUME NEW f, NEW S, NEW r, IsFiniteSet(S)
    PROVE  IsFiniteSet(Before(f, S, r)) /\ Rank(f, S, r) \in Nat
  BY NoMore DEF Before, Rank

\* A row that passes the filter has fewer rows before it than pass.
LEMMA RankBelow ==
    ASSUME NEW S, NEW f, NEW r \in S, IsFiniteSet(S), \A q \in S : f[q] \in Nat
    PROVE  Rank(f, S, r) < Cardinality(S)
<1>1. Before(f, S, r) \subseteq S \ {r}
  BY DEF Before
<1>2. IsFiniteSet(S \ {r}) /\ Cardinality(S \ {r}) = Cardinality(S) - 1
  BY FS_RemoveElement
<1>3. Cardinality(S) \in Nat
  BY FS_CardinalityType
<1> QED
  BY <1>1, <1>2, <1>3, NoMore DEF Rank

\* A younger row has a smaller rank.
LEMMA RankOrder ==
    ASSUME NEW S, NEW f, NEW q, NEW r, IsFiniteSet(S),
           \A p \in S \cup {q, r} : f[p] \in Nat, f[q] > f[r]
    PROVE  /\ Rank(f, S, q) <= Rank(f, S, r)
           /\ q \in S => Rank(f, S, q) < Rank(f, S, r)
<1>1. Before(f, S, q) \subseteq Before(f, S, r)
  BY DEF Before
<1>2. IsFiniteSet(Before(f, S, r)) /\ IsFiniteSet(Before(f, S, q))
  BY RankIsNat
<1>3. Rank(f, S, q) <= Rank(f, S, r) /\ Rank(f, S, q) \in Nat /\ Rank(f, S, r) \in Nat
  BY <1>1, <1>2, NoMore DEF Rank
<1>4. ASSUME q \in S PROVE Rank(f, S, q) < Rank(f, S, r)
  <2>1. q \notin Before(f, S, q) /\ Before(f, S, q) \cup {q} \subseteq Before(f, S, r)
    BY <1>1, <1>4 DEF Before
  <2>2. Cardinality(Before(f, S, q) \cup {q}) = Cardinality(Before(f, S, q)) + 1
    BY <2>1, <1>2, FS_AddElement
  <2>3. Cardinality(Before(f, S, q) \cup {q}) <= Cardinality(Before(f, S, r))
    BY <2>1, <1>2, NoMore
  <2> QED
    BY <2>2, <2>3, <1>3 DEF Rank
<1> QED
  BY <1>3, <1>4

\* When a row enters the filter, the older ones go one place on.
LEMMA RankAfterEntry ==
    ASSUME NEW S, NEW f, NEW x, NEW r, IsFiniteSet(S), x \notin S
    PROVE  Rank(f, S \cup {x}, r) = Rank(f, S, r) + IF f[x] > f[r] THEN 1 ELSE 0
<1>1. IsFiniteSet(Before(f, S, r)) /\ Rank(f, S, r) \in Nat
  BY RankIsNat
<1>2. CASE f[x] > f[r]
  <2>1. Before(f, S \cup {x}, r) = Before(f, S, r) \cup {x} /\ x \notin Before(f, S, r)
    BY <1>2 DEF Before
  <2> QED
    BY <1>1, <1>2, <2>1, FS_AddElement DEF Rank
<1>3. CASE ~(f[x] > f[r])
  <2>1. Before(f, S \cup {x}, r) = Before(f, S, r)
    BY <1>3 DEF Before
  <2> QED
    BY <1>1, <1>3, <2>1 DEF Rank
<1> QED
  BY <1>2, <1>3

\* The rank depends on the timestamps of the rows alone.
LEMMA RankSame ==
    ASSUME NEW S, NEW f, NEW g, NEW r, \A q \in S \cup {r} : f[q] = g[q]
    PROVE  Rank(f, S, r) = Rank(g, S, r)
<1>1. Before(f, S, r) = Before(g, S, r)
  BY DEF Before
<1> QED
  BY <1>1 DEF Rank

-----------------------------------------------------------------------------
\* What the table is made of.
LEMMA TableFacts ==
    ASSUME ListTypes
    PROVE  /\ RowsOf(at) = 1..Len(at) /\ Len(at) \in Nat /\ IsFiniteSet(RowsOf(at))
           /\ Cardinality(RowsOf(at)) = Len(at)
           /\ \A r \in RowsOf(at) : at[r] \in Nat
           /\ IsFiniteSet(matches) /\ Cardinality(matches) \in Nat
           /\ Limit \in Nat \ {0} /\ MaxTotal \in Nat /\ Front \in Nat
<1>1. at \in Seq(Times) /\ Times \subseteq Nat /\ Limit \in Nat \ {0} /\ MaxTotal \in Nat
  BY ListingAssumption DEF ListTypes
<1>2. /\ RowsOf(at) = 1..Len(at) /\ Len(at) \in Nat
      /\ \A r \in RowsOf(at) : at[r] \in Nat
  <2>1. Len(at) \in Nat /\ at \in [1..Len(at) -> Times]
    BY <1>1, LenProperties
  <2> QED
    BY <1>1, <2>1 DEF RowsOf
<1>3. IsFiniteSet(1..Len(at)) /\ Cardinality(1..Len(at)) = Len(at)
  <2> DEFINE n == Len(at)
  <2> HIDE DEF n
  <2>1. n \in Nat
    BY <1>2 DEF n
  <2>2. IsFiniteSet(1..n) /\ Cardinality(1..n) = IF 1 > n THEN 0 ELSE n - 1 + 1
    BY <2>1, FS_Interval
  <2>3. Cardinality(1..n) = n
    BY <2>1, <2>2
  <2> QED
    BY <2>2, <2>3 DEF n
<1>4. IsFiniteSet(matches) /\ Cardinality(matches) \in Nat
  BY <1>2, <1>3, NoMore DEF ListTypes
<1>5. Front \in Nat
  BY <1>1 DEF Front, ListTypes
<1> QED
  BY <1>1, <1>2, <1>3, <1>4, <1>5

\* A row that shares its timestamp with none is among the first n just if its rank is
\* below n, however the database orders the others.
LEMMA FirstByRank ==
    ASSUME ListTypes, NEW n \in Nat, NEW T \in FirstRows(n), NEW r \in matches, Alone(r)
    PROVE  r \in T <=> Rank(at, matches, r) < n
<1> DEFINE B == Before(at, matches, r)
           m == Cardinality(matches)
<1>1. /\ IsFiniteSet(matches) /\ m \in Nat /\ IsFiniteSet(B) /\ Cardinality(B) \in Nat
      /\ Rank(at, matches, r) = Cardinality(B)
      /\ \A q \in matches : at[q] \in Nat /\ q \in RowsOf(at)
  BY TableFacts, RankIsNat DEF Rank, ListTypes
<1>2. /\ T \subseteq matches /\ Cardinality(T) = Smaller(n, m)
      /\ \A t \in T, q \in matches \ T : at[t] >= at[q]
  BY DEF FirstRows
<1>3. IsFiniteSet(T) /\ Cardinality(T) \in Nat
  BY <1>1, <1>2, NoMore
<1>4. ASSUME r \in T PROVE Cardinality(B) < n
  <2>1. B \cup {r} \subseteq T /\ r \notin B
    BY <1>1, <1>2, <1>4 DEF Before
  <2>2. Cardinality(B \cup {r}) = Cardinality(B) + 1
    BY <1>1, <2>1, FS_AddElement
  <2>3. Cardinality(B \cup {r}) <= Cardinality(T)
    BY <1>3, <2>1, NoMore
  <2>4. Cardinality(T) <= n
    BY <1>1, <1>2 DEF Smaller
  <2> HIDE DEF B
  <2> QED
    BY <1>1, <1>3, <2>2, <2>3, <2>4
<1>5. ASSUME r \notin T PROVE n <= Cardinality(B)
  <2>1. T \subseteq B
    <3> SUFFICES ASSUME NEW t \in T PROVE t \in B
      OBVIOUS
    <3>1. t \in matches /\ t # r /\ at[t] >= at[r] /\ t \in RowsOf(at)
      BY <1>1, <1>2, <1>5
    <3>2. at[t] # at[r]
      BY <3>1 DEF Alone
    <3> QED
      BY <1>1, <3>1, <3>2 DEF Before
  <2>2. Cardinality(T) <= Cardinality(B)
    BY <1>1, <2>1, NoMore
  <2>3. Cardinality(B) < m
    BY <1>1, RankBelow
  <2> HIDE DEF B, m
  <2> QED
    BY <1>1, <1>2, <1>3, <2>2, <2>3 DEF Smaller
<1> HIDE DEF B
<1> QED
  BY <1>1, <1>4, <1>5

\* So a page shows of these rows the ones whose ranks it covers.
LEMMA SliceByRank ==
    ASSUME ListTypes, NEW rows \in Slice, NEW r \in matches, Alone(r)
    PROVE  r \in rows <=> offset <= Rank(at, matches, r) /\ Rank(at, matches, r) < offset + Limit
<1>1. offset \in Nat /\ offset + Limit \in Nat /\ Rank(at, matches, r) \in Nat
  BY TableFacts, RankIsNat DEF ListTypes
<1>2. PICK T1 \in FirstRows(offset), T2 \in FirstRows(offset + Limit) : rows = T2 \ T1
  BY DEF Slice
<1>3. /\ r \in T1 <=> Rank(at, matches, r) < offset
      /\ r \in T2 <=> Rank(at, matches, r) < offset + Limit
  BY <1>1, FirstByRank
<1> QED
  BY <1>1, <1>2, <1>3

\* A page that is not full is the last.
LEMMA LastSlice ==
    ASSUME ListTypes, NEW rows \in Slice
    PROVE  /\ rows \subseteq matches
           /\ Cardinality(rows) # Limit => Cardinality(matches) <= offset + Limit
<1> DEFINE m == Cardinality(matches)
<1>1. offset \in Nat /\ Limit \in Nat /\ IsFiniteSet(matches) /\ m \in Nat
  BY TableFacts DEF ListTypes
<1>2. PICK T1 \in FirstRows(offset), T2 \in FirstRows(offset + Limit) :
           rows = T2 \ T1 /\ T1 \subseteq T2
  BY DEF Slice
<1>3. /\ T2 \subseteq matches
      /\ Cardinality(T1) = Smaller(offset, m) /\ Cardinality(T2) = Smaller(offset + Limit, m)
  BY DEF FirstRows
<1>4. IsFiniteSet(T2) /\ T2 \cap T1 = T1
  BY <1>1, <1>2, <1>3, NoMore
<1>5. Cardinality(rows) = Cardinality(T2) - Cardinality(T1)
  BY <1>2, <1>4, FS_Difference
<1> HIDE DEF m
<1>6. Cardinality(rows) # Limit => m <= offset + Limit
  BY <1>1, <1>3, <1>5 DEF Smaller
<1> QED
  BY <1>2, <1>3, <1>6 DEF m

\* Two rows that share their timestamps with none have different ranks.
LEMMA RankUnique ==
    ASSUME ListTypes, NEW a \in matches, NEW b \in matches, Alone(a),
           Rank(at, matches, a) = Rank(at, matches, b)
    PROVE  a = b
<1>1. /\ IsFiniteSet(matches) /\ \A q \in matches : at[q] \in Nat /\ q \in RowsOf(at)
      /\ Rank(at, matches, a) \in Nat /\ Rank(at, matches, b) \in Nat
  BY TableFacts, RankIsNat DEF ListTypes
<1>2. SUFFICES ASSUME a # b PROVE FALSE
  OBVIOUS
<1>3. at[a] > at[b] \/ at[b] > at[a]
  BY <1>1, <1>2 DEF Alone
<1>4. \A p \in matches \cup {a, b} : at[p] \in Nat
  BY <1>1
<1>5. CASE at[a] > at[b]
  BY <1>1, <1>4, <1>5, RankOrder
<1>6. CASE at[b] > at[a]
  <2>1. \A p \in matches \cup {b, a} : at[p] \in Nat
    BY <1>4
  <2> QED
    BY <1>1, <2>1, <1>6, RankOrder
<1> QED
  BY <1>3, <1>5, <1>6

\* Both counts are of finite sets.
LEMMA FiniteCounts ==
    ASSUME ListTypes
    PROVE  /\ IsFiniteSet(Missed) /\ IsFiniteSet(Again)
           /\ Cardinality(Missed) \in Nat /\ Cardinality(Again) \in Nat
<1>1. IsFiniteSet(RowsOf(at)) /\ Missed \subseteq RowsOf(at) /\ Again \subseteq RowsOf(at)
  BY TableFacts DEF Missed, Again, ListTypes
<1> QED
  BY <1>1, NoMore

-----------------------------------------------------------------------------
\* At first nothing is passed and nothing shown.
LEMMA ListStart == ListInit => ListInv
<1> SUFFICES ASSUME ListInit PROVE ListInv
    OBVIOUS
<1>1. /\ Initial \in Nat /\ at \in [1..Initial -> Times]
      /\ matches \subseteq 1..Initial /\ stayed = matches
      /\ progress = "page" /\ offset = 0 /\ seen = {} /\ page = {} /\ repeated = {}
      /\ came = 0 /\ left = 0
  BY ListingAssumption DEF ListInit
<1>2. ListTypes
  <2>1. at \in Seq(Times)
    BY <1>1, SeqDef
  <2> QED
    BY <1>1, <2>1 DEF ListTypes, RowsOf
<1>3. Missed = {} /\ Again = {}
  <2>1. \A r : Rank(at, matches, r) \in Nat
    BY <1>2, TableFacts, RankIsNat
  <2> QED
    BY <1>1, <2>1 DEF Missed, Again, Front, Shown
<1>4. Cardinality({}) = 0 /\ {r \in repeated : Alone(r)} = {}
  BY <1>1, FS_EmptySet
<1> QED
  BY <1>1, <1>2, <1>3, <1>4 DEF ListInv, WalkComplete, RepeatedOnlyMoved, Shown

\* A query that raises or is refused ends the walk as it is.
LEMMA StopsStep ==
    ASSUME ListInv, progress' \in {"refused", "failed"}, progress' = "refused" => unreadable # {},
           UNCHANGED <<at, matches, unreadable, stayed, offset, page, seen, repeated, came, left>>
    PROVE  ListInv'
<1>1. ListTypes'
  BY DEF ListInv, ListTypes, RowsOf
<1>2. Shown' = Shown /\ \A r : Alone(r)' = Alone(r)
  BY DEF Shown, Alone, RowsOf
<1>3. WalkComplete' /\ RepeatedOnlyMoved' /\ ~Walking'
  BY <1>2 DEF ListInv, WalkComplete, RepeatedOnlyMoved, Walking
<1> QED
  BY <1>1, <1>2, <1>3 DEF ListInv

\* A step of the walk that passes no row without showing it, and shows none again that it
\* would not have anyway, and ends where nothing more passes the filter.
LEMMA WalkStep ==
    ASSUME ListInv, Walking, ListTypes', progress' \in {"page", "total", "done"},
           Missed' \subseteq Missed, Again' \subseteq Again, Shown' \cap unreadable' = {},
           UNCHANGED <<at, matches, stayed, came, left>>,
           progress' = "done" => page' = {} /\ (~capped' => Cardinality(matches) <= Front')
    PROVE  ListInv'
<1>t. ListTypes
  BY DEF ListInv
<1>1. /\ IsFiniteSet(Missed') /\ Cardinality(Missed') <= left'
      /\ IsFiniteSet(Again') /\ Cardinality(Again') <= came'
      /\ Cardinality(Missed') \in Nat /\ Cardinality(Again') \in Nat
      /\ left' \in Nat /\ came' \in Nat
  <2>1. /\ Cardinality(Missed) <= left /\ Cardinality(Again) <= came
        /\ left \in Nat /\ came \in Nat
    BY DEF ListInv, ListTypes
  <2>2. /\ IsFiniteSet(Missed) /\ IsFiniteSet(Again)
        /\ Cardinality(Missed) \in Nat /\ Cardinality(Again) \in Nat
    BY <1>t, FiniteCounts
  <2>3. /\ IsFiniteSet(Missed') /\ Cardinality(Missed') <= Cardinality(Missed)
        /\ IsFiniteSet(Again') /\ Cardinality(Again') <= Cardinality(Again)
        /\ Cardinality(Missed') \in Nat /\ Cardinality(Again') \in Nat
    BY <2>2, NoMore
  <2> QED
    BY <2>1, <2>2, <2>3
<1>2. RepeatedOnlyMoved'
  <2> DEFINE R == {r \in repeated' : Alone(r)'}
  <2>1. R \subseteq Again'
    BY DEF Again, ListTypes
  <2>2. Cardinality(R) <= Cardinality(Again') /\ Cardinality(R) \in Nat
    BY <1>1, <2>1, NoMore
  <2>3. Cardinality(R) <= came'
    BY <1>1, <2>2
  <2> QED
    BY <2>3 DEF RepeatedOnlyMoved
<1>3. WalkComplete'
  <2> DEFINE D == {r \in stayed' : Alone(r)'} \ seen'
  <2>1. ASSUME progress' = "done", ~capped' PROVE Cardinality(D) <= left'
    <3>1. \A r \in stayed' : Rank(at', matches', r) < Front'
      <4> SUFFICES ASSUME NEW r \in stayed PROVE Rank(at, matches, r) < Front'
        OBVIOUS
      <4>1. /\ r \in matches /\ IsFiniteSet(matches) /\ \A q \in matches : at[q] \in Nat
            /\ Cardinality(matches) \in Nat /\ Rank(at, matches, r) \in Nat
        BY <1>t, TableFacts, RankIsNat DEF ListTypes
      <4>2. Rank(at, matches, r) < Cardinality(matches)
        BY <4>1, RankBelow
      <4>3. Front' \in Nat
        BY <2>1, ListingAssumption DEF ListTypes, Front
      <4> QED
        BY <2>1, <4>1, <4>2, <4>3
    <3>2. D \subseteq Missed'
      BY <2>1, <3>1 DEF Missed, Shown
    <3>3. Cardinality(D) <= Cardinality(Missed') /\ Cardinality(D) \in Nat
      BY <1>1, <3>2, NoMore
    <3> QED
      BY <1>1, <3>3
  <2>2. seen' \cap unreadable' = {}
    BY DEF Shown
  <2> QED
    BY <2>1, <2>2 DEF WalkComplete
<1> QED
  BY <1>1, <1>2, <1>3 DEF ListInv

\* The query for a page.
LEMMA PageStep == ListInv /\ Page => ListInv'
<1> SUFFICES ASSUME ListInv, Page PROVE ListInv'
    OBVIOUS
<1>t. ListTypes /\ progress = "page" /\ page = {} /\ Walking
  BY DEF ListInv, ListTypes, Page, Walking
<1>u. UNCHANGED <<at, matches, unreadable, stayed, came, left, capped>>
  BY DEF Page, table, others
<1>l. Limit \in Nat /\ offset \in Nat
  BY <1>t, TableFacts DEF ListTypes
<1>1. PICK rows \in Slice :
         \/ Refuses(rows) /\ progress' = "refused" /\ UNCHANGED <<offset, page, seen, repeated>>
         \/ /\ ~Refuses(rows) /\ progress' = "total" /\ page' = rows
            /\ UNCHANGED <<offset, seen, repeated>>
         \/ ~Refuses(rows) /\ Answers(rows, Cardinality(rows) = Limit)
  BY DEF Page
<1>2. CASE Refuses(rows) /\ progress' = "refused" /\ UNCHANGED <<offset, page, seen, repeated>>
  <2>1. unreadable # {}
    BY <1>2 DEF Refuses
  <2> QED
    BY <1>2, <1>u, <2>1, StopsStep
<1>3. ASSUME ~Refuses(rows),
             \/ /\ progress' = "total" /\ page' = rows
                /\ UNCHANGED <<offset, seen, repeated>>
             \/ Answers(rows, Cardinality(rows) = Limit)
      PROVE  ListInv'
  <2>1. rows \subseteq matches /\ (Cardinality(rows) # Limit => Cardinality(matches) <= offset + Limit)
    BY <1>t, LastSlice
  <2>2. /\ Shown' = seen \cup rows /\ Front' = offset + Limit
        /\ repeated' \cup (seen' \cap page') = repeated \cup (seen \cap rows)
        /\ progress' \in {"page", "total", "done"}
        /\ progress' = "done" => page' = {} /\ Cardinality(rows) # Limit
        /\ progress' = "page" => page' = {}
        /\ offset' \in Nat
    BY <1>3, <1>t, <1>l DEF Answers, Shown, Front
  <2>3. ListTypes'
    <3>1. seen' \cup page' \cup repeated' \subseteq RowsOf(at)
      BY <1>3, <2>1, <1>t DEF Answers, ListTypes
    <3> QED
      BY <3>1, <2>2, <1>u, <1>t DEF ListTypes
  <2>4. \A r \in matches : Alone(r) =>
           /\ Rank(at, matches, r) \in Nat
           /\ r \in rows <=> offset <= Rank(at, matches, r) /\ Rank(at, matches, r) < offset + Limit
    BY <1>t, TableFacts, RankIsNat, SliceByRank
  <2>5. Front = offset /\ Shown = seen /\ \A r : Alone(r)' = Alone(r)
    BY <1>t, <1>u DEF Front, Shown, Alone
  <2>6. Missed' \subseteq Missed
    <3> SUFFICES ASSUME NEW r \in Missed' PROVE r \in Missed
      OBVIOUS
    <3>1. r \in stayed /\ Alone(r) /\ r \notin seen \cup rows /\ Rank(at, matches, r) < offset + Limit
      BY <1>u, <2>2, <2>5 DEF Missed
    <3>2. Rank(at, matches, r) < offset
      BY <3>1, <2>4, <1>l, <1>t DEF ListTypes
    <3> QED
      BY <3>1, <3>2, <2>5 DEF Missed
  <2>7. Again' \subseteq Again
    <3> SUFFICES ASSUME NEW r \in Again' PROVE r \in Again
      OBVIOUS
    <3>1. /\ r \in RowsOf(at) /\ Alone(r)
          /\ \/ r \in repeated \/ r \in seen \cap rows
             \/ r \in matches \cap (seen \cup rows) /\ Rank(at, matches, r) >= offset + Limit
      <4>1. /\ r \in RowsOf(at') /\ Alone(r)'
            /\ \/ r \in repeated' \cup (seen' \cap page')
               \/ r \in matches' \cap Shown' /\ Rank(at', matches', r) >= Front'
        BY DEF Again
      <4> QED
        BY <4>1, <1>u, <2>2, <2>5
    <3>2. CASE r \in repeated
      BY <3>1, <3>2 DEF Again
    <3>3. CASE r \in seen \cap rows
      BY <3>1, <3>3, <2>1, <2>4, <2>5 DEF Again
    <3>4. CASE r \in matches \cap (seen \cup rows) /\ Rank(at, matches, r) >= offset + Limit
      <4>1. r \notin rows /\ Rank(at, matches, r) >= offset
        BY <3>1, <3>4, <2>4, <1>l
      <4> QED
        BY <3>1, <3>4, <4>1, <2>5 DEF Again
    <3> QED
      BY <3>1, <3>2, <3>3, <3>4
  <2>8. Shown' \cap unreadable' = {}
    BY <1>3, <2>2, <2>5, <1>u DEF ListInv, Refuses
  <2> QED
    BY <1>t, <1>u, <2>1, <2>2, <2>3, <2>6, <2>7, <2>8, WalkStep
<1> QED
  BY <1>1, <1>2, <1>3

\* The query that counts.
LEMMA TotalStep == ListInv /\ Total => ListInv'
<1> SUFFICES ASSUME ListInv, Total PROVE ListInv'
    OBVIOUS
<1>t. ListTypes /\ progress = "total" /\ Walking
  BY DEF ListInv, Total, Walking
<1>u. UNCHANGED <<at, matches, unreadable, stayed, came, left>>
  BY DEF Total, table, others
<1>l. Limit \in Nat /\ offset \in Nat /\ MaxTotal \in Nat /\ Cardinality(matches) \in Nat
  BY <1>t, TableFacts DEF ListTypes
<1>1. PICK rows \in FirstRows(MaxTotal) :
         \/ Refuses(rows) /\ progress' = "refused" /\ UNCHANGED <<offset, page, seen, capped, repeated>>
         \/ /\ Answers(page, offset + Limit < Cardinality(rows))
            /\ capped' = (progress' = "done" /\ Cardinality(rows) = MaxTotal)
  BY DEF Total
<1>2. CASE Refuses(rows) /\ progress' = "refused" /\ UNCHANGED <<offset, page, seen, capped, repeated>>
  <2>1. unreadable # {}
    BY <1>2 DEF Refuses
  <2> QED
    BY <1>2, <1>u, <2>1, StopsStep
<1>3. CASE /\ Answers(page, offset + Limit < Cardinality(rows))
           /\ capped' = (progress' = "done" /\ Cardinality(rows) = MaxTotal)
  <2>1. /\ Shown' = Shown /\ Front = offset + Limit /\ Front' = Front
        /\ repeated' \cup (seen' \cap page') = repeated \cup (seen \cap page)
        /\ progress' \in {"page", "total", "done"} /\ page' = {} /\ offset' \in Nat
        /\ progress' = "done" => ~(offset + Limit < Cardinality(rows))
    BY <1>3, <1>t, <1>l DEF Answers, Shown, Front
  <2>2. ListTypes'
    <3>1. seen' \cup page' \cup repeated' \subseteq RowsOf(at)
      BY <1>3, <1>t DEF Answers, ListTypes
    <3> QED
      BY <3>1, <2>1, <1>u, <1>t DEF ListTypes
  <2>3. \A r : Alone(r)' = Alone(r)
    BY <1>u DEF Alone
  <2>4. Missed' \subseteq Missed
    BY <2>1, <2>3, <1>u DEF Missed
  <2>5. Again' \subseteq Again
    <3> SUFFICES ASSUME NEW r \in Again' PROVE r \in Again
      OBVIOUS
    <3>1. /\ r \in RowsOf(at') /\ Alone(r)'
          /\ \/ r \in repeated' \cup (seen' \cap page')
             \/ r \in matches' \cap Shown' /\ Rank(at', matches', r) >= Front'
      BY DEF Again
    <3>2. /\ r \in RowsOf(at) /\ Alone(r)
          /\ \/ r \in repeated \cup (seen \cap page)
             \/ r \in matches \cap Shown /\ Rank(at, matches, r) >= Front
      BY <3>1, <1>u, <2>1, <2>3
    <3> QED
      BY <3>2 DEF Again
  <2>6. ASSUME progress' = "done", ~capped' PROVE Cardinality(matches) <= Front'
    <3>1. Cardinality(rows) = Smaller(MaxTotal, Cardinality(matches))
      BY DEF FirstRows
    <3>2. Cardinality(rows) # MaxTotal
      BY <1>3, <2>6
    <3> QED
      BY <2>1, <2>6, <3>1, <3>2, <1>l DEF Smaller
  <2>7. Shown' \cap unreadable' = {}
    BY <2>1, <1>u DEF ListInv
  <2> QED
    BY <1>t, <1>u, <2>1, <2>2, <2>4, <2>5, <2>6, <2>7, WalkStep
<1> QED
  BY <1>1, <1>2, <1>3

-----------------------------------------------------------------------------
\* What others do to the table leaves the walk as it is: a walk that has ended stays within
\* the counts, and one that goes on has the counts to keep.
LEMMA OthersStep ==
    ASSUME ListInv, ListTypes', UNCHANGED <<walk, unreadable>>,
           stayed' \subseteq stayed, left' >= left, came' >= came,
           \A r \in RowsOf(at) : Alone(r)' => Alone(r),
           Walking => Cardinality(Missed') <= left' /\ Cardinality(Again') <= came'
    PROVE  ListInv'
<1>t. /\ ListTypes /\ left \in Nat /\ came \in Nat /\ left' \in Nat /\ came' \in Nat
      /\ IsFiniteSet(RowsOf(at)) /\ stayed \subseteq RowsOf(at)
      /\ seen \subseteq RowsOf(at) /\ repeated \subseteq RowsOf(at)
  BY TableFacts DEF ListInv, ListTypes
<1>u. UNCHANGED <<progress, offset, page, seen, capped, repeated, unreadable>>
  BY DEF walk
<1>1. RepeatedOnlyMoved'
  <2> DEFINE R == {r \in repeated : Alone(r)}
             S == {r \in repeated' : Alone(r)'}
  <2>1. S \subseteq R /\ R \subseteq RowsOf(at)
    BY <1>t, <1>u
  <2>2. IsFiniteSet(R)
    BY <1>t, <2>1, NoMore
  <2>3. Cardinality(S) <= Cardinality(R) /\ Cardinality(S) \in Nat /\ Cardinality(R) \in Nat
    BY <2>1, <2>2, NoMore
  <2>4. Cardinality(R) <= came
    BY DEF ListInv, RepeatedOnlyMoved
  <2>5. Cardinality(S) <= came'
    BY <1>t, <2>3, <2>4
  <2> QED
    BY <2>5 DEF RepeatedOnlyMoved
<1>2. WalkComplete'
  <2> DEFINE D == {r \in stayed : Alone(r)} \ seen
             C == {r \in stayed' : Alone(r)'} \ seen'
  <2>1. ASSUME progress' = "done", ~capped' PROVE Cardinality(C) <= left'
    <3>1. C \subseteq D /\ D \subseteq RowsOf(at)
      BY <1>t, <1>u
    <3>2. IsFiniteSet(D)
      BY <1>t, <3>1, NoMore
    <3>3. Cardinality(C) <= Cardinality(D) /\ Cardinality(C) \in Nat /\ Cardinality(D) \in Nat
      BY <3>1, <3>2, NoMore
    <3>4. Cardinality(D) <= left
      BY <2>1, <1>u DEF ListInv, WalkComplete
    <3> QED
      BY <1>t, <3>3, <3>4
  <2>2. /\ progress' = "done" => seen' \cap unreadable' = {}
        /\ progress' = "refused" => unreadable' # {}
    BY <1>u DEF ListInv, WalkComplete
  <2> QED
    BY <2>1, <2>2 DEF WalkComplete
<1> QED
  BY <1>1, <1>2, <1>u DEF ListInv, Walking, Shown

\* A new row comes after all the others in the table.
LEMMA Inserted ==
    ASSUME ListTypes, NEW t \in Times, at' = Append(at, t),
           NEW x, x = Cardinality(RowsOf(at)) + 1
    PROVE  /\ at' \in Seq(Times) /\ RowsOf(at') = RowsOf(at) \cup {x} /\ x \notin RowsOf(at)
           /\ \A q \in RowsOf(at) : at'[q] = at[q]
<1>1. at \in Seq(Times) /\ RowsOf(at) = 1..Len(at) /\ Len(at) \in Nat /\ x = Len(at) + 1
  BY TableFacts DEF ListTypes
<1>2. /\ Append(at, t) \in Seq(Times) /\ Len(Append(at, t)) = Len(at) + 1
      /\ \A q \in 1..Len(at) : Append(at, t)[q] = at[q]
  BY <1>1
<1>3. RowsOf(at') = 1..(Len(at) + 1)
  BY <1>1, <1>2 DEF RowsOf
<1> QED
  BY <1>1, <1>2, <1>3

\* A row that keeps its timestamp for itself had it for itself.
LEMMA AloneBefore ==
    ASSUME RowsOf(at) \subseteq RowsOf(at'), \A q \in RowsOf(at) : at'[q] = at[q]
    PROVE  \A r \in RowsOf(at) : Alone(r)' => Alone(r)
  BY DEF Alone

\* A row enters the filter: of the rows that were shown only the one that goes over the
\* front, or the one that entered, will be shown again.
LEMMA EntryStep ==
    ASSUME ListInv, ListTypes', NEW x, x \notin matches, matches' = matches \cup {x},
           RowsOf(at') = RowsOf(at) \cup {x}, \A q \in RowsOf(at) : at'[q] = at[q],
           UNCHANGED <<walk, unreadable, stayed, left>>, came' = came + 1
    PROVE  ListInv'
<1>t. /\ ListTypes /\ left \in Nat /\ came \in Nat
      /\ matches \subseteq RowsOf(at) /\ IsFiniteSet(matches) /\ stayed \subseteq matches
      /\ Shown \subseteq RowsOf(at) /\ repeated \subseteq RowsOf(at)
      /\ \A r \in RowsOf(at) : at[r] \in Nat
      /\ Front \in Nat
  BY TableFacts DEF ListInv, ListTypes, Shown
<1>u. /\ Shown' = Shown /\ Front' = Front
      /\ UNCHANGED <<progress, offset, page, seen, capped, repeated, unreadable>>
  BY DEF walk, Shown, Front
<1>a. \A r \in RowsOf(at) : Alone(r)' => Alone(r)
  BY AloneBefore
<1>r. \A r \in RowsOf(at) :
         /\ Rank(at, matches, r) \in Nat
         /\ Rank(at', matches', r) = Rank(at, matches, r) + IF at'[x] > at[r] THEN 1 ELSE 0
  <2> SUFFICES ASSUME NEW r \in RowsOf(at)
               PROVE  /\ Rank(at, matches, r) \in Nat
                      /\ Rank(at', matches', r)
                            = Rank(at, matches, r) + IF at'[x] > at[r] THEN 1 ELSE 0
    OBVIOUS
  <2>1. Rank(at', matches', r) = Rank(at', matches, r) + IF at'[x] > at'[r] THEN 1 ELSE 0
    BY <1>t, RankAfterEntry
  <2>2. Rank(at', matches, r) = Rank(at, matches, r)
    <3>1. \A q \in matches \cup {r} : at'[q] = at[q]
      BY <1>t
    <3> QED
      BY <3>1, RankSame
  <2> QED
    BY <2>1, <2>2, <1>t, RankIsNat
<1>1. Missed' \subseteq Missed
  <2> SUFFICES ASSUME NEW r \in Missed' PROVE r \in Missed
    OBVIOUS
  <2>1. /\ r \in stayed /\ r \in RowsOf(at) /\ Alone(r) /\ r \notin Shown
        /\ Rank(at', matches', r) < Front
    BY <1>t, <1>u, <1>a DEF Missed
  <2>2. /\ Rank(at, matches, r) \in Nat /\ Rank(at', matches', r) \in Nat
        /\ Rank(at', matches', r) >= Rank(at, matches, r)
    <3>1. r \in RowsOf(at)
      BY <2>1
    <3>2. /\ Rank(at, matches, r) \in Nat
          /\ Rank(at', matches', r) = Rank(at, matches, r) + IF at'[x] > at[r] THEN 1 ELSE 0
      BY <3>1, <1>r
    <3> QED
      BY <3>2
  <2>3. Rank(at, matches, r) < Front
    BY <2>1, <2>2, <1>t
  <2> QED
    BY <2>1, <2>3 DEF Missed
<1>2. ASSUME NEW a \in Again' \ Again
      PROVE  /\ a \in Shown /\ a \in RowsOf(at) /\ Alone(a)
             /\ a = x => Rank(at, matches, x) >= Front
             /\ a # x => /\ a \in matches /\ Rank(at, matches, a) = Front - 1
                        /\ at'[x] > at[a]
  <2>1. /\ a \in RowsOf(at') /\ Alone(a)'
        /\ \/ a \in repeated \/ a \in seen \cap page
           \/ a \in matches' \cap Shown /\ Rank(at', matches', a) >= Front
    BY <1>2, <1>u DEF Again
  <2>2. a \in RowsOf(at) /\ Alone(a)
    BY <2>1, <1>t, <1>a DEF Shown
  <2>3. a \in matches' \cap Shown /\ Rank(at', matches', a) >= Front
    BY <2>1, <2>2, <1>2 DEF Again
  <2>4. ASSUME a = x PROVE Rank(at, matches, x) >= Front
    BY <2>2, <2>3, <2>4, <1>r, <1>t
  <2>5. ASSUME a # x
        PROVE  a \in matches /\ Rank(at, matches, a) = Front - 1 /\ at'[x] > at[a]
    <3>1. a \in matches /\ ~(Rank(at, matches, a) >= Front)
      BY <2>2, <2>3, <2>5, <1>2 DEF Again
    <3>2. Rank(at', matches', a) # Rank(at, matches, a)
      BY <2>3, <3>1
    <3> QED
      BY <2>2, <2>3, <3>1, <3>2, <1>r, <1>t
  <2> QED
    BY <2>2, <2>3, <2>4, <2>5
<1>3. ASSUME NEW a \in Again' \ Again, NEW b \in Again' \ Again PROVE a = b
  <2>1. CASE a # x /\ b # x
    <3>1. a \in matches /\ b \in matches /\ Alone(a)
          /\ Rank(at, matches, a) = Rank(at, matches, b)
      BY <2>1, <1>2
    <3> QED
      BY <3>1, <1>t, RankUnique
  <2>2. ASSUME NEW c \in Again' \ Again, c # x, x \in Again' \ Again PROVE FALSE
    <3>1. /\ x \in RowsOf(at) /\ Rank(at, matches, x) >= Front
          /\ c \in matches /\ c \in RowsOf(at) /\ Rank(at, matches, c) = Front - 1
          /\ at[x] > at[c]
      BY <2>2, <1>2
    <3>2. \A p \in matches \cup {x, c} : at[p] \in Nat
      BY <3>1, <1>t
    <3>3. Rank(at, matches, x) <= Rank(at, matches, c)
      BY <3>1, <3>2, <1>t, RankOrder
    <3> QED
      BY <3>1, <3>3, <1>t, <1>r
  <2> QED
    BY <2>1, <2>2
<1>4. ASSUME Walking PROVE Cardinality(Missed') <= left' /\ Cardinality(Again') <= came'
  <2>1. /\ IsFiniteSet(Missed) /\ IsFiniteSet(Again)
        /\ Cardinality(Missed) <= left /\ Cardinality(Again) <= came
    BY <1>t, <1>4, FiniteCounts DEF ListInv
  <2>2. Cardinality(Missed') <= Cardinality(Missed) /\ Cardinality(Missed) \in Nat
        /\ Cardinality(Missed') \in Nat
    BY <1>1, <2>1, NoMore
  <2>3. Cardinality(Again') <= Cardinality(Again) + 1 /\ Cardinality(Again) \in Nat
        /\ Cardinality(Again') \in Nat
    BY <1>3, <2>1, OneMore
  <2> QED
    BY <2>1, <2>2, <2>3, <1>t
<1> QED
  BY <1>4, <1>a, <1>t, OthersStep

\* A row that does not enter the filter changes nothing.
LEMMA OutsideStep ==
    ASSUME ListInv, ListTypes', NEW x,
           RowsOf(at') = RowsOf(at) \cup {x}, \A q \in RowsOf(at) : at'[q] = at[q],
           UNCHANGED <<walk, unreadable, matches, stayed, left, came>>
    PROVE  ListInv'
<1>t. /\ ListTypes /\ left \in Nat /\ came \in Nat
      /\ matches \subseteq RowsOf(at) /\ stayed \subseteq matches
      /\ Shown \subseteq RowsOf(at) /\ repeated \subseteq RowsOf(at)
      /\ IsFiniteSet(Missed) /\ IsFiniteSet(Again)
  BY FiniteCounts DEF ListInv, ListTypes, Shown
<1>u. /\ Shown' = Shown /\ Front' = Front
      /\ UNCHANGED <<progress, offset, page, seen, capped, repeated, unreadable>>
  BY DEF walk, Shown, Front
<1>a. \A r \in RowsOf(at) : Alone(r)' => Alone(r)
  BY AloneBefore
<1>r. ASSUME NEW r \in RowsOf(at) PROVE Rank(at', matches', r) = Rank(at, matches, r)
  <2>1. \A q \in matches \cup {r} : at'[q] = at[q]
    BY <1>t
  <2> QED
    BY <2>1, RankSame
<1>1. Missed' \subseteq Missed
  BY <1>t, <1>u, <1>a, <1>r DEF Missed
<1>2. Again' \subseteq Again
  <2> SUFFICES ASSUME NEW r \in Again' PROVE r \in Again
    OBVIOUS
  <2>1. /\ Alone(r)'
        /\ \/ r \in repeated \/ r \in seen \cap page
           \/ r \in matches \cap Shown /\ Rank(at', matches', r) >= Front
    BY <1>u DEF Again
  <2>2. r \in RowsOf(at)
    BY <2>1, <1>t DEF Shown
  <2> QED
    BY <2>1, <2>2, <1>a, <1>r DEF Again
<1>3. ASSUME Walking PROVE Cardinality(Missed') <= left' /\ Cardinality(Again') <= came'
  <2>1. Cardinality(Missed) <= left /\ Cardinality(Again) <= came
    BY <1>3 DEF ListInv
  <2>2. /\ Cardinality(Missed') <= Cardinality(Missed) /\ Cardinality(Missed') \in Nat
        /\ Cardinality(Again') <= Cardinality(Again) /\ Cardinality(Again') \in Nat
        /\ Cardinality(Missed) \in Nat /\ Cardinality(Again) \in Nat
    BY <1>t, <1>1, <1>2, NoMore
  <2> QED
    BY <2>1, <2>2, <1>t
<1> QED
  BY <1>3, <1>a, <1>t, OthersStep

\* A new row, in the filter or not.
LEMMA InsertStep == ListInv /\ Insert => ListInv'
<1> SUFFICES ASSUME ListInv, Insert PROVE ListInv'
    OBVIOUS
<1> DEFINE x == Cardinality(RowsOf(at)) + 1
<1>1. PICK t \in Times : at' = Append(at, t)
  BY DEF Insert
<1>u. UNCHANGED <<walk, unreadable, left, stayed>>
  BY DEF Insert
<1>t. ListTypes
  BY DEF ListInv
<1>2. /\ at' \in Seq(Times) /\ RowsOf(at') = RowsOf(at) \cup {x} /\ x \notin RowsOf(at)
      /\ \A q \in RowsOf(at) : at'[q] = at[q]
  BY <1>t, <1>1, Inserted
<1>3. \/ matches' = matches \cup {x} /\ came' = came + 1
      \/ UNCHANGED <<matches, came>>
  BY DEF Insert
<1> HIDE DEF x
<1>4. ListTypes' /\ x \notin matches
  BY <1>t, <1>u, <1>2, <1>3 DEF ListTypes, walk
<1>5. CASE matches' = matches \cup {x} /\ came' = came + 1
  BY <1>5, <1>u, <1>2, <1>4, EntryStep
<1>6. CASE UNCHANGED <<matches, came>>
  BY <1>6, <1>u, <1>2, <1>4, OutsideStep
<1> QED
  BY <1>3, <1>5, <1>6

\* A row that was there enters the filter.
LEMMA EnterStep == ListInv /\ Enter => ListInv'
<1> SUFFICES ASSUME ListInv, Enter PROVE ListInv'
    OBVIOUS
<1>1. PICK x \in RowsOf(at) \ matches : matches' = matches \cup {x}
  BY DEF Enter
<1>2. came' = came + 1 /\ UNCHANGED <<at, walk, unreadable, left, stayed>>
  BY DEF Enter
<1>3. ListTypes'
  BY <1>1, <1>2 DEF ListInv, ListTypes, walk, RowsOf
<1>4. RowsOf(at') = RowsOf(at) \cup {x} /\ \A q \in RowsOf(at) : at'[q] = at[q]
  BY <1>1, <1>2
<1> QED
  BY <1>1, <1>2, <1>3, <1>4, EntryStep

\* A row leaves the filter: only the one that comes under the front for it can be missed.
LEMMA LeaveStep == ListInv /\ Leave => ListInv'
<1> SUFFICES ASSUME ListInv, Leave PROVE ListInv'
    OBVIOUS
<1>1. PICK x \in matches : matches' = matches \ {x} /\ stayed' = stayed \ {x}
  BY DEF Leave
<1>2. left' = left + 1 /\ UNCHANGED <<at, walk, unreadable, came>>
  BY DEF Leave
<1>t. /\ ListTypes /\ left \in Nat /\ came \in Nat
      /\ matches \subseteq RowsOf(at) /\ IsFiniteSet(matches) /\ stayed \subseteq matches
      /\ Front \in Nat
      /\ IsFiniteSet(Missed) /\ IsFiniteSet(Again)
      /\ Cardinality(Missed) \in Nat /\ Cardinality(Again) \in Nat
  BY TableFacts, FiniteCounts DEF ListInv, ListTypes
<1>3. ListTypes'
  BY <1>1, <1>2, <1>t DEF ListTypes, walk
<1>u. /\ Shown' = Shown /\ Front' = Front /\ \A r : Alone(r)' = Alone(r)
      /\ UNCHANGED <<progress, offset, page, seen, capped, repeated, unreadable>>
  BY <1>2 DEF walk, Shown, Front, Alone, RowsOf
<1>r. \A r \in RowsOf(at) :
         /\ Rank(at', matches', r) \in Nat
         /\ Rank(at, matches, r) = Rank(at', matches', r) + IF at[x] > at[r] THEN 1 ELSE 0
  <2>1. IsFiniteSet(matches') /\ x \notin matches' /\ matches' \cup {x} = matches
    BY <1>1, <1>t, NoMore
  <2> QED
    BY <1>2, <2>1, RankIsNat, RankAfterEntry
<1>4. Again' \subseteq Again
  <2> SUFFICES ASSUME NEW r \in Again' PROVE r \in Again
    OBVIOUS
  <2>1. /\ r \in RowsOf(at) /\ Alone(r)
        /\ \/ r \in repeated \/ r \in seen \cap page
           \/ r \in matches \cap Shown /\ Rank(at', matches', r) >= Front
    BY <1>1, <1>2, <1>u DEF Again
  <2> QED
    BY <2>1, <1>r, <1>t DEF Again
<1>5. ASSUME NEW a \in Missed' \ Missed
      PROVE  a \in matches /\ Alone(a) /\ Rank(at, matches, a) = Front
  <2>1. a \in stayed /\ a \in RowsOf(at) /\ Alone(a) /\ a \notin Shown
        /\ Rank(at', matches', a) < Front
    BY <1>1, <1>5, <1>t, <1>u DEF Missed
  <2>2. ~(Rank(at, matches, a) < Front)
    BY <1>5, <2>1 DEF Missed
  <2> QED
    BY <2>1, <2>2, <1>r, <1>t
<1>6. ASSUME NEW a \in Missed' \ Missed, NEW b \in Missed' \ Missed PROVE a = b
  <2>1. /\ a \in matches /\ b \in matches /\ Alone(a)
        /\ Rank(at, matches, a) = Rank(at, matches, b)
    BY <1>5
  <2> QED
    BY <2>1, <1>t, RankUnique
<1>7. ASSUME Walking PROVE Cardinality(Missed') <= left' /\ Cardinality(Again') <= came'
  <2>1. Cardinality(Missed) <= left /\ Cardinality(Again) <= came
    BY <1>7 DEF ListInv
  <2>2. Cardinality(Missed') <= Cardinality(Missed) + 1 /\ Cardinality(Missed') \in Nat
    BY <1>6, <1>t, OneMore
  <2>3. Cardinality(Again') <= Cardinality(Again) /\ Cardinality(Again') \in Nat
    BY <1>4, <1>t, NoMore
  <2> QED
    BY <2>1, <2>2, <2>3, <1>2, <1>t
<1> QED
  BY <1>1, <1>2, <1>3, <1>7, <1>u, <1>t, OthersStep

\* The invariant holds however the moves of others fall between the queries of the walk.
THEOREM ListInvariant == ListSpec => []ListInv
<1>1. ListInv /\ [ListNext]_listVars => ListInv'
  <2> SUFFICES ASSUME ListInv, [ListNext]_listVars PROVE ListInv'
    OBVIOUS
  <2>1. CASE QueryFails
    BY <2>1, StopsStep DEF QueryFails, table, others
  <2>2. CASE StatsQuery \/ UNCHANGED listVars
    <3>1. UNCHANGED <<progress, offset, page, seen, capped, repeated, at, matches, unreadable,
                      stayed, came, left>>
      BY <2>2 DEF StatsQuery, listVars, table, others, walk
    <3>2. Missed' = Missed /\ Again' = Again
      BY <3>1 DEF Missed, Again, Shown, Front, Alone
    <3> QED
      BY <3>1, <3>2 DEF ListInv, ListTypes, Shown, Walking, WalkComplete, RepeatedOnlyMoved, Alone
  <2> QED
    BY <2>1, <2>2, PageStep, TotalStep, InsertStep, EnterStep, LeaveStep DEF ListNext
<1> QED
  BY <1>1, ListStart, PTL DEF ListSpec

\* A walk that ends misses at most one row for each that left the filter meanwhile.
THEOREM WalksAreComplete == ListSpec => []WalkComplete
<1>1. ListInv => WalkComplete
  BY DEF ListInv
<1> QED
  BY <1>1, ListInvariant, PTL

\* It shows at most one row twice for each that entered.
THEOREM RepeatsAreAccounted == ListSpec => []RepeatedOnlyMoved
<1>1. ListInv => RepeatedOnlyMoved
  BY DEF ListInv
<1> QED
  BY <1>1, ListInvariant, PTL

-----------------------------------------------------------------------------
(* The statistics *)

\* The numbers that the queries of get_dlq_stats have added up rise from the first query's
\* number of rows to the one of now, as no row is ever deleted.
StatsInv ==
    /\ at \in Seq(Times)
    /\ stats \in Seq(Nat)
    /\ stats # <<>> => first \in Nat
    /\ \A i \in 1..Len(stats) :
          first <= stats[i] /\ stats[i] <= Len(at) /\ \A j \in 1..i : stats[j] <= stats[i]

LEMMA StatsStart == ListInit => StatsInv
<1> SUFFICES ASSUME ListInit PROVE StatsInv
  OBVIOUS
<1>1. at \in Seq(Times)
  BY ListingAssumption DEF ListInit
<1> QED
  BY <1>1 DEF ListInit, StatsInv

\* A query of the statistics counts all rows there are.
LEMMA StatsQueryStep == StatsInv /\ StatsQuery => StatsInv'
<1> SUFFICES ASSUME StatsInv, StatsQuery PROVE StatsInv'
  OBVIOUS
<1> DEFINE n == Len(at)
<1>1. n \in Nat /\ Cardinality(RowsOf(at)) = n
  <2>1. at \in Seq(Times) /\ n \in Nat /\ RowsOf(at) = 1..n
    BY DEF StatsInv, RowsOf
  <2> QED
    BY <2>1, FS_Interval
<1>2. /\ stats \in Seq(Nat) /\ Len(stats) \in Nat /\ at' = at
      /\ stats' = Append(stats, n)
      /\ first' = IF stats = <<>> THEN n ELSE first
  BY <1>1 DEF StatsInv, StatsQuery, Counts, table
<1> HIDE DEF n
<1>3. /\ stats' \in Seq(Nat) /\ Len(stats') = Len(stats) + 1 /\ stats' # <<>>
      /\ stats'[Len(stats) + 1] = n
      /\ \A i \in 1..Len(stats) : stats'[i] = stats[i]
  BY <1>1, <1>2
<1>4. first' \in Nat /\ first' <= n /\ \A i \in 1..Len(stats) : first' <= stats[i] /\ stats[i] <= n
  <2>1. CASE stats = <<>>
    BY <1>1, <1>2, <2>1
  <2>2. CASE stats # <<>>
    <3>1. 1 \in 1..Len(stats) /\ stats[1] \in Nat
      BY <1>2, <2>2
    <3>2. first \in Nat /\ \A i \in 1..Len(stats) : first <= stats[i] /\ stats[i] <= n
      BY <2>2 DEF StatsInv, n
    <3> QED
      BY <1>1, <1>2, <2>2, <3>1, <3>2
  <2> QED
    BY <2>1, <2>2
<1>5. ASSUME NEW i \in 1..Len(stats')
      PROVE  first' <= stats'[i] /\ stats'[i] <= n /\ \A j \in 1..i : stats'[j] <= stats'[i]
  <2>1. CASE i = Len(stats) + 1
    BY <1>1, <1>2, <1>3, <1>4, <2>1
  <2>2. CASE i # Len(stats) + 1
    <3>1. i \in 1..Len(stats) /\ \A j \in 1..i : j \in 1..Len(stats)
      BY <1>2, <1>3, <2>2
    <3>2. \A j \in 1..i : stats[j] <= stats[i]
      BY <3>1 DEF StatsInv
    <3> QED
      BY <1>3, <1>4, <3>1, <3>2
  <2> QED
    BY <2>1, <2>2
<1> QED
  BY <1>2, <1>3, <1>4, <1>5 DEF StatsInv, n

LEMMA StatsInsertStep == StatsInv /\ Insert => StatsInv'
<1> SUFFICES ASSUME StatsInv, Insert PROVE StatsInv'
  OBVIOUS
<1>1. at \in Seq(Times) /\ Len(at) \in Nat /\ stats' = stats /\ first' = first
  BY DEF StatsInv, Insert, statistics
<1>2. at' \in Seq(Times) /\ Len(at') = Len(at) + 1
  BY <1>1 DEF Insert
<1>3. stats \in Seq(Nat) /\ \A i \in 1..Len(stats) : stats[i] \in Nat
  BY DEF StatsInv
<1> QED
  BY <1>1, <1>2, <1>3 DEF StatsInv

\* No breakdown of GET /dlq/stats falls short of its total, nor of the one before it
\* (get_dlq_stats), although each is a statement of its own.
THEOREM StatisticsAddUp == ListSpec => []StatsAddUp
<1>1. StatsInv => StatsAddUp
  <2> SUFFICES ASSUME StatsInv PROVE StatsAddUp
    OBVIOUS
  <2>1. Len(stats) \in Nat /\ DOMAIN stats = 1..Len(stats)
    BY DEF StatsInv
  <2>2. \A i \in 1..Len(stats) - 1 : i + 1 \in 1..Len(stats) /\ i \in 1..(i + 1)
    BY <2>1
  <2> QED
    BY <2>1, <2>2 DEF StatsInv, StatsAddUp
<1>2. StatsInv /\ [ListNext]_listVars => StatsInv'
  <2> SUFFICES ASSUME StatsInv, [ListNext]_listVars PROVE StatsInv'
    OBVIOUS
  <2>1. UNCHANGED <<at, statistics>> => StatsInv'
    BY DEF statistics, StatsInv
  <2>2. CASE Page \/ Total \/ QueryFails \/ Leave \/ Enter \/ UNCHANGED listVars
    BY <2>1, <2>2 DEF Page, Total, QueryFails, Leave, Enter, listVars, table
  <2> QED
    BY <2>2, StatsQueryStep, StatsInsertStep DEF ListNext
<1> QED
  BY <1>1, <1>2, StatsStart, PTL DEF ListSpec
=============================================================================
