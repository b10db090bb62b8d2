-------------------------- MODULE GdprErasureProofs --------------------------
(***************************************************************************)
(* What the erasure saga guarantees for any requests, any assignment to    *)
(* processes and any number of application writes.                         *)
(***************************************************************************)
EXTENDS GdprErasure, SequenceTheorems, TLAPS

Deciding == {"delete", "postgres", "restore"}

\* Nothing is newer than the application's last write; a request that may still
\* restore has something to restore; a request is answered when it ends.
Bounds ==
    /\ TypeOK
    /\ cassandra <= written
    /\ \A r \in Requests : backup[r] <= written /\ erased[r] <= written
    /\ \A r \in Requests : answer[r] # "none" => pc[r] = "ended"

\* The initial state is within the bounds.
LEMMA InitBounds == Init => Bounds
<1> USE GdprAssumption DEF GdprAssumption, None, Versions
<1>1. Init => TypeOK
  <2> SUFFICES ASSUME Init PROVE TypeOK
    OBVIOUS
  <2>1. \A S : <<>> \in Seq(S)
    OBVIOUS
  <2>2. feed \in Seq(Versions \cup {None})
    BY <2>1 DEF Init
  <2>3. raced \in BOOLEAN
    BY DEF Init
  <2> QED
    BY <2>2, <2>3 DEF Init, TypeOK
<1>2. Init => /\ cassandra <= written
              /\ \A r \in Requests : backup[r] <= written /\ erased[r] <= written
    BY DEF Init
<1>3. Init => \A r \in Requests : answer[r] # "none" => pc[r] = "ended"
    BY DEF Init
<1> QED
    BY <1>1, <1>2, <1>3 DEF Bounds

\* What a mutation of Cassandra's row leaves behind, without the sequence.
LEMMA WriteTypes ==
    ASSUME TypeOK, NEW v \in Versions, Writes(v)
    PROVE  /\ cassandra' = v
           /\ feed' \in Seq(Versions \cup {None})
           /\ remover' = {}
           /\ raced' \in BOOLEAN
BY DEF TypeOK, Writes, Mutate

\* What a delete of the Cassandra row leaves behind, without the sequence.
LEMMA RemoveTypes ==
    ASSUME TypeOK, NEW r \in Requests, Removes(r)
    PROVE  /\ cassandra' = None
           /\ feed' \in Seq(Versions \cup {None})
           /\ remover' = {r}
           /\ raced' = raced
BY DEF TypeOK, Removes, Mutate

\* The invariant of types and bounds survives every step.
LEMMA StepBounds == Bounds /\ [Next]_vars => Bounds'
<1> SUFFICES ASSUME Bounds, [Next]_vars PROVE Bounds'
    OBVIOUS
<1> USE GdprAssumption DEF GdprAssumption, Bounds, TypeOK, None, Versions
<1>1. ASSUME NEW r \in Requests, Backup(r) PROVE Bounds'
  <2>1. UNCHANGED <<cassandra, postgres, feed, written, audited,
                    remover, doubtful, erased, raced>>
    BY <1>1 DEF Backup
  <2>2. CASE backup' = [backup EXCEPT ![r] = cassandra] /\ Goto(r, "delete")
    <3>1. cassandra # None /\ UNCHANGED answer /\ answer[r] = "none"
      BY <1>1, <2>2 DEF Backup, Goto, Respond
    <3>2. overlapped' \subseteq Requests
      BY <1>1, <2>2 DEF Backup, Goto, Respond
    <3> QED
      BY <2>1, <2>2, <3>1, <3>2 DEF Goto
  <2>3. CASE UNCHANGED <<backup, overlapped>>
    BY <1>1, <2>1, <2>3 DEF Backup, Goto, Respond
  <2> QED
    BY <1>1, <2>2, <2>3 DEF Backup
<1>2. ASSUME NEW r \in Requests, DeleteCassandra(r) PROVE Bounds'
    BY <1>2, RemoveTypes DEF DeleteCassandra, Goto
<1>3. ASSUME NEW r \in Requests, DeleteCassandraRaises(r) PROVE Bounds'
    BY <1>3, RemoveTypes DEF DeleteCassandraRaises, Goto, Respond, Untouched
<1>4. ASSUME NEW r \in Requests, DeletePostgres(r) PROVE Bounds'
    BY <1>4 DEF DeletePostgres, Goto, history
<1>5. ASSUME NEW r \in Requests, DeletePostgresRaises(r) PROVE Bounds'
    BY <1>5 DEF DeletePostgresRaises, Goto, history
<1>6. ASSUME NEW r \in Requests, Restore(r) PROVE Bounds'
  <2>1. backup[r] \in Versions /\ backup[r] <= written
    BY <1>6 DEF Restore
  <2> QED
    BY <1>6, <2>1, WriteTypes DEF Restore, Goto, Respond
<1>7. ASSUME NEW r \in Requests, RestoreRaises(r) PROVE Bounds'
  <2>1. backup[r] \in Versions /\ backup[r] <= written
    BY <1>7 DEF RestoreRaises
  <2> QED
    BY <1>7, <2>1, WriteTypes DEF RestoreRaises, Goto, Respond, Untouched
<1>8. ASSUME NEW r \in Requests, Audit(r) PROVE Bounds'
    BY <1>8 DEF Audit, Goto, Respond, history
<1>9. ASSUME NEW p, Crash(p) PROVE Bounds'
    BY <1>9 DEF Crash, Running, history
<1>10. CASE ApplicationWrites
  <2>1. /\ written \in Nat /\ written' = written + 1 /\ written' \in Versions
        /\ Writes(written + 1)
        /\ UNCHANGED <<pc, backup, answer, postgres, audited, doubtful, erased, overlapped>>
    BY <1>10 DEF ApplicationWrites, saga
  <2>2. /\ cassandra' = written' /\ remover' = {} /\ raced' \in BOOLEAN
        /\ feed' \in Seq(Versions \cup {None})
    BY <2>1, WriteTypes
  <2>3. \A v \in 0..MaxVersions : v <= written => v <= written'
    BY <2>1
  <2> QED
    BY <2>1, <2>2, <2>3
<1>11. CASE Replicate
    BY <1>11 DEF Replicate, saga, history
<1>12. CASE UNCHANGED vars
    BY <1>12 DEF vars, saga, history
<1> QED
    BY <1>1, <1>2, <1>3, <1>4, <1>5, <1>6, <1>7, <1>8, <1>9, <1>10, <1>11, <1>12
    DEF Next, Step

\* Every step of a request, of the application and of the pipeline keeps the types; a request
\* that may still compensate has a backup to write.
THEOREM TypeCorrect == Spec => []TypeOK
<1>1. Bounds => TypeOK
  BY DEF Bounds
<1> QED
  BY <1>1, InitBounds, StepBounds, PTL DEF Spec

-----------------------------------------------------------------------------
(* A missing row is accounted for *)

Excused(r) ==
    \/ pc[r] \in {"postgres", "restore", "audit", "crashed"}
    \/ answer[r] = "success"
    \/ r \in doubtful

\* A step that leaves the row alone leaves its remover excused.
LEMMA StaysExcused ==
    ASSUME Bounds, Next, NEW q \in Requests, Excused(q), cassandra' = None, q \in remover'
    PROVE  Excused(q)'
<1> USE DEF Bounds, TypeOK, Excused
<1>1. ASSUME NEW r \in Requests, Backup(r) PROVE Excused(q)'
  <2>1. UNCHANGED doubtful /\ pc[r] = "new" /\ answer[r] = "none"
    BY <1>1 DEF Backup
  <2>2. \E a \in {"404", "500", "none"} : answer' = [answer EXCEPT ![r] = a]
    BY <1>1, <2>1 DEF Backup, Respond
  <2>3. \E l \in {"delete", "ended"} : pc' = [pc EXCEPT ![r] = l]
    BY <1>1 DEF Backup, Respond, Goto
  <2> QED
    BY <2>1, <2>2, <2>3
<1>2. ASSUME NEW r \in Requests, DeleteCassandra(r) PROVE Excused(q)'
    BY <1>2 DEF DeleteCassandra, Goto
<1>3. ASSUME NEW r \in Requests, DeleteCassandraRaises(r) PROVE Excused(q)'
    BY <1>3 DEF DeleteCassandraRaises, Respond, Goto
<1>4. ASSUME NEW r \in Requests, DeletePostgres(r) PROVE Excused(q)'
    BY <1>4 DEF DeletePostgres, Goto, history
<1>5. ASSUME NEW r \in Requests, DeletePostgresRaises(r) PROVE Excused(q)'
    BY <1>5 DEF DeletePostgresRaises, Goto, history
<1>6. ASSUME NEW r \in Requests, Restore(r) PROVE Excused(q)'
    BY <1>6 DEF Restore, Writes
<1>7. ASSUME NEW r \in Requests, RestoreRaises(r) PROVE Excused(q)'
    BY <1>7 DEF RestoreRaises, Respond, Goto
<1>8. ASSUME NEW r \in Requests, Audit(r) PROVE Excused(q)'
    BY <1>8 DEF Audit, Respond, Goto, history
<1>9. ASSUME NEW p, Crash(p) PROVE Excused(q)'
    BY <1>9 DEF Crash, Running, history
<1>10. CASE ApplicationWrites
    BY <1>10 DEF ApplicationWrites, Writes
<1>11. CASE Replicate
    BY <1>11 DEF Replicate, saga, history
<1> QED
    BY <1>1, <1>2, <1>3, <1>4, <1>5, <1>6, <1>7, <1>8, <1>9, <1>10, <1>11 DEF Next, Step

\* Whoever removes the row in a step is excused after it, and only a remover makes
\* the row disappear.
LEMMA RemoverExcused ==
    ASSUME Bounds, Next, cassandra' = None
    PROVE  \/ cassandra = None /\ remover' = remover
           \/ \E r \in Requests : remover' = {r} /\ Excused(r)'
<1> USE DEF Bounds, TypeOK
<1>1. ASSUME NEW r \in Requests, DeleteCassandra(r) PROVE remover' = {r} /\ Excused(r)'
    BY <1>1 DEF DeleteCassandra, Removes, Goto, Excused
<1>2. ASSUME NEW r \in Requests, DeleteCassandraRaises(r)
      PROVE  (remover' = {r} /\ Excused(r)') \/ (cassandra = None /\ remover' = remover)
    BY <1>2 DEF DeleteCassandraRaises, Removes, Untouched, Excused
<1>3. ASSUME NEW r \in Requests, Restore(r) PROVE FALSE
    BY <1>3 DEF Restore, Writes, Mutate
<1>4. ASSUME NEW r \in Requests, RestoreRaises(r) PROVE cassandra = None /\ remover' = remover
    BY <1>4 DEF RestoreRaises, Writes, Mutate, Untouched
<1>5. CASE ApplicationWrites
    BY <1>5 DEF ApplicationWrites, Writes, Mutate, None, Versions
<1>6. ASSUME NEW r \in Requests,
             Backup(r) \/ DeletePostgres(r) \/ DeletePostgresRaises(r) \/ Audit(r)
      PROVE  cassandra = None /\ remover' = remover
    BY <1>6 DEF Backup, DeletePostgres, DeletePostgresRaises, Audit, history
<1>7. ASSUME NEW p, Crash(p) PROVE cassandra = None /\ remover' = remover
    BY <1>7 DEF Crash, history
<1>8. CASE Replicate
    BY <1>8 DEF Replicate, history
<1> QED
    BY <1>1, <1>2, <1>3, <1>4, <1>5, <1>6, <1>7, <1>8 DEF Next, Step

\* A failed erasure gives the row back: Cassandra's row is missing only on account of a
\* request that is at work, succeeded, crashed or had a Cassandra write that raised.
THEOREM RemovalAccounted == Spec => []AccountedRemoval
<1> DEFINE Inv == Bounds /\ AccountedRemoval
<1>1. Init => Inv
  <2>1. Init => cassandra # None
    BY DEF Init, None
  <2> QED
    BY <2>1, InitBounds DEF AccountedRemoval
<1>2. Inv /\ [Next]_vars => Inv'
  <2> SUFFICES ASSUME Inv, [Next]_vars PROVE AccountedRemoval'
    BY StepBounds
  <2>1. CASE UNCHANGED vars
    BY <2>1 DEF vars, saga, history, AccountedRemoval
  <2>2. CASE Next
    <3> SUFFICES ASSUME cassandra' = None PROVE \E r \in remover' : Excused(r)'
      BY DEF AccountedRemoval, Excused
    <3>1. CASE cassandra = None /\ remover' = remover
      <4>1. PICK q \in remover : Excused(q)
        BY <3>1 DEF AccountedRemoval, Excused
      <4>2. q \in Requests
        BY <4>1 DEF Bounds, TypeOK
      <4> QED
        BY <2>2, <3>1, <4>1, <4>2, StaysExcused
    <3> QED
      BY <2>2, <3>1, RemoverExcused
  <2> QED
    BY <2>1, <2>2
<1>3. Inv => AccountedRemoval
    OBVIOUS
<1> QED
    BY <1>1, <1>2, <1>3, PTL DEF Spec

-----------------------------------------------------------------------------
(* A success is for good *)

\* Requests that run at the same time are marked.
Marked ==
    \A q, r \in Requests : q # r /\ Running(q) /\ Running(r) => q \in overlapped

Past(r) == pc[r] \in {"postgres", "restore", "audit"} \/ answer[r] = "success"

\* What the row holds once r has deleted it is newer than what r deleted, and so is
\* every backup a request still at work has taken after r's success.
Gone(r) ==
    /\ cassandra = None \/ cassandra > erased[r]
    /\ answer[r] = "success" =>
          \A q \in Requests : pc[q] \in Deciding => backup[q] > erased[r]

GoodInv == Bounds /\ Marked /\ \A r \in Requests \ overlapped : Past(r) => Gone(r)

\* Every step, a crash included, keeps requests that run at the same time marked.
LEMMA StepMarked == Bounds /\ Marked /\ [Next]_vars => Marked'
<1> SUFFICES ASSUME Bounds, Marked, [Next]_vars PROVE Marked'
    OBVIOUS
<1> USE DEF Bounds, TypeOK, Marked, Running
<1>1. ASSUME NEW r \in Requests, Backup(r) PROVE Marked'
  <2>1. CASE Goto(r, "delete") /\ overlapped' = overlapped \cup
                (LET others == {q \in Requests : Running(q)}
                 IN  IF others = {} THEN {} ELSE others \cup {r})
    <3>1. \A q \in Requests : q # r /\ Running(q) => {q, r} \subseteq overlapped'
      BY <2>1
    <3> QED
      BY <2>1, <3>1 DEF Goto
  <2>2. CASE pc' = [pc EXCEPT ![r] = "ended"] /\ UNCHANGED overlapped
    BY <2>2
  <2> QED
    BY <1>1, <2>1, <2>2 DEF Backup, Respond, Goto
<1>2. ASSUME NEW r \in Requests, Running(r),
             NEW l \in STRING, pc' = [pc EXCEPT ![r] = l], UNCHANGED overlapped
      PROVE  Marked'
    BY <1>2
<1>3. ASSUME NEW r \in Requests,
             \/ DeleteCassandra(r) \/ DeleteCassandraRaises(r) \/ DeletePostgres(r)
             \/ DeletePostgresRaises(r) \/ Restore(r) \/ RestoreRaises(r) \/ Audit(r)
      PROVE  Marked'
    BY <1>2, <1>3 DEF DeleteCassandra, DeleteCassandraRaises, DeletePostgres,
          DeletePostgresRaises, Restore, RestoreRaises, Audit, Respond, Goto, history
<1>4. ASSUME NEW p, Crash(p) PROVE Marked'
    BY <1>4 DEF Crash, history
<1>5. CASE ApplicationWrites \/ Replicate \/ UNCHANGED vars
    BY <1>5 DEF ApplicationWrites, Replicate, saga, history, vars
<1> QED
    BY <1>1, <1>3, <1>4, <1>5 DEF Next, Step

\* Every step keeps what an undisturbed success has erased out of the stores and out
\* of the backups that could still be written back.
LEMMA StepGood == GoodInv /\ [Next]_vars => GoodInv'
<1> SUFFICES ASSUME GoodInv, [Next]_vars,
                    NEW r \in Requests, r \notin overlapped', Past(r)'
             PROVE  Gone(r)'
    BY StepBounds, StepMarked DEF GoodInv
<1> USE DEF GoodInv, Bounds, TypeOK, Past, Gone
<1>0. overlapped \subseteq overlapped'
    BY DEF Next, Step, Backup, DeleteCassandra, DeleteCassandraRaises, DeletePostgres,
       DeletePostgresRaises, Restore, RestoreRaises, Audit, Crash, ApplicationWrites,
       Replicate, vars, history
<1>1. ASSUME NEW q \in Requests, Backup(q) PROVE Gone(r)'
  <2>1. pc[q] = "new" /\ answer[q] = "none" /\ UNCHANGED <<cassandra, erased>>
    BY <1>1 DEF Backup
  <2>2. r # q /\ answer'[r] = answer[r] /\ Past(r)
    BY <1>1, <2>1 DEF Backup, Respond, Goto
  <2>3. CASE cassandra # None /\ backup' = [backup EXCEPT ![q] = cassandra] /\ Goto(q, "delete")
    BY <1>0, <2>1, <2>2, <2>3 DEF Goto, Deciding
  <2>4. CASE pc' = [pc EXCEPT ![q] = "ended"] /\ UNCHANGED backup
    BY <1>0, <2>1, <2>2, <2>4 DEF Deciding
  <2> QED
    BY <1>1, <2>3, <2>4 DEF Backup, Respond, Goto
<1>2. ASSUME NEW q \in Requests, DeleteCassandra(q) PROVE Gone(r)'
    BY <1>0, <1>2 DEF DeleteCassandra, Removes, Mutate, Goto, Deciding
<1>3. ASSUME NEW q \in Requests, DeleteCassandraRaises(q) PROVE Gone(r)'
    BY <1>0, <1>3 DEF DeleteCassandraRaises, Removes, Mutate, Untouched, Respond, Goto, Deciding
<1>4. ASSUME NEW q \in Requests, DeletePostgres(q) \/ DeletePostgresRaises(q) PROVE Gone(r)'
    BY <1>0, <1>4 DEF DeletePostgres, DeletePostgresRaises, Goto, Deciding, history
<1>5. ASSUME NEW q \in Requests, Restore(q) \/ RestoreRaises(q) PROVE Gone(r)'
  <2>1. pc[q] = "restore" /\ pc' = [pc EXCEPT ![q] = "ended"]
        /\ answer' = [answer EXCEPT ![q] = "500"] /\ UNCHANGED <<backup, erased>>
        /\ cassandra' \in {cassandra, backup[q]}
    BY <1>5 DEF Restore, RestoreRaises, Writes, Mutate, Untouched, Respond, Goto
  <2>2. r # q /\ Past(r)
    BY <2>1
  <2>3. answer[r] = "success"
    BY <1>0, <2>1, <2>2 DEF Marked, Running
  <2>4. backup[q] > erased[r]
    BY <1>0, <2>1, <2>2, <2>3 DEF Deciding
  <2> QED
    BY <1>0, <2>1, <2>2, <2>3, <2>4 DEF Deciding
<1>6. ASSUME NEW q \in Requests, Audit(q) PROVE Gone(r)'
  <2>1. pc[q] = "audit" /\ pc' = [pc EXCEPT ![q] = "ended"]
        /\ answer' = [answer EXCEPT ![q] = "success"]
        /\ UNCHANGED <<cassandra, backup, erased, overlapped>>
    BY <1>6 DEF Audit, Respond, Goto, history
  <2>2. CASE r = q
    BY <2>1, <2>2 DEF Marked, Running, Deciding
  <2>3. CASE r # q
    BY <2>1, <2>3 DEF Deciding
  <2> QED
    BY <2>2, <2>3
<1>7. ASSUME NEW p, Crash(p) PROVE Gone(r)'
    BY <1>0, <1>7 DEF Crash, Running, Deciding, history
<1>8. CASE ApplicationWrites
  <2>1. cassandra' = written + 1 /\ UNCHANGED <<pc, answer, backup, erased>>
    BY <1>8 DEF ApplicationWrites, Writes, Mutate, saga
  <2> QED
    BY <1>0, <2>1 DEF Versions, None, Deciding
<1>9. CASE Replicate \/ UNCHANGED vars
    BY <1>9 DEF Replicate, saga, history, vars, Deciding
<1> QED
    BY <1>1, <1>2, <1>3, <1>4, <1>5, <1>6, <1>7, <1>8, <1>9 DEF Next, Step

\* Nothing a request erased with success is in Cassandra again, whatever fails, is
\* compensated or is written later, unless another request ran beside it.
THEOREM SuccessIsForGood == Spec => []ErasedForGood
<1>1. Init => GoodInv
    BY InitBounds DEF Init, GoodInv, Marked, Running, Past
<1>2. GoodInv /\ [Next]_vars => GoodInv'
    BY StepGood
<1>3. GoodInv => ErasedForGood
    BY DEF GoodInv, Past, Gone, ErasedForGood
<1> QED
    BY <1>1, <1>2, <1>3, PTL DEF Spec

-----------------------------------------------------------------------------
(* The pipeline catches up *)

\* The last change in the feed is the row; a row that some PostgreSQL delete is about
\* to miss was written in a race.
FeedInv ==
    /\ Bounds
    /\ feed # <<>> => feed[Len(feed)] = cassandra
    /\ \A r \in Requests : pc[r] = "postgres" /\ cassandra # None => raced
    /\ CaughtUp

\* Appending to a sequence makes the new value its last.
LEMMA AppendLast ==
    ASSUME NEW S, NEW f \in Seq(S), NEW v \in S
    PROVE  Append(f, v) # <<>> /\ Append(f, v)[Len(Append(f, v))] = v
OBVIOUS

\* Taking the head off a sequence that is longer than one keeps its last value.
LEMMA TailLast ==
    ASSUME NEW S, NEW f \in Seq(S), f # <<>>
    PROVE  /\ Tail(f) = <<>> => f[Len(f)] = Head(f)
           /\ Tail(f) # <<>> => Tail(f)[Len(Tail(f))] = f[Len(f)]
<1>1. /\ Len(f) \in Nat \ {0} /\ Head(f) = f[1]
      /\ Tail(f) \in Seq(S) /\ Len(Tail(f)) = Len(f) - 1
      /\ \A i \in 1..Len(Tail(f)) : Tail(f)[i] = f[i + 1]
  BY EmptySeq, HeadTailProperties
<1>2. Tail(f) = <<>> => Len(f) = 1
  BY <1>1, EmptySeq
<1>3. Tail(f) # <<>> => Len(Tail(f)) \in 1..Len(Tail(f)) /\ Len(Tail(f)) + 1 = Len(f)
  BY <1>1, EmptySeq
<1> QED
  BY <1>1, <1>2, <1>3

\* Every step keeps the last change of the feed equal to the Cassandra row.
LEMMA StepFeed == FeedInv /\ [Next]_vars => FeedInv'
<1> SUFFICES ASSUME FeedInv, [Next]_vars PROVE FeedInv'
    OBVIOUS
<1>0. Bounds'
    BY StepBounds DEF FeedInv
<1> USE <1>0 DEF FeedInv, Bounds, TypeOK, CaughtUp
<1>1. ASSUME NEW r \in Requests, Removes(r), \A q \in Requests : pc'[q] = "postgres" => q = r \/ pc[q] = "postgres"
      PROVE  FeedInv'
    BY <1>1, AppendLast DEF Removes, Mutate
<1>2. ASSUME NEW v \in Versions, Writes(v), \A q \in Requests : pc'[q] = "postgres" => pc[q] = "postgres"
      PROVE  FeedInv'
  <2>1. feed' # <<>> /\ feed'[Len(feed')] = cassandra'
    <3>1. cassandra' = v /\ feed' = Append(feed, v)
      BY <1>2 DEF Writes, Mutate
    <3>2. feed \in Seq(Versions \cup {None}) /\ v \in Versions \cup {None}
      OBVIOUS
    <3> QED
      BY <3>1, <3>2, AppendLast
  <2>2. \A q \in Requests : pc'[q] = "postgres" => raced'
    <3>1. raced' = (raced \/ \E q \in Requests : pc[q] = "postgres")
      BY <1>2 DEF Writes
    <3> QED
      BY <1>2, <3>1, Zenon
  <2> QED
    BY <2>1, <2>2
<1>3. ASSUME UNCHANGED <<cassandra, feed, raced>>,
             \A q \in Requests : pc'[q] = "postgres" => pc[q] = "postgres",
             postgres' = postgres \/ (postgres' = None /\ \E q \in Requests : pc[q] = "postgres")
      PROVE  FeedInv'
    BY <1>3
<1>4. ASSUME NEW r \in Requests, DeleteCassandra(r) \/ DeleteCassandraRaises(r) PROVE FeedInv'
    BY <1>1, <1>3, <1>4 DEF DeleteCassandra, DeleteCassandraRaises, Untouched, Respond, Goto
<1>5. ASSUME NEW r \in Requests, DeletePostgres(r) \/ DeletePostgresRaises(r) PROVE FeedInv'
    BY <1>3, <1>5 DEF DeletePostgres, DeletePostgresRaises, Goto, history
<1>6. ASSUME NEW r \in Requests, Restore(r) \/ RestoreRaises(r) PROVE FeedInv'
  <2>1. backup[r] \in Versions
    BY <1>6 DEF Restore, RestoreRaises, Versions, None
  <2> QED
    BY <1>2, <1>3, <1>6, <2>1 DEF Restore, RestoreRaises, Untouched, Respond, Goto
<1>7. ASSUME NEW r \in Requests, Backup(r) \/ Audit(r) PROVE FeedInv'
    BY <1>3, <1>7 DEF Backup, Audit, Respond, Goto, history
<1>8. ASSUME NEW p, Crash(p) PROVE FeedInv'
    BY <1>3, <1>8 DEF Crash, history
<1>9. CASE ApplicationWrites
    BY <1>2, <1>9 DEF ApplicationWrites, Versions, saga
<1>10. CASE Replicate
    BY <1>10, TailLast DEF Replicate, saga, history
<1>11. CASE UNCHANGED vars
    BY <1>11 DEF vars, saga, history
<1> QED
    BY <1>4, <1>5, <1>6, <1>7, <1>8, <1>9, <1>10, <1>11 DEF Next, Step

\* Whenever the pipeline has nothing left to apply, PostgreSQL holds what Cassandra
\* holds, or has lost a row written between the two deletes of a request.
THEOREM PipelineCatchesUp == Spec => []CaughtUp
<1>1. Init => FeedInv
    BY InitBounds DEF Init, FeedInv, CaughtUp
<1>2. FeedInv /\ [Next]_vars => FeedInv'
    BY StepFeed
<1>3. FeedInv => CaughtUp
    BY DEF FeedInv
<1> QED
    BY <1>1, <1>2, <1>3, PTL DEF Spec
=============================================================================
