------------------------ MODULE ReconciliationProofs ------------------------
(***************************************************************************)
(* The checksum validation for any table, sample size and number of        *)
(* writes, validations and lost connections: what it reports and why, and  *)
(* which job it leaves.  Then the runs of the scheduler and of the trigger *)
(* route, for any runs, tables, counts and number of outages: which job    *)
(* and which alert each leaves, and what the trigger answers.              *)
(***************************************************************************)
EXTENDS ChecksumValidation, Reconciliation, FiniteSetTheorems, WellFoundedInduction, TLAPS

Change == [key : Keys, row : Nat]

Types ==
    /\ setup \in [persists : BOOLEAN, jsonable : BOOLEAN, exists : BOOLEAN, metadata : BOOLEAN]
    /\ cassandra \in [Keys -> Nat] /\ postgres \in [Keys -> Nat]
    /\ held \in [Keys -> SUBSET Nat]
    /\ feed \in Seq(Change)
    /\ writes \in Nat /\ runs \in Nat
    /\ pc \in {"idle", "count", "select", "compare", "handler", "outer"}
    /\ strategy \in {"CHECKSUM", "TIMESTAMP_RANGE"}
    /\ broken \in BOOLEAN

\* While a validation runs, its histories know what PostgreSQL holds and that it agrees
\* with Cassandra wherever nothing has happened.
HistoryInv ==
    pc # "idle" =>
       \A k \in Keys : /\ postgres[k] \in held[k]
                       /\ k \notin unsettled => ~Behind(k)

\* The sample consists of rows that Cassandra had, and still has where nothing has happened.
SampleInv ==
    /\ DOMAIN sample \subseteq Keys /\ todo \subseteq DOMAIN sample
    /\ \A k \in DOMAIN sample :
          /\ sample[k] # 0
          /\ pc # "idle" /\ k \notin unsettled => sample[k] = cassandra[k]

\* What has been compared was in PostgreSQL or is reported.
ReportInv ==
    /\ \A k \in Compared : sample[k] \in held[k] \/ \E m \in found : m.key = k
    /\ pc = "idle" /\ last.ended = "returned" => todo = {}

\* Until its validation ends a job says nothing, unless the connection is gone.
JobsInv ==
    /\ \A j \in jobs : j.run \in Nat /\ j.run <= runs
    /\ pc \in {"count", "select", "compare"} => \A j \in jobs : j.run # runs
    /\ pc = "handler" => ~Latest("FAILED") /\ (Latest("COMPLETED") => broken)

CheckInv ==
    /\ Types
    /\ HistoryInv /\ SampleInv /\ MismatchHasReason /\ ReportInv
    /\ JobsInv /\ EveryRunTold

LEMMA CheckInit == Init => CheckInv
<1>. SUFFICES ASSUME Init PROVE CheckInv
  OBVIOUS
<1>1. DOMAIN sample = {} /\ found = {} /\ jobs = {} /\ todo = {} /\ pc = "idle"
  BY DEF Init, Nothing
<1>2. Types
  <2>1. setup \in [persists : BOOLEAN, jsonable : BOOLEAN, exists : BOOLEAN, metadata : BOOLEAN]
    BY DEF Init
  <2>2. /\ cassandra \in [Keys -> Nat] /\ postgres \in [Keys -> Nat]
        /\ held \in [Keys -> SUBSET Nat]
    BY DEF Init
  <2>3. /\ feed \in Seq(Change) /\ writes \in Nat /\ runs \in Nat /\ pc = "idle"
        /\ strategy = "CHECKSUM" /\ broken = FALSE
    BY DEF Init
  <2>. QED
    BY <2>1, <2>2, <2>3 DEF Types
<1>3. HistoryInv /\ SampleInv /\ MismatchHasReason
  BY <1>1 DEF HistoryInv, SampleInv, MismatchHasReason
<1>4. ReportInv
  BY <1>1 DEF ReportInv, Compared
<1>5. JobsInv /\ EveryRunTold
  BY <1>1 DEF Init, NoRun, JobsInv, EveryRunTold, Latest
<1>. QED
  BY <1>2, <1>3, <1>4, <1>5 DEF CheckInv

-----------------------------------------------------------------------------
(* The tables change: nothing of the validation does but its histories. *)

\* What is known of the jobs and of the comparison needs neither table.
LEMMA WorkKeeps ==
    ASSUME CheckInv, UNCHANGED <<setup, pc, work, runs, jobs, broken, last>>
    PROVE  JobsInv' /\ EveryRunTold'
BY DEF CheckInv, work, JobsInv, EveryRunTold, Latest, Compared

\* The histories only grow.
LEMMA GrowingKeeps ==
    ASSUME CheckInv, UNCHANGED <<setup, pc, work, last>>,
           unsettled \subseteq unsettled', \A k \in Keys : held[k] \subseteq held'[k]
    PROVE  MismatchHasReason' /\ ReportInv'
<1>1. MismatchHasReason'
  BY DEF CheckInv, work, MismatchHasReason
<1>2. Compared' = Compared /\ Compared \subseteq Keys
  BY DEF CheckInv, work, Compared, SampleInv
<1>3. ReportInv'
  BY <1>2 DEF CheckInv, work, ReportInv
<1>. QED
  BY <1>1, <1>3

LEMMA WriteStep ==
    ASSUME CheckInv, NEW k \in Keys, Write(k)
    PROVE  CheckInv'
<1>. USE DEF CheckInv, Types
<1>1. PICK row \in {0, writes'} :
         /\ cassandra' = [cassandra EXCEPT ![k] = row]
         /\ feed' = Append(feed, [key |-> k, row |-> row])
  BY DEF Write
<1>2. /\ writes' = writes + 1
      /\ unsettled' = IF pc = "idle" THEN unsettled ELSE unsettled \cup {k}
      /\ UNCHANGED <<setup, postgres, held, pc, work, runs, jobs, connection, last>>
  BY DEF Write, Changes
<1>3. row \in Nat /\ [key |-> k, row |-> row] \in Change
  BY <1>1, <1>2 DEF Change
<1>4. Types'
  BY <1>1, <1>2, <1>3 DEF work, connection
<1>5. ASSUME NEW q \in Keys \ {k}, Behind(q)'
      PROVE  Behind(q)
  <2>1. CASE postgres'[q] # cassandra'[q]
    BY <1>1, <1>2, <2>1 DEF Behind
  <2>2. CASE \E i \in DOMAIN feed' : feed'[i].key = q
    <3>1. PICK i \in DOMAIN feed' : feed'[i].key = q
      BY <2>2
    <3>2. i \in DOMAIN feed /\ feed'[i] = feed[i]
      BY <3>1, <1>1, <1>3
    <3>. QED
      BY <3>1, <3>2 DEF Behind
  <2>. QED
    BY <1>5, <2>1, <2>2 DEF Behind
<1>6. HistoryInv'
  BY <1>2, <1>5 DEF HistoryInv
<1>7. SampleInv'
  BY <1>1, <1>2 DEF SampleInv, work
<1>. QED
  BY <1>2, <1>4, <1>6, <1>7, WorkKeeps, GrowingKeeps DEF connection

LEMMA ModifyStep ==
    ASSUME CheckInv, NEW k \in Keys, Modify(k)
    PROVE  CheckInv'
<1>. USE DEF CheckInv, Types
<1>1. PICK row \in {0, writes'} :
         /\ postgres' = [postgres EXCEPT ![k] = row]
         /\ held' = IF pc = "idle" THEN held ELSE [held EXCEPT ![k] = @ \cup {row}]
  BY DEF Modify, Puts
<1>2. /\ writes' = writes + 1
      /\ unsettled' = IF pc = "idle" THEN unsettled ELSE unsettled \cup {k}
      /\ UNCHANGED <<setup, cassandra, feed, pc, work, runs, jobs, connection, last>>
  BY DEF Modify, Changes
<1>3. row \in Nat
  BY <1>1, <1>2
<1>4. Types'
  BY <1>1, <1>2, <1>3 DEF work, connection
<1>5. HistoryInv'
  BY <1>1, <1>2 DEF HistoryInv, Behind
<1>6. SampleInv'
  BY <1>2 DEF SampleInv, work
<1>7. \A q \in Keys : held[q] \subseteq held'[q]
  BY <1>1
<1>. QED
  BY <1>2, <1>4, <1>5, <1>6, <1>7, WorkKeeps, GrowingKeeps DEF connection

LEMMA ApplyStep ==
    ASSUME CheckInv, Apply
    PROVE  CheckInv'
<1>. USE DEF CheckInv, Types
<1>. DEFINE k == feed[1].key
            row == feed[1].row
<1>1. feed # <<>> /\ 1 \in DOMAIN feed /\ feed[1] \in Change /\ Head(feed) = feed[1]
  BY DEF Apply
<1>2. k \in Keys /\ row \in Nat
  BY <1>1 DEF Change
<1>3. /\ postgres' = [postgres EXCEPT ![k] = row]
      /\ held' = IF pc = "idle" THEN held ELSE [held EXCEPT ![k] = @ \cup {row}]
      /\ feed' = Tail(feed)
      /\ UNCHANGED <<setup, cassandra, writes, unsettled, pc, work, runs, jobs, connection, last>>
  BY <1>1 DEF Apply, Puts
<1>4. Types'
  BY <1>1, <1>2, <1>3 DEF work, connection
<1>5. ASSUME NEW i \in DOMAIN feed'
      PROVE  \E j \in DOMAIN feed : feed[j] = feed'[i]
  <2>1. i + 1 \in DOMAIN feed /\ feed'[i] = feed[i + 1]
    BY <1>1, <1>3
  <2>. QED
    BY <2>1
<1>6. HistoryInv'
  <2>. SUFFICES ASSUME pc # "idle", NEW q \in Keys
                PROVE  postgres'[q] \in held'[q] /\ (q \notin unsettled => ~Behind(q)')
    BY <1>3 DEF HistoryInv
  <2>1. postgres'[q] \in held'[q]
    BY <1>2, <1>3 DEF HistoryInv
  <2>2. Behind(k)
    BY <1>1 DEF Behind
  <2>3. ASSUME q \notin unsettled PROVE ~Behind(q)'
    BY <1>2, <1>3, <1>5, <2>2, <2>3 DEF HistoryInv, Behind
  <2>. QED
    BY <2>1, <2>3
<1>7. SampleInv'
  BY <1>3 DEF SampleInv, work
<1>8. \A q \in Keys : held[q] \subseteq held'[q]
  BY <1>2, <1>3
<1>. QED
  BY <1>3, <1>4, <1>6, <1>7, <1>8, WorkKeeps, GrowingKeeps DEF connection

-----------------------------------------------------------------------------
(* The steps of a validation: the tables stay, the work goes on. *)

\* The tables and their histories are what they were, and so is the sample.
LEMMA TablesKeep ==
    ASSUME CheckInv, pc # "idle", UNCHANGED <<setup, data, sample, writes, runs>>,
           todo' \subseteq todo,
           pc' \in {"idle", "count", "select", "compare", "handler", "outer"},
           strategy' = strategy, broken' \in BOOLEAN
    PROVE  Types' /\ HistoryInv' /\ SampleInv'
<1>1. Types'
  BY DEF CheckInv, Types, data
<1>2. HistoryInv'
  BY DEF CheckInv, HistoryInv, Behind, data
<1>3. SampleInv'
  BY DEF CheckInv, SampleInv, data
<1>. QED
  BY <1>1, <1>2, <1>3

\* A validation starts: it has no job, no sample, and histories of its own.
LEMMA StartStep ==
    ASSUME CheckInv, Start
    PROVE  CheckInv'
<1>. USE DEF CheckInv, Types
<1>1. /\ pc = "idle" /\ pc' = "count" /\ runs' = runs + 1
      /\ strategy' \in {"CHECKSUM", "TIMESTAMP_RANGE"}
      /\ sample' = Nothing /\ todo' = {} /\ found' = {}
      /\ held' = [k \in Keys |-> {postgres[k]}]
      /\ unsettled' = {k \in Keys : Behind(k)}
      /\ UNCHANGED <<setup, cassandra, postgres, feed, writes, jobs, connection, last>>
  BY DEF Start, Goes
<1>2. Types'
  BY <1>1 DEF connection
<1>3. HistoryInv'
  BY <1>1 DEF HistoryInv, Behind
<1>4. DOMAIN sample' = {} /\ Compared' = {}
  BY <1>1 DEF Nothing, Compared
<1>5. SampleInv' /\ MismatchHasReason' /\ ReportInv'
  BY <1>1, <1>4 DEF SampleInv, MismatchHasReason, ReportInv
<1>6. \A j \in jobs' : j.run \in Nat /\ j.run <= runs' /\ j.run # runs'
  BY <1>1 DEF JobsInv
<1>7. ~Latest("COMPLETED")' /\ ~Latest("FAILED")'
  BY <1>6 DEF Latest
<1>8. JobsInv' /\ EveryRunTold'
  BY <1>1, <1>4, <1>6, <1>7 DEF JobsInv, EveryRunTold
<1>. QED
  BY <1>2, <1>3, <1>5, <1>8

\* While the loop is under way the run has no job.
LEMMA NoJobYet ==
    ASSUME CheckInv, pc \in {"count", "select", "compare"}
    PROVE  ~Latest("COMPLETED") /\ ~Latest("FAILED")
BY DEF CheckInv, JobsInv, Latest

\* What is reported is settled by what was compared and found; the run has no job, and
\* does not end.
LEMMA LoopGoesOn ==
    ASSUME CheckInv, pc \in {"count", "select", "compare"},
           UNCHANGED <<setup, sample, runs, jobs, last>>,
           pc' \in {"select", "compare", "handler"},
           UNCHANGED <<found, Compared>>, UNCHANGED <<unsettled, held>>
    PROVE  /\ MismatchHasReason' /\ ReportInv' /\ JobsInv'
           /\ EveryRunTold'
<1>1. ~Latest("COMPLETED")' /\ ~Latest("FAILED")'
  BY NoJobYet DEF Latest
<1>2. MismatchHasReason' /\ ReportInv'
  BY DEF CheckInv, MismatchHasReason, ReportInv
<1>3. JobsInv'
  BY <1>1 DEF CheckInv, JobsInv
<1>4. EveryRunTold'
  BY <1>1 DEF CheckInv, EveryRunTold
<1>. QED
  BY <1>2, <1>3, <1>4

LEMMA CountStep ==
    ASSUME CheckInv, Count \/ CassandraFails
    PROVE  CheckInv'
<1>1. /\ pc \in {"count", "select"} /\ pc' \in {"select", "compare", "handler"}
      /\ UNCHANGED <<setup, data, strategy, sample, todo, found, runs, jobs, connection, last>>
  BY DEF Count, CassandraFails, work
<1>2. Types' /\ HistoryInv' /\ SampleInv'
  BY <1>1, TablesKeep DEF data, connection, CheckInv, Types
<1>3. Compared' = Compared
  BY <1>1 DEF Compared
<1>. QED
  BY <1>1, <1>2, <1>3, LoopGoesOn DEF data, CheckInv

\* The sample is what Cassandra has at this moment.
LEMMA SelectStep ==
    ASSUME CheckInv, Select
    PROVE  CheckInv'
<1>. USE DEF CheckInv
<1>1. /\ pc = "select" /\ pc' = "compare"
      /\ UNCHANGED <<setup, data, strategy, found, runs, jobs, connection, last>>
  BY DEF Select, Goes
<1>2. PICK S \in SUBSET Fetched : sample' = [k \in S |-> cassandra[k]] /\ todo' = S
  BY DEF Select
<1>3. S \subseteq Keys /\ \A k \in S : cassandra[k] # 0
  BY <1>2 DEF Fetched, Stored
<1>4. Types'
  BY <1>1 DEF Types, data, connection
<1>5. HistoryInv'
  BY <1>1 DEF HistoryInv, Behind, data
<1>6. SampleInv'
  BY <1>1, <1>2, <1>3 DEF SampleInv, data
<1>7. Compared' = {}
  BY <1>2 DEF Compared
<1>8. ~Latest("COMPLETED")' /\ ~Latest("FAILED")'
  BY <1>1, NoJobYet DEF Latest
<1>9. MismatchHasReason' /\ ReportInv'
  BY <1>1, <1>7 DEF MismatchHasReason, ReportInv, data
<1>10. JobsInv'
  BY <1>1, <1>7, <1>8 DEF JobsInv
<1>11. EveryRunTold'
  BY <1>1, <1>8 DEF EveryRunTold
<1>. QED
  BY <1>4, <1>5, <1>6, <1>9, <1>10, <1>11

LEMMA SkipStep ==
    ASSUME CheckInv, Skip \/ LookupFails
    PROVE  CheckInv'
<1>1. /\ pc = "compare" /\ pc' \in {"compare", "handler"}
      /\ UNCHANGED <<setup, data, strategy, sample, found, runs, jobs, last>>
      /\ broken' \in BOOLEAN
  BY DEF Skip, LookupFails, LosesConnection, work, connection, CheckInv, Types
<1>2. todo' \subseteq todo /\ todo \subseteq todo' \cup Falsy
  BY DEF Skip, LookupFails, work
<1>3. Types' /\ HistoryInv' /\ SampleInv'
  BY <1>1, <1>2, TablesKeep DEF data
<1>4. Compared' = Compared
  BY <1>1, <1>2 DEF Compared
<1>. QED
  BY <1>1, <1>3, <1>4, LoopGoesOn DEF data, CheckInv

\* A row that agrees is one PostgreSQL holds now.
LEMMA AgreesStep ==
    ASSUME CheckInv, Agrees
    PROVE  CheckInv'
<1>. USE DEF CheckInv
<1>1. /\ pc = "compare" /\ pc' = "compare"
      /\ UNCHANGED <<setup, data, strategy, sample, found, runs, jobs, connection, last>>
  BY DEF Agrees
<1>2. PICK k \in todo \ Falsy : ~Differs(k) /\ todo' = todo \ {k}
  BY DEF Agrees
<1>3. Types' /\ HistoryInv' /\ SampleInv'
  BY <1>1, <1>2, TablesKeep DEF data, connection, Types
<1>4. k \in Keys /\ sample[k] \in held[k]
  BY <1>1, <1>2 DEF SampleInv, HistoryInv, Differs, PostgresRecord
<1>5. Compared' = Compared \cup {k}
  BY <1>1, <1>2 DEF Compared, SampleInv
<1>6. MismatchHasReason' /\ ReportInv'
  BY <1>1, <1>4, <1>5 DEF MismatchHasReason, ReportInv, data
<1>7. ~Latest("COMPLETED")' /\ ~Latest("FAILED")'
  BY <1>1, NoJobYet DEF Latest
<1>8. JobsInv' /\ EveryRunTold'
  BY <1>1, <1>7 DEF JobsInv, EveryRunTold
<1>. QED
  BY <1>3, <1>6, <1>8

\* A row that disagrees, in a table without columns of its own, is one where the tables
\* were apart at some time since the validation started.
LEMMA DisagreesStep ==
    ASSUME CheckInv, Disagrees
    PROVE  CheckInv'
<1>. USE DEF CheckInv
<1>1. /\ pc = "compare" /\ pc' = IF setup.persists THEN "handler" ELSE "compare"
      /\ broken' = (setup.persists /\ setup.jsonable)
      /\ UNCHANGED <<setup, data, strategy, sample, runs, jobs, losses, last>>
  BY DEF Disagrees
<1>2. PICK k \in todo \ Falsy :
         /\ Differs(k) /\ todo' = todo \ {k}
         /\ found' = found \cup {[key |-> k, type |-> MismatchType(k)]}
  BY DEF Disagrees
<1>3. broken' \in BOOLEAN
  BY <1>1
<1>4. Types' /\ HistoryInv' /\ SampleInv'
  BY <1>1, <1>2, <1>3, TablesKeep DEF data
<1>5. k \in Keys /\ k \in DOMAIN sample
  BY <1>2 DEF SampleInv
<1>6. ~setup.metadata => k \in unsettled
  BY <1>1, <1>2, <1>5 DEF SampleInv, HistoryInv, Differs, PostgresRecord, Behind
<1>7. MismatchHasReason'
  BY <1>1, <1>2, <1>6 DEF MismatchHasReason, data
<1>8. Compared' \subseteq Compared \cup {k} /\ \E m \in found' : m.key = k
  <2>1. Compared' \subseteq Compared \cup {k}
    BY <1>1, <1>2 DEF Compared
  <2>2. [key |-> k, type |-> MismatchType(k)] \in found'
    BY <1>2
  <2>. QED
    BY <2>1, <2>2
<1>9. ReportInv'
  BY <1>1, <1>2, <1>8 DEF ReportInv, data
<1>10. ~Latest("COMPLETED")' /\ ~Latest("FAILED")'
  BY <1>1, NoJobYet DEF Latest
<1>11. JobsInv'
  BY <1>1, <1>10 DEF JobsInv
<1>12. EveryRunTold'
  BY <1>1, <1>10 DEF EveryRunTold
<1>. QED
  BY <1>4, <1>7, <1>9, <1>11, <1>12

-----------------------------------------------------------------------------
(* A validation ends, or goes to an except block: only its jobs and its    *)
(* connection change.                                                      *)

LEMMA EndKeeps ==
    ASSUME CheckInv, pc # "idle", UNCHANGED <<setup, data, work, runs>>,
           pc' \in {"idle", "handler", "outer"}, broken' \in BOOLEAN,
           pc' = "idle" => last'.ended = "raised" \/ todo = {}
    PROVE  /\ Types' /\ HistoryInv' /\ SampleInv' /\ MismatchHasReason' /\ ReportInv'
           /\ Compared' = Compared
<1>1. Types' /\ HistoryInv' /\ SampleInv'
  BY TablesKeep DEF data, work
<1>2. MismatchHasReason'
  BY DEF CheckInv, MismatchHasReason, work, data
<1>3. Compared' = Compared
  BY DEF Compared, work
<1>4. ReportInv'
  BY <1>3 DEF CheckInv, ReportInv, work, data
<1>. QED
  BY <1>1, <1>2, <1>3, <1>4

LEMMA FinishStep ==
    ASSUME CheckInv, Finish
    PROVE  CheckInv'
<1>. USE DEF CheckInv
<1>. DEFINE job == [run |-> runs, strategy |-> "CHECKSUM", status |-> "COMPLETED"]
<1>1. /\ pc = "compare" /\ todo = {} /\ pc' = "idle"
      /\ setup.persists => ~broken
      /\ jobs' = IF setup.persists THEN jobs \cup {job} ELSE jobs
      /\ UNCHANGED <<setup, data, work, runs, connection>>
  BY DEF Finish, Ends, Insert
<1>2. last' = [ended |-> "returned",
               told |-> broken' \/ ~setup.persists \/ \E j \in jobs' : j.run = runs]
  BY DEF Finish, Ends
<1>3. last'.told
  <2>1. ASSUME setup.persists PROVE \E j \in jobs' : j.run = runs
    <3>1. job \in jobs' /\ job.run = runs
      BY <1>1, <2>1
    <3>. QED
      BY <3>1
  <2>. QED
    BY <1>2, <2>1
<1>4. Types' /\ HistoryInv' /\ SampleInv' /\ MismatchHasReason' /\ ReportInv' /\ Compared' = Compared
  BY <1>1, EndKeeps DEF connection, Types
<1>5. runs \in Nat /\ runs' = runs /\ \A j \in jobs' : j.run \in Nat /\ j.run <= runs'
  BY <1>1 DEF JobsInv, Types
<1>6. ~Latest("FAILED")'
  BY <1>1, NoJobYet DEF Latest
<1>7. JobsInv'
  BY <1>1, <1>5 DEF JobsInv
<1>. QED
  BY <1>3, <1>4, <1>6, <1>7 DEF EveryRunTold

\* A COMPLETED job that was committed although the insert raised has cost the connection.
LEMMA FinishFailsStep ==
    ASSUME CheckInv, FinishFails
    PROVE  CheckInv'
<1>. USE DEF CheckInv
<1>. DEFINE job == [run |-> runs, strategy |-> "CHECKSUM", status |-> "COMPLETED"]
<1>1. /\ pc = "compare" /\ todo = {} /\ pc' = "handler" /\ setup.persists
      /\ UNCHANGED <<setup, data, work, runs, last>>
      /\ broken' = TRUE
      /\ jobs' = jobs \/ jobs' = jobs \cup {job}
  BY DEF FinishFails, LosesConnection, Insert, connection, Types
<1>2. Types' /\ HistoryInv' /\ SampleInv' /\ MismatchHasReason' /\ ReportInv' /\ Compared' = Compared
  BY <1>1, EndKeeps
<1>3. \A j \in jobs' : j.run \in Nat /\ j.run <= runs'
  BY <1>1 DEF JobsInv, Types
<1>4. ~Latest("FAILED")'
  BY <1>1, NoJobYet DEF Latest
<1>5. JobsInv'
  BY <1>1, <1>3, <1>4 DEF JobsInv
<1>. QED
  BY <1>1, <1>2, <1>4, <1>5 DEF EveryRunTold

\* An except block inserts a FAILED job only over a connection that works, and then the
\* run has no other.
LEMMA HandleStep ==
    ASSUME CheckInv, Handle \/ HandleBadly
    PROVE  CheckInv'
<1>. USE DEF CheckInv
<1>. DEFINE job == [run |-> runs, status |-> "FAILED",
                    strategy |-> IF pc = "outer" THEN "TIMESTAMP_RANGE" ELSE "CHECKSUM"]
<1>1. /\ pc \in {"handler", "outer"}
      /\ UNCHANGED <<setup, data, work, runs>>
      /\ broken' \in BOOLEAN
      /\ jobs' = jobs \/ (jobs' = jobs \cup {job} /\ ~broken)
      /\ setup.persists /\ ~broken => broken' \/ jobs' = jobs \cup {job}
      /\ broken => broken'
  BY DEF Handle, HandleBadly, SaveFailed, Insert, LosesConnection, connection, Types
<1>2. Reraises
  BY DEF Handle, HandleBadly
<1>3. \/ pc = "handler" /\ pc' = "outer" /\ UNCHANGED last
      \/ /\ pc' = "idle"
         /\ last' = [ended |-> "raised",
                     told |-> broken' \/ ~setup.persists \/ \E j \in jobs' : j.run = runs]
  BY <1>2 DEF Reraises, Ends
<1>4. last'.told
  <2>1. ASSUME setup.persists, ~broken' PROVE \E j \in jobs' : j.run = runs
    <3>1. job \in jobs' /\ job.run = runs
      BY <1>1, <2>1
    <3>. QED
      BY <3>1
  <2>2. CASE pc' = "outer"
    BY <1>3, <2>2 DEF EveryRunTold
  <2>3. CASE pc' = "idle"
    <3>1. last' = [ended |-> "raised",
                   told |-> broken' \/ ~setup.persists \/ \E j \in jobs' : j.run = runs]
      BY <1>3, <2>3
    <3>2. broken' \/ ~setup.persists \/ \E j \in jobs' : j.run = runs
      BY <2>1
    <3>. QED
      BY <3>1, <3>2
  <2>. QED
    BY <1>3, <2>2, <2>3
<1>5. pc' \in {"idle", "outer"} /\ (pc' = "idle" => last'.ended = "raised")
  BY <1>3
<1>6. Types' /\ HistoryInv' /\ SampleInv' /\ MismatchHasReason' /\ ReportInv' /\ Compared' = Compared
  BY <1>1, <1>5, EndKeeps
<1>7. \A j \in jobs' : j.run \in Nat /\ j.run <= runs'
  BY <1>1 DEF JobsInv, Types
<1>8. JobsInv'
  BY <1>1, <1>5, <1>7 DEF JobsInv
<1>9. ~(Latest("COMPLETED") /\ Latest("FAILED"))'
  BY <1>1 DEF JobsInv, EveryRunTold, Latest
<1>. QED
  BY <1>4, <1>6, <1>8, <1>9 DEF EveryRunTold

LEMMA RestartStep ==
    ASSUME CheckInv, Restart
    PROVE  CheckInv'
<1>. USE DEF CheckInv
<1>1. /\ pc = "idle" /\ broken' = FALSE
      /\ UNCHANGED <<setup, data, pc, work, runs, jobs, losses, last>>
  BY DEF Restart
<1>2. Types'
  BY <1>1 DEF Types, data, work
<1>3. HistoryInv' /\ SampleInv' /\ MismatchHasReason' /\ ReportInv'
  BY <1>1 DEF HistoryInv, SampleInv, MismatchHasReason, ReportInv, Compared, data, work
<1>4. JobsInv' /\ EveryRunTold'
  BY <1>1 DEF JobsInv, EveryRunTold, Latest, Compared, work
<1>. QED
  BY <1>2, <1>3, <1>4

LEMMA StutterStep ==
    ASSUME CheckInv, UNCHANGED vars
    PROVE  CheckInv'
<1>. USE DEF CheckInv, vars
<1>1. Types'
  BY DEF Types, data, work, connection
<1>2. HistoryInv' /\ SampleInv' /\ MismatchHasReason' /\ ReportInv'
  BY DEF HistoryInv, SampleInv, MismatchHasReason, ReportInv, Compared, Behind, data, work
<1>3. JobsInv' /\ EveryRunTold'
  BY DEF JobsInv, EveryRunTold, Latest, Compared, work, connection
<1>. QED
  BY <1>1, <1>2, <1>3

-----------------------------------------------------------------------------
LEMMA CheckStep == CheckInv /\ [Next]_vars => CheckInv'
<1>. SUFFICES ASSUME CheckInv, [Next]_vars PROVE CheckInv'
  OBVIOUS
<1>1. CASE Step
  BY <1>1, StartStep, CountStep, SelectStep, SkipStep, AgreesStep, DisagreesStep,
     FinishStep, FinishFailsStep, HandleStep DEF Step
<1>2. CASE \E k \in Keys : Write(k) \/ Modify(k)
  BY <1>2, WriteStep, ModifyStep
<1>3. CASE Apply \/ Restart
  BY <1>3, ApplyStep, RestartStep
<1>4. CASE UNCHANGED vars
  BY <1>4, StutterStep
<1>. QED
  BY <1>1, <1>2, <1>3, <1>4 DEF Next

\* The invariant of the validation, from which the promises below follow.
THEOREM CheckInvariant == Spec => []CheckInv
<1>1. Init => CheckInv
  BY CheckInit
<1>2. CheckInv /\ [Next]_vars => CheckInv'
  BY CheckStep
<1>. QED
  BY <1>1, <1>2, PTL DEF Spec

\* A validation that returns has reported each row of its sample that PostgreSQL did not
\* hold at any time while it ran: what run_checksum_validation compares row by row adds up
\* to the whole sample.
THEOREM DifferencesAreReported == Spec => []DifferencesReported
<1>1. CheckInv => DifferencesReported
  BY DEF CheckInv, ReportInv, DifferencesReported, Compared
<1>. QED
  BY <1>1, CheckInvariant, PTL

\* No false alarm: in a copy without columns of its own a mismatch is a row with which
\* PostgreSQL was behind, or which somebody changed, while the validation ran.
THEOREM MismatchesHaveReasons == Spec => []MismatchHasReason
<1>1. CheckInv => MismatchHasReason
  BY DEF CheckInv
<1>. QED
  BY <1>1, CheckInvariant, PTL

\* A validation with a repository leaves a job or a broken connection, and never a
\* COMPLETED job beside a FAILED one.
THEOREM EveryRunIsTold == Spec => []EveryRunTold
<1>1. CheckInv => EveryRunTold
  BY DEF CheckInv
<1>. QED
  BY <1>1, CheckInvariant, PTL

-----------------------------------------------------------------------------
(* The runs *)

Phases == {"new", "pushing", "over", "killed"}

Started == {r \in Runs : phase[r] # "new"}

\* The type invariant, and why no two runs have the same place: places are given out in
\* order, one for each run started.
RunsTypes ==
    /\ TypeOK
    /\ recent \subseteq Runs
    /\ IsFiniteSet(Started)
    /\ \A r \in Runs : start[r] <= Cardinality(Started)

\* What is known of a run's job and alert at each of its phases.
PhaseFacts(r) ==
    /\ phase[r] = "new" => rows[r] = NoRow /\ alert[r] = "none" /\ r \notin failed
    /\ phase[r] = "pushing" =>
          /\ rows[r] # NoRow /\ rows[r].drift \in Warning..ModelLimit
          /\ rows[r].type = Type[r] /\ ~rows[r].fired
          /\ alert[r] = "sent"
    /\ r \in recent => phase[r] = "over"

RunsInv ==
    /\ RunsTypes
    /\ \A r \in Runs : PhaseFacts(r)
    /\ HealthyRecord
    /\ FiredIsAccepted
    /\ TriggerAnswersFreshJob

-----------------------------------------------------------------------------
\* A finite set of numbered elements has one with the highest number.
LEMMA SomeMaximum ==
    ASSUME NEW S, IsFiniteSet(S), S # {}, NEW f, \A x \in S : f[x] \in Int
    PROVE  \E x \in S : \A y \in S : f[y] <= f[x]
<1> DEFINE Above(x) == {y \in S : f[y] > f[x]}
           T == {Above(x) : x \in S}
<1>1. T \subseteq FiniteSubsetsOf(S) /\ T # {}
  <2>1. \A x \in S : Above(x) \subseteq S /\ IsFiniteSet(Above(x))
    BY FS_Subset
  <2> QED
    BY <2>1 DEF FiniteSubsetsOf
<1>2. PICK m \in T : \A k \in T : ~(<<k, m>> \in StrictSubsetOrdering(S))
  <2> HIDE DEF T
  <2> QED
    BY <1>1, FS_StrictSubsetOrderingWellFounded, WFMin
<1>3. PICK x \in S : m = Above(x)
  OBVIOUS
<1>4. SUFFICES ASSUME NEW y \in S, f[y] > f[x] PROVE FALSE
  OBVIOUS
<1>5. Above(y) \subseteq Above(x) /\ y \in Above(x) /\ y \notin Above(y)
  BY <1>4
<1>6. <<Above(y), m>> \in StrictSubsetOrdering(S)
  BY <1>3, <1>5 DEF StrictSubsetOrdering
<1> QED
  BY <1>2, <1>6

\* A drift is never negative.
LEMMA QuantizedIsNat ==
    ASSUME NEW n \in Nat, NEW d \in Nat \ {0}
    PROVE  Quantized(n, d) \in Nat
<1>1. n \div d \in Nat /\ n % d \in Nat
  OBVIOUS
<1> QED
  BY <1>1 DEF Quantized

LEMMA DriftIsNat ==
    ASSUME NEW cass \in Nat, NEW pg \in Nat
    PROVE  Drift(cass, pg) \in Nat
<1>1. CASE cass = 0
  BY <1>1 DEF Drift
<1>2. CASE cass # 0
  <2> DEFINE apart == IF cass > pg THEN cass - pg ELSE pg - cass
  <2>1. apart \in Nat
    OBVIOUS
  <2>2. 10000 * apart \in Nat
    BY <2>1
  <2>3. Quantized(10000 * apart, cass) \in Nat
    BY <1>2, <2>2, QuantizedIsNat
  <2> QED
    BY <1>2, <2>3 DEF Drift
<1> QED
  BY <1>1, <1>2

-----------------------------------------------------------------------------
\* What the steps have in common in which a run begins and ends without a push.
Settles(r) ==
    /\ Begins(r) /\ RunEnds(r) /\ UNCHANGED alert
    /\ unusable' \in BOOLEAN /\ outages' \in 0..MaxOutages /\ (unusable => unusable')
    /\ \/ rows' = rows /\ unusable'
       \/ \E job \in Jobs :
             /\ Save(r, job) /\ ~job.fired /\ job.type \in {"MANUAL_ONDEMAND", Type[r]}
             /\ unusable' \/ job.status = "FAILED" \/ job.type = Type[r]

\* A drift that the model class takes fits the column, too.
LEMMA FitsColumn ==
    ASSUME NEW drift \in Nat, drift <= ModelLimit \/ drift <= ColumnLimit
    PROVE  drift \in 0..ColumnLimit
<1>1. ColumnLimit \in Nat /\ drift <= ColumnLimit
  BY DEF ModelLimit, ColumnLimit
<1> QED
  BY <1>1

\* A run that fails, or has no alert to push, settles.
LEMMA RunSettles ==
    ASSUME RunsTypes, NEW r \in Runs, NEW drift \in Nat,
           \/ CassandraCountFails(r) \/ PostgresCountFails(r) \/ Overflows(r, drift)
           \/ RefusedByModel(r, drift) \/ CompletesBadly(r, drift)
           \/ Completes(r, drift) /\ drift < Warning
    PROVE  Settles(r)
<1>t. Type[r] \in {"HOURLY_SCHEDULED", "MANUAL_ONDEMAND"} /\ MaxOutages \in Nat
      /\ outages \in 0..MaxOutages /\ unusable \in BOOLEAN
  BY ReconciliationAssumption DEF RunsTypes, TypeOK
<1>h. /\ Holds => unusable' \in BOOLEAN /\ outages' \in 0..MaxOutages /\ unusable' = unusable
      /\ Outage => unusable' = TRUE /\ outages' \in 0..MaxOutages
  BY <1>t DEF Holds, Outage
<1>1. CASE CassandraCountFails(r)
  <2>1. Job("FAILED", 0) \in Jobs /\ ~Job("FAILED", 0).fired
        /\ Job("FAILED", 0).type = "MANUAL_ONDEMAND" /\ Job("FAILED", 0).status = "FAILED"
    BY DEF Job, Jobs, ColumnLimit
  <2> QED
    BY <1>1, <2>1, <1>h, <1>t DEF CassandraCountFails, Settles
<1>2. CASE PostgresCountFails(r)
  BY <1>2, <1>h, <1>t DEF PostgresCountFails, Settles
<1>3. CASE Overflows(r, drift)
  BY <1>3, <1>h, <1>t DEF Overflows, Counted, Settles
<1>4. CASE RefusedByModel(r, drift)
  <2>0. drift <= ColumnLimit
    <3>1. drift \in (ModelLimit + 1)..ColumnLimit
      BY <1>4 DEF RefusedByModel
    <3>2. ModelLimit + 1 \in Int /\ ColumnLimit \in Int
      BY DEF ModelLimit, ColumnLimit
    <3> QED
      BY <3>1, <3>2
  <2>1. drift \in 0..ColumnLimit
    BY <2>0, FitsColumn
  <2>2. Job("COMPLETED", drift) \in Jobs /\ ~Job("COMPLETED", drift).fired
        /\ Job("COMPLETED", drift).type = "MANUAL_ONDEMAND"
    BY <2>1 DEF Job, Jobs
  <2>3. Begins(r) /\ Save(r, Job("COMPLETED", drift)) /\ unusable' = TRUE /\ RunEnds(r)
        /\ UNCHANGED <<alert, outages>>
    BY <1>4 DEF RefusedByModel, Counted
  <2> QED
    BY <2>2, <2>3, <1>t DEF Settles
<1>5. CASE CompletesBadly(r, drift)
  <2>0. drift <= ModelLimit
    BY <1>5 DEF CompletesBadly
  <2>1. drift \in 0..ColumnLimit
    BY <2>0, FitsColumn
  <2>2. Begins(r) /\ RunEnds(r) /\ UNCHANGED alert /\ unusable' = TRUE /\ outages' \in 0..MaxOutages
    BY <1>5, <1>h DEF CompletesBadly, Counted
  <2>3. CASE UNCHANGED rows
    BY <2>2, <2>3 DEF Settles
  <2>4. ASSUME NEW type \in {"MANUAL_ONDEMAND", Type[r]},
               Save(r, [Job("COMPLETED", drift) EXCEPT !.type = type])
        PROVE  Settles(r)
    <3> DEFINE job == [Job("COMPLETED", drift) EXCEPT !.type = type]
    <3>1. job \in Jobs /\ job.type = type /\ ~job.fired
      BY <2>1, <2>4, <1>t DEF Job, Jobs
    <3> HIDE DEF job
    <3> QED
      BY <2>2, <2>4, <3>1 DEF Settles, job
  <2> QED
    BY <1>5, <2>3, <2>4 DEF CompletesBadly
<1>6. CASE Completes(r, drift) /\ drift < Warning
  <2>0. drift <= ModelLimit
    BY <1>6 DEF Completes
  <2>1. drift \in 0..ColumnLimit
    BY <2>0, FitsColumn
  <2> DEFINE job == [Job("COMPLETED", drift) EXCEPT !.type = Type[r]]
  <2>2. job \in Jobs /\ job.type = Type[r] /\ ~job.fired
    BY <2>1, <1>t DEF Job, Jobs
  <2>3. Begins(r) /\ RunEnds(r) /\ UNCHANGED alert /\ Holds /\ Save(r, job)
    BY <1>6 DEF Completes, Counted, Warning
  <2> HIDE DEF job
  <2> QED
    BY <2>2, <2>3, <1>h, <1>t DEF Settles
<1> QED
  BY <1>1, <1>2, <1>3, <1>4, <1>5, <1>6

-----------------------------------------------------------------------------
\* A run that begins takes the next place, whatever phase it reaches.
LEMMA BeginsTypes ==
    ASSUME RunsTypes, NEW r \in Runs, Begins(r), NEW to \in {"pushing", "over"},
           phase' = [phase EXCEPT ![r] = to]
    PROVE  /\ phase' \in [Runs -> Phases]
           /\ start' \in [Runs -> Nat]
           /\ \A q \in Runs : phase'[q] = "new" <=> start'[q] = 0
           /\ \A p, q \in Runs : start'[p] = start'[q] /\ start'[p] # 0 => p = q
           /\ IsFiniteSet(Started') /\ \A q \in Runs : start'[q] <= Cardinality(Started')
<1>1. phase[r] = "new" /\ start' = [start EXCEPT ![r] = Cardinality(Started) + 1]
  BY DEF Begins, Started
<1>2. phase \in [Runs -> Phases] /\ start \in [Runs -> Nat] /\ IsFiniteSet(Started)
  BY DEF RunsTypes, TypeOK, Phases
<1>3. Started' = Started \cup {r} /\ r \notin Started
  BY <1>1, <1>2 DEF Started
<1>4. Cardinality(Started) \in Nat
  BY <1>2, FS_CardinalityType
<1>5. IsFiniteSet(Started') /\ Cardinality(Started') = Cardinality(Started) + 1
  BY <1>2, <1>3, FS_AddElement
<1>6. start'[r] = Cardinality(Started) + 1 /\ \A q \in Runs \ {r} : start'[q] = start[q]
  BY <1>1, <1>2
<1>7. phase' \in [Runs -> Phases] /\ phase'[r] # "new" /\ \A q \in Runs \ {r} : phase'[q] = phase[q]
  BY <1>2 DEF Phases
<1>8. start' \in [Runs -> Nat]
  BY <1>1, <1>2, <1>4
<1>9. \A q \in Runs : phase[q] = "new" <=> start[q] = 0
  BY DEF RunsTypes, TypeOK
<1>a. \A q \in Runs : phase'[q] = "new" <=> start'[q] = 0
  BY <1>4, <1>6, <1>7, <1>9
<1>b. \A q \in Runs : start[q] \in Nat /\ start[q] <= Cardinality(Started)
  BY <1>2 DEF RunsTypes
<1>c. \A p, q \in Runs : start[p] = start[q] /\ start[p] # 0 => p = q
  BY DEF RunsTypes, TypeOK
<1>d. \A q \in Runs : start'[q] <= Cardinality(Started')
  BY <1>b, <1>4, <1>5, <1>6
<1>e. \A p, q \in Runs : start'[p] = start'[q] /\ start'[p] # 0 => p = q
  <2> SUFFICES ASSUME NEW p \in Runs, NEW q \in Runs, start'[p] = start'[q], start'[p] # 0
               PROVE  p = q
    OBVIOUS
  <2>1. CASE p # r /\ q # r
    BY <2>1, <1>6, <1>c
  <2>2. CASE p = r \/ q = r
    BY <2>2, <1>6, <1>b, <1>4
  <2> QED
    BY <2>1, <2>2
<1> QED
  BY <1>5, <1>7, <1>8, <1>a, <1>d, <1>e

\* What the end of a run does to the variables of the trigger route.
LEMMA EndOfRun ==
    ASSUME RunsTypes, NEW r \in Runs, RunEnds(r)
    PROVE  /\ phase' = [phase EXCEPT ![r] = "over"] /\ recent' = recent \cup {r}
           /\ response' \in [Runs -> SUBSET Runs] /\ failed' \subseteq Runs
           /\ \A q \in Runs \ {r} : response'[q] = response[q] /\ (q \in failed' <=> q \in failed)
           /\ Type[r] = "MANUAL_ONDEMAND" /\ r \notin failed' =>
                 ~unusable' /\ response'[r] = LatestJobs(r)
<1>t. /\ Type[r] \in {"HOURLY_SCHEDULED", "MANUAL_ONDEMAND"}
      /\ response \in [Runs -> SUBSET Runs] /\ failed \subseteq Runs
  BY ReconciliationAssumption DEF RunsTypes, TypeOK
<1>1. phase' = [phase EXCEPT ![r] = "over"] /\ recent' = recent \cup {r}
  BY DEF RunEnds
<1>2. CASE UNCHANGED <<response, failed>> /\ Type[r] = "HOURLY_SCHEDULED"
  BY <1>1, <1>2, <1>t
<1>3. CASE failed' = failed \cup {r} /\ UNCHANGED response
  BY <1>1, <1>3, <1>t
<1>4. CASE ~unusable' /\ response' = [response EXCEPT ![r] = LatestJobs(r)] /\ UNCHANGED failed
  <2>1. LatestJobs(r) \subseteq Runs
    BY DEF LatestJobs, Labelled
  <2> QED
    BY <1>1, <1>4, <1>t, <2>1
<1> QED
  BY <1>2, <1>3, <1>4 DEF RunEnds

\* Of the jobs under a label that run r's job carries, the latest are r's or later ones.
LEMMA LatestAreFresh ==
    ASSUME NEW r \in Runs, start' \in [Runs -> Nat], IsFiniteSet(Started'),
           \A q \in Runs : rows'[q] # NoRow => phase'[q] # "new",
           rows'[r] # NoRow, rows'[r].type = "MANUAL_ONDEMAND"
    PROVE  /\ LatestJobs(r) # {}
           /\ \A j \in LatestJobs(r) : /\ j \in Runs /\ Table[j] = Table[r] /\ rows'[j] # NoRow
                                        /\ start'[j] >= start'[r]
<1>1. r \in Labelled(r)
  BY DEF Labelled
<1>2. IsFiniteSet(Labelled(r))
  <2>1. Labelled(r) \subseteq Started'
    BY DEF Labelled, Started
  <2> QED
    BY <2>1, FS_Subset
<1>3. \A j \in Labelled(r) : start'[j] \in Int /\ start'[j] \in Nat
  BY DEF Labelled
<1>4. PICK x \in Labelled(r) : \A j \in Labelled(r) : start'[j] <= start'[x]
  <2> DEFINE S == Labelled(r)
             f == start'
  <2>1. IsFiniteSet(S) /\ S # {} /\ \A j \in S : f[j] \in Int
    BY <1>1, <1>2, <1>3
  <2> HIDE DEF S, f
  <2>2. \E x \in S : \A j \in S : f[j] <= f[x]
    BY <2>1, SomeMaximum
  <2> QED
    BY <2>2 DEF S, f
<1>5. x \in LatestJobs(r)
  BY <1>4 DEF LatestJobs
<1>6. \A j \in LatestJobs(r) : j \in Labelled(r) /\ start'[r] <= start'[j]
  BY <1>1 DEF LatestJobs
<1>7. start'[r] \in Nat
  OBVIOUS
<1> QED
  BY <1>3, <1>5, <1>6, <1>7 DEF Labelled

-----------------------------------------------------------------------------
\* The first state.
LEMMA RunsStart ==
    ASSUME RunsInit
    PROVE  RunsInv
<1>1. Started = {} /\ IsFiniteSet(Started) /\ Cardinality(Started) = 0
  BY FS_EmptySet DEF Started, RunsInit
<1>2. TypeOK
  <2>1. /\ phase \in [Runs -> {"new", "pushing", "over", "killed"}] /\ start \in [Runs -> Nat]
        /\ rows \in [Runs -> Jobs \cup {NoRow}] /\ unusable \in BOOLEAN
        /\ alert \in [Runs -> {"none", "sent", "accepted"}]
        /\ response \in [Runs -> SUBSET Runs] /\ failed \subseteq Runs
    BY DEF RunsInit
  <2>2. outages \in 0..MaxOutages
    BY ReconciliationAssumption DEF RunsInit
  <2>3. \A r \in Runs : phase[r] = "new" /\ start[r] = 0
    BY DEF RunsInit
  <2> QED
    BY <2>1, <2>2, <2>3 DEF TypeOK
<1>3. RunsTypes
  BY <1>1, <1>2 DEF RunsInit, RunsTypes
<1> QED
  BY <1>3 DEF RunsInit, RunsInv, PhaseFacts, HealthyRecord, FiredIsAccepted,
              TriggerAnswersFreshJob

\* A run that settles without a push.
LEMMA SettlesStep ==
    ASSUME RunsInv, NEW r \in Runs, Settles(r)
    PROVE  RunsInv'
<1>t. /\ RunsTypes /\ PhaseFacts(r) /\ phase[r] = "new" /\ rows[r] = NoRow /\ alert[r] = "none"
      /\ rows \in [Runs -> Jobs \cup {NoRow}] /\ phase \in [Runs -> Phases]
      /\ alert \in [Runs -> {"none", "sent", "accepted"}] /\ alert' = alert
      /\ unusable' \in BOOLEAN /\ (unusable => unusable')
      /\ NoRow \notin Jobs
  BY ReconciliationAssumption DEF RunsInv, RunsTypes, TypeOK, Phases, PhaseFacts, Settles, Begins
<1>e. /\ phase' = [phase EXCEPT ![r] = "over"] /\ recent' = recent \cup {r}
      /\ response' \in [Runs -> SUBSET Runs] /\ failed' \subseteq Runs
      /\ \A q \in Runs \ {r} : response'[q] = response[q] /\ (q \in failed' <=> q \in failed)
      /\ Type[r] = "MANUAL_ONDEMAND" /\ r \notin failed' =>
            ~unusable' /\ response'[r] = LatestJobs(r)
  BY <1>t, EndOfRun DEF Settles
<1>b. /\ phase' \in [Runs -> Phases] /\ start' \in [Runs -> Nat]
      /\ \A q \in Runs : phase'[q] = "new" <=> start'[q] = 0
      /\ \A p, q \in Runs : start'[p] = start'[q] /\ start'[p] # 0 => p = q
      /\ IsFiniteSet(Started') /\ \A q \in Runs : start'[q] <= Cardinality(Started')
  BY <1>t, <1>e, BeginsTypes DEF Settles
<1>r. /\ rows' \in [Runs -> Jobs \cup {NoRow}]
      /\ \A q \in Runs \ {r} : rows'[q] = rows[q]
      /\ \/ rows'[r] = NoRow /\ unusable'
         \/ /\ rows'[r] # NoRow /\ ~rows'[r].fired
            /\ rows'[r].type \in {"MANUAL_ONDEMAND", Type[r]}
            /\ unusable' \/ rows'[r].status = "FAILED" \/ rows'[r].type = Type[r]
  <2>1. CASE rows' = rows /\ unusable'
    BY <2>1, <1>t
  <2>2. ASSUME NEW job \in Jobs,
               Save(r, job) /\ ~job.fired /\ job.type \in {"MANUAL_ONDEMAND", Type[r]},
               unusable' \/ job.status = "FAILED" \/ job.type = Type[r]
        PROVE  <1>r
    <3>1. rows' = [rows EXCEPT ![r] = job]
      BY <2>2 DEF Save
    <3>2. rows'[r] = job /\ job # NoRow /\ \A q \in Runs \ {r} : rows'[q] = rows[q]
      BY <3>1, <1>t
    <3>3. rows' \in [Runs -> Jobs \cup {NoRow}]
      BY <3>1, <1>t
    <3> QED
      BY <2>2, <3>2, <3>3
  <2> QED
    BY <2>1, <2>2 DEF Settles
<1>p. /\ phase'[r] = "over" /\ \A q \in Runs \ {r} : phase'[q] = phase[q]
      /\ start'[r] # 0 /\ \A q \in Runs \ {r} : start'[q] = start[q]
  BY <1>t, <1>e, <1>b DEF Settles, Begins, RunsTypes, TypeOK
<1>1. RunsTypes'
  <2>1. recent' \subseteq Runs /\ outages' \in 0..MaxOutages
    BY <1>t, <1>e DEF RunsTypes, Settles
  <2> QED
    BY <2>1, <1>t, <1>b, <1>e, <1>r DEF RunsTypes, TypeOK, Phases
<1>2. \A q \in Runs : PhaseFacts(q)'
  BY <1>t, <1>e, <1>r, <1>p DEF PhaseFacts, RunsInv
<1>3. HealthyRecord'
  <2> SUFFICES ASSUME ~unusable', NEW q \in recent'
               PROVE  /\ rows'[q] # NoRow
                      /\ rows'[q].status = "COMPLETED" => rows'[q].type = Type[q]
                      /\ rows'[q].fired <=> alert'[q] = "accepted"
    BY DEF HealthyRecord
  <2>1. CASE q = r
    BY <2>1, <1>r, <1>t
  <2>2. CASE q # r
    <3>1. q \in recent /\ q \in Runs /\ ~unusable
      BY <2>2, <1>e, <1>t DEF RunsTypes
    <3> QED
      BY <3>1, <2>2, <1>r, <1>t DEF RunsInv, HealthyRecord
  <2> QED
    BY <2>1, <2>2
<1>4. FiredIsAccepted'
  BY <1>r, <1>t DEF RunsInv, FiredIsAccepted
<1>5. TriggerAnswersFreshJob'
  <2> SUFFICES ASSUME NEW q \in Runs, Type[q] = "MANUAL_ONDEMAND", phase'[q] = "over", q \notin failed'
               PROVE  /\ rows'[q] # NoRow /\ response'[q] # {}
                      /\ \A j \in response'[q] : /\ Table[j] = Table[q] /\ rows'[j] # NoRow
                                                  /\ start'[j] >= start'[q]
    BY DEF TriggerAnswersFreshJob
  <2>1. CASE q = r
    <3>1. rows'[r] # NoRow /\ rows'[r].type = "MANUAL_ONDEMAND" /\ response'[r] = LatestJobs(r)
      BY <2>1, <1>e, <1>r
    <3>2. \A p \in Runs : rows'[p] # NoRow => phase'[p] # "new"
      BY <1>2 DEF PhaseFacts
    <3> QED
      BY <2>1, <3>1, <3>2, <1>b, LatestAreFresh
  <2>2. CASE q # r
    <3>1. /\ rows[q] # NoRow /\ response[q] # {}
          /\ \A j \in response[q] : /\ Table[j] = Table[q] /\ rows[j] # NoRow
                                     /\ start[j] >= start[q]
      BY <2>2, <1>e, <1>p DEF RunsInv, TriggerAnswersFreshJob
    <3>2. response[q] \subseteq Runs /\ r \notin response[q]
      BY <1>t, <3>1 DEF RunsTypes, TypeOK
    <3> QED
      BY <2>2, <3>1, <3>2, <1>e, <1>p, <1>r
  <2> QED
    BY <2>1, <2>2
<1> QED
  BY <1>1, <1>2, <1>3, <1>4, <1>5 DEF RunsInv

\* A run that counted a drift that calls for an alert, and waits for its push.
LEMMA PushBegins ==
    ASSUME RunsInv, NEW r \in Runs, NEW drift \in Nat, Completes(r, drift), drift >= Warning
    PROVE  RunsInv'
<1> DEFINE job == [Job("COMPLETED", drift) EXCEPT !.type = Type[r]]
<1>c. /\ Begins(r) /\ Save(r, job) /\ Holds /\ drift <= ModelLimit
      /\ phase' = [phase EXCEPT ![r] = "pushing"] /\ alert' = [alert EXCEPT ![r] = "sent"]
      /\ UNCHANGED <<response, failed, recent>>
  BY DEF Completes, Counted
<1>t. /\ RunsTypes /\ PhaseFacts(r) /\ phase[r] = "new" /\ rows[r] = NoRow
      /\ r \notin recent /\ r \notin failed
      /\ rows \in [Runs -> Jobs \cup {NoRow}] /\ phase \in [Runs -> Phases]
      /\ alert \in [Runs -> {"none", "sent", "accepted"}]
      /\ unusable' = unusable /\ outages' = outages
      /\ Type[r] \in {"HOURLY_SCHEDULED", "MANUAL_ONDEMAND"} /\ NoRow \notin Jobs
  BY <1>c, ReconciliationAssumption
     DEF RunsInv, RunsTypes, TypeOK, Phases, PhaseFacts, Begins, Holds
<1>j. job \in Jobs /\ job.type = Type[r] /\ ~job.fired /\ job.drift = drift
  <2>1. drift \in 0..ColumnLimit
    BY <1>c, FitsColumn
  <2> QED
    BY <2>1, <1>t DEF Job, Jobs
<1>d. drift \in Warning..ModelLimit
  <2>1. Warning \in Nat /\ ModelLimit \in Nat
    BY DEF Warning, ModelLimit
  <2> QED
    BY <1>c, <2>1
<1>b. /\ phase' \in [Runs -> Phases] /\ start' \in [Runs -> Nat]
      /\ \A q \in Runs : phase'[q] = "new" <=> start'[q] = 0
      /\ \A p, q \in Runs : start'[p] = start'[q] /\ start'[p] # 0 => p = q
      /\ IsFiniteSet(Started') /\ \A q \in Runs : start'[q] <= Cardinality(Started')
  BY <1>t, <1>c, BeginsTypes
<1>r. /\ rows' \in [Runs -> Jobs \cup {NoRow}] /\ rows'[r] = job /\ job # NoRow
      /\ \A q \in Runs \ {r} : rows'[q] = rows[q]
  <2> HIDE DEF job
  <2> QED
    BY <1>c, <1>j, <1>t DEF Save
<1> HIDE DEF job
<1>p. /\ phase'[r] = "pushing" /\ \A q \in Runs \ {r} : phase'[q] = phase[q]
      /\ alert'[r] = "sent" /\ \A q \in Runs \ {r} : alert'[q] = alert[q]
      /\ \A q \in Runs \ {r} : start'[q] = start[q]
  BY <1>t, <1>c DEF Begins, RunsTypes, TypeOK
<1>1. RunsTypes'
  <2>1. alert' \in [Runs -> {"none", "sent", "accepted"}]
    BY <1>c, <1>t
  <2> QED
    BY <2>1, <1>t, <1>b, <1>c, <1>r DEF RunsTypes, TypeOK, Phases
<1>2. \A q \in Runs : PhaseFacts(q)'
  BY <1>t, <1>c, <1>r, <1>p, <1>j, <1>d DEF PhaseFacts, RunsInv
<1>3. HealthyRecord'
  BY <1>t, <1>c, <1>r, <1>p DEF RunsInv, HealthyRecord, RunsTypes
<1>4. FiredIsAccepted'
  BY <1>r, <1>p, <1>j DEF RunsInv, FiredIsAccepted
<1>5. TriggerAnswersFreshJob'
  <2> SUFFICES ASSUME NEW q \in Runs, Type[q] = "MANUAL_ONDEMAND", phase'[q] = "over", q \notin failed'
               PROVE  /\ rows'[q] # NoRow /\ response'[q] # {}
                      /\ \A j \in response'[q] : /\ Table[j] = Table[q] /\ rows'[j] # NoRow
                                                  /\ start'[j] >= start'[q]
    BY DEF TriggerAnswersFreshJob
  <2>1. q # r /\ phase[q] = "over" /\ q \notin failed
    BY <1>p, <1>c
  <2>2. /\ rows[q] # NoRow /\ response[q] # {}
        /\ \A j \in response[q] : /\ Table[j] = Table[q] /\ rows[j] # NoRow
                                   /\ start[j] >= start[q]
    BY <2>1 DEF RunsInv, TriggerAnswersFreshJob
  <2>3. response[q] \subseteq Runs /\ r \notin response[q]
    BY <1>t, <2>2 DEF RunsTypes, TypeOK
  <2> QED
    BY <2>1, <2>2, <2>3, <1>c, <1>p, <1>r
<1> QED
  BY <1>1, <1>2, <1>3, <1>4, <1>5 DEF RunsInv

\* What the end of a push has in common, whatever the Pushgateway said.
Pushed(r) ==
    /\ phase[r] = "pushing" /\ UNCHANGED start /\ RunEnds(r)
    /\ unusable' \in BOOLEAN /\ outages' \in 0..MaxOutages /\ (unusable => unusable')
    /\ \/ UNCHANGED rows /\ (unusable' \/ UNCHANGED alert)
       \/ Fired(r) /\ alert' = [alert EXCEPT ![r] = "accepted"]
    /\ UNCHANGED alert \/ alert' = [alert EXCEPT ![r] = "accepted"]

\* Both outcomes of a push are such an end.
LEMMA RunPushed ==
    ASSUME RunsTypes, NEW r \in Runs, PushAccepted(r) \/ PushFails(r)
    PROVE  Pushed(r)
<1>t. MaxOutages \in Nat /\ outages \in 0..MaxOutages /\ unusable \in BOOLEAN
  BY ReconciliationAssumption DEF RunsTypes, TypeOK
<1>h. /\ Holds => unusable' \in BOOLEAN /\ outages' \in 0..MaxOutages /\ unusable' = unusable
      /\ Outage => unusable' = TRUE /\ outages' \in 0..MaxOutages
  BY <1>t DEF Holds, Outage
<1>1. CASE PushAccepted(r)
  BY <1>1, <1>h, <1>t DEF PushAccepted, Pushed
<1>2. CASE PushFails(r)
  BY <1>2, <1>h, <1>t DEF PushFails, Pushed
<1> QED
  BY <1>1, <1>2

\* The end of a push keeps the invariant.
LEMMA PushedStep ==
    ASSUME RunsInv, NEW r \in Runs, Pushed(r)
    PROVE  RunsInv'
<1>t. /\ RunsTypes /\ PhaseFacts(r) /\ phase[r] = "pushing" /\ rows[r] # NoRow
      /\ rows[r].drift \in Warning..ModelLimit /\ rows[r].type = Type[r] /\ ~rows[r].fired
      /\ alert[r] = "sent"
      /\ rows \in [Runs -> Jobs \cup {NoRow}] /\ phase \in [Runs -> Phases]
      /\ alert \in [Runs -> {"none", "sent", "accepted"}]
      /\ start \in [Runs -> Nat] /\ start' = start
      /\ unusable' \in BOOLEAN /\ (unusable => unusable')
      /\ NoRow \notin Jobs
  BY ReconciliationAssumption DEF RunsInv, RunsTypes, TypeOK, Phases, PhaseFacts, Pushed
<1>e. /\ phase' = [phase EXCEPT ![r] = "over"] /\ recent' = recent \cup {r}
      /\ response' \in [Runs -> SUBSET Runs] /\ failed' \subseteq Runs
      /\ \A q \in Runs \ {r} : response'[q] = response[q] /\ (q \in failed' <=> q \in failed)
      /\ Type[r] = "MANUAL_ONDEMAND" /\ r \notin failed' =>
            ~unusable' /\ response'[r] = LatestJobs(r)
  BY <1>t, EndOfRun DEF Pushed
<1>p. /\ phase'[r] = "over" /\ \A q \in Runs \ {r} : phase'[q] = phase[q]
      /\ phase' \in [Runs -> Phases] /\ Started' = Started
  BY <1>t, <1>e DEF Phases, Started
<1>a. /\ alert' \in [Runs -> {"none", "sent", "accepted"}]
      /\ \A q \in Runs \ {r} : alert'[q] = alert[q]
      /\ alert'[r] \in {"sent", "accepted"}
  BY <1>t DEF Pushed
<1>r. /\ rows' \in [Runs -> Jobs \cup {NoRow}]
      /\ \A q \in Runs \ {r} : rows'[q] = rows[q]
      /\ rows'[r] # NoRow /\ rows'[r].drift = rows[r].drift /\ rows'[r].type = Type[r]
      /\ rows'[r].fired => alert'[r] = "accepted"
      /\ ~unusable' => (rows'[r].fired <=> alert'[r] = "accepted")
  <2>1. CASE UNCHANGED rows /\ (unusable' \/ UNCHANGED alert)
    BY <2>1, <1>t
  <2>2. CASE Fired(r) /\ alert' = [alert EXCEPT ![r] = "accepted"]
    <3>1. rows[r] \in Jobs
      BY <1>t
    <3> DEFINE job == [rows[r] EXCEPT !.fired = TRUE]
    <3>2. job \in Jobs /\ job.drift = rows[r].drift /\ job.type = rows[r].type /\ job.fired = TRUE
      BY <3>1 DEF Jobs
    <3>3. rows' = [rows EXCEPT ![r] = job]
      BY <2>2 DEF Fired
    <3> HIDE DEF job
    <3>4. rows'[r] = job /\ rows' \in [Runs -> Jobs \cup {NoRow}]
          /\ \A q \in Runs \ {r} : rows'[q] = rows[q]
      BY <3>2, <3>3, <1>t
    <3>5. alert'[r] = "accepted"
      BY <2>2, <1>t
    <3> QED
      BY <3>2, <3>4, <3>5, <1>t
  <2> QED
    BY <2>1, <2>2 DEF Pushed
<1>1. RunsTypes'
  <2>1. recent' \subseteq Runs /\ outages' \in 0..MaxOutages
    BY <1>t, <1>e DEF RunsTypes, Pushed
  <2>2. \A q \in Runs : phase'[q] = "new" <=> start'[q] = 0
    BY <1>t, <1>p DEF RunsTypes, TypeOK
  <2> QED
    BY <2>1, <2>2, <1>t, <1>a, <1>p, <1>e, <1>r DEF RunsTypes, TypeOK, Phases
<1>2. \A q \in Runs : PhaseFacts(q)'
  BY <1>t, <1>e, <1>r, <1>p, <1>a DEF PhaseFacts, RunsInv
<1>3. HealthyRecord'
  <2> SUFFICES ASSUME ~unusable', NEW q \in recent'
               PROVE  /\ rows'[q] # NoRow
                      /\ rows'[q].status = "COMPLETED" => rows'[q].type = Type[q]
                      /\ rows'[q].fired <=> alert'[q] = "accepted"
    BY DEF HealthyRecord
  <2>1. CASE q = r
    BY <2>1, <1>r, <1>t
  <2>2. CASE q # r
    <3>1. q \in recent /\ q \in Runs /\ ~unusable
      BY <2>2, <1>e, <1>t DEF RunsTypes
    <3> QED
      BY <3>1, <2>2, <1>r, <1>a DEF RunsInv, HealthyRecord
  <2> QED
    BY <2>1, <2>2
<1>4. FiredIsAccepted'
  BY <1>r, <1>t, <1>a DEF RunsInv, FiredIsAccepted
<1>5. TriggerAnswersFreshJob'
  <2> SUFFICES ASSUME NEW q \in Runs, Type[q] = "MANUAL_ONDEMAND", phase'[q] = "over", q \notin failed'
               PROVE  /\ rows'[q] # NoRow /\ response'[q] # {}
                      /\ \A j \in response'[q] : /\ Table[j] = Table[q] /\ rows'[j] # NoRow
                                                  /\ start'[j] >= start'[q]
    BY DEF TriggerAnswersFreshJob
  <2>1. CASE q = r
    <3>1. rows'[r] # NoRow /\ rows'[r].type = "MANUAL_ONDEMAND" /\ response'[r] = LatestJobs(r)
      BY <2>1, <1>e, <1>r
    <3>2. \A p \in Runs : rows'[p] # NoRow => phase'[p] # "new"
      BY <1>2 DEF PhaseFacts
    <3>3. IsFiniteSet(Started') /\ start' \in [Runs -> Nat]
      BY <1>1 DEF RunsTypes, TypeOK
    <3> QED
      BY <2>1, <3>1, <3>2, <3>3, LatestAreFresh
  <2>2. CASE q # r
    <3>1. /\ rows[q] # NoRow /\ response[q] # {}
          /\ \A j \in response[q] : /\ Table[j] = Table[q] /\ rows[j] # NoRow
                                     /\ start[j] >= start[q]
      BY <2>2, <1>e, <1>p DEF RunsInv, TriggerAnswersFreshJob
    <3>2. response[q] \subseteq Runs
      BY <1>t DEF RunsTypes, TypeOK
    <3> QED
      BY <2>2, <3>1, <3>2, <1>e, <1>p, <1>r, <1>t
  <2> QED
    BY <2>1, <2>2
<1> QED
  BY <1>1, <1>2, <1>3, <1>4, <1>5 DEF RunsInv

\* The environment: a lost connection, and a restart, which kills the runs that wait.
LEMMA ConnectionLostStep ==
    ASSUME RunsInv, ConnectionLost
    PROVE  RunsInv'
<1>1. RunsTypes'
  BY ReconciliationAssumption
     DEF RunsInv, RunsTypes, TypeOK, ConnectionLost, Outage, Started
<1>2. unusable' = TRUE /\ UNCHANGED <<phase, start, rows, alert, response, failed, recent>>
  BY DEF ConnectionLost, Outage
<1> QED
  BY <1>1, <1>2 DEF RunsInv, PhaseFacts, HealthyRecord, FiredIsAccepted, TriggerAnswersFreshJob

LEMMA RestartProcessStep ==
    ASSUME RunsInv, RestartProcess
    PROVE  RunsInv'
<1>1. /\ recent' = {} /\ unusable' = FALSE
      /\ UNCHANGED <<start, rows, alert, response, failed, outages>>
      /\ phase' = [r \in Runs |-> IF phase[r] = "pushing" THEN "killed" ELSE phase[r]]
  BY DEF RestartProcess
<1>2. \A r \in Runs : phase'[r] = IF phase[r] = "pushing" THEN "killed" ELSE phase[r]
  BY <1>1
<1>3. Started' = Started
  BY <1>2 DEF Started
<1>4. phase \in [Runs -> Phases]
  BY DEF RunsInv, RunsTypes, TypeOK, Phases
<1>5. phase' \in [Runs -> Phases]
  BY <1>1, <1>4 DEF Phases
<1>6. RunsTypes'
  <2>1. \A r \in Runs : phase'[r] = "new" <=> start'[r] = 0
    BY <1>1, <1>2 DEF RunsInv, RunsTypes, TypeOK
  <2> QED
    BY <1>1, <1>3, <1>5, <2>1 DEF RunsInv, RunsTypes, TypeOK, Phases
<1>7. \A r \in Runs : PhaseFacts(r)'
  BY <1>1, <1>2 DEF RunsInv, PhaseFacts
<1>8. HealthyRecord' /\ FiredIsAccepted'
  BY <1>1 DEF RunsInv, HealthyRecord, FiredIsAccepted
<1>9. TriggerAnswersFreshJob'
  BY <1>1, <1>2 DEF RunsInv, TriggerAnswersFreshJob
<1> QED
  BY <1>6, <1>7, <1>8, <1>9 DEF RunsInv

\* Every drift a run can count is a natural number.
LEMMA DriftsAreNat == Drifts \subseteq Nat
<1> SUFFICES ASSUME NEW cass \in CassandraCounts, NEW pg \in PostgresCounts
             PROVE  Drift(cass, pg) \in Nat
  BY DEF Drifts
<1> QED
  BY DriftIsNat, ReconciliationAssumption

\* The invariant holds of every reachable state, for any runs over any tables, any counts
\* and any number of outages.
THEOREM RunsInvariant == RunsSpec => []RunsInv
<1>1. RunsInit => RunsInv
  BY RunsStart
<1>2. RunsInv /\ [RunsNext]_runVars => RunsInv'
  <2> SUFFICES ASSUME RunsInv, [RunsNext]_runVars
               PROVE  RunsInv'
    OBVIOUS
  <2>t. RunsTypes
    BY DEF RunsInv
  <2>1. ASSUME NEW r \in Runs, CassandraCountFails(r) \/ PostgresCountFails(r)
        PROVE  RunsInv'
    BY <2>1, <2>t, RunSettles, SettlesStep
  <2>2. ASSUME NEW r \in Runs, NEW drift \in Drifts,
               \/ Overflows(r, drift) \/ RefusedByModel(r, drift)
               \/ Completes(r, drift) \/ CompletesBadly(r, drift)
        PROVE  RunsInv'
    <3>1. drift \in Nat
      BY DriftsAreNat
    <3>2. CASE Completes(r, drift) /\ drift >= Warning
      BY <3>1, <3>2, PushBegins
    <3>3. CASE ~(Completes(r, drift) /\ drift >= Warning)
      <4>1. Completes(r, drift) => drift < Warning
        BY <3>1, <3>3 DEF Warning
      <4>2. Settles(r)
        BY <2>2, <3>1, <4>1, <2>t, RunSettles
      <4> QED
        BY <4>2, SettlesStep
    <3> QED
      BY <3>2, <3>3
  <2>3. ASSUME NEW r \in Runs, PushAccepted(r) \/ PushFails(r)
        PROVE  RunsInv'
    BY <2>3, <2>t, RunPushed, PushedStep
  <2>4. CASE ConnectionLost
    BY <2>4, ConnectionLostStep
  <2>5. CASE RestartProcess
    BY <2>5, RestartProcessStep
  <2>6. CASE UNCHANGED runVars
    BY <2>6 DEF runVars, RunsInv, RunsTypes, TypeOK, Started, PhaseFacts, HealthyRecord,
                FiredIsAccepted, TriggerAnswersFreshJob
  <2> QED
    BY <2>1, <2>2, <2>3, <2>4, <2>5, <2>6 DEF RunsNext
<1> QED
  BY <1>1, <1>2, PTL DEF RunsSpec

\* The columns and variables keep their types, and no two runs have the same place.
THEOREM RunsTypeCorrect == RunsSpec => []TypeOK
<1>1. RunsInv => TypeOK
  BY DEF RunsInv, RunsTypes
<1> QED
  BY RunsInvariant, <1>1, PTL

\* While the connection works, each run that has ended is recorded rightly.
THEOREM HealthyRecordsAreRight == RunsSpec => []HealthyRecord
<1>1. RunsInv => HealthyRecord
  BY DEF RunsInv
<1> QED
  BY RunsInvariant, <1>1, PTL

\* A job says its alert fired only when the Pushgateway took it, for a drift that calls
\* for one.
THEOREM FiredAlertsAreAccepted == RunsSpec => []FiredIsAccepted
<1>1. RunsInv => FiredIsAccepted
  BY DEF RunsInv
<1> QED
  BY RunsInvariant, <1>1, PTL

\* A trigger answered with 200 hands out its own job or a later one.
THEOREM TriggersAnswerFreshJobs == RunsSpec => []TriggerAnswersFreshJob
<1>1. RunsInv => TriggerAnswersFreshJob
  BY DEF RunsInv
<1> QED
  BY RunsInvariant, <1>1, PTL
=============================================================================
