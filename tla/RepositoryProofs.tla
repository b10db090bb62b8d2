-------------------------- MODULE RepositoryProofs --------------------------
(***************************************************************************)
(* The PostgreSQL repository.  The breaker, for any number of threads,     *)
(* threshold and timeout: its type, that it never settles closed over the  *)
(* threshold, and that calls that do not overlap are governed exactly by   *)
(* FR-020.  The retried upsert around it, for any pool and retry window:   *)
(* no connection is kept, and what the caller is told agrees with what the *)
(* server did.  The TTL trigger inside the server, for any writers, keys   *)
(* and operations: no renewed row is deleted, and none left that expired.  *)
(***************************************************************************)
EXTENDS BreakerPolicy, PostgresRepository, TtlRetention, TLAPS

\* What any user of a breaker may make of it: a thread executes its next statement of call,
\* whether func returns or raises; time passes; something else happens.
Called(t) ==
    \/ Enter(t) \/ CheckElapsed(t) \/ ToHalfOpen(t)
    \/ FuncReturns(t) \/ FuncRaises(t) \/ Bookkeeping(t)

Passes == sinceFailure < timeout_seconds /\ sinceFailure' = sinceFailure + 1

Used ==
    \/ \E t \in Threads : Called(t)
    \/ (Passes \/ UNCHANGED sinceFailure) /\ UNCHANGED <<state, failure_count, pc>> /\ failing' \in BOOLEAN

LEMMA UsedByCallers == TypeOK /\ [Next]_vars => Used
<1>. SUFFICES ASSUME TypeOK, [Next]_vars PROVE Used
  OBVIOUS
<1>1. failing \in BOOLEAN
  BY DEF TypeOK
<1>2. ASSUME NEW t \in Threads, Enter(t) \/ Working(t) PROVE Used
  BY <1>2 DEF Used, Called, Working, Func
<1>3. CASE Tick \/ DatabaseChanges \/ UNCHANGED vars
  BY <1>1, <1>3 DEF Used, Passes, Tick, DatabaseChanges, vars, object
<1>. QED
  BY <1>2, <1>3 DEF Next

LEMMA UsedByRepository == TypeOK /\ [RepoNext]_repoVars => Used
<1>. SUFFICES ASSUME TypeOK, [RepoNext]_repoVars PROVE Used
  OBVIOUS
<1>1. failing \in BOOLEAN
  BY DEF TypeOK
<1>2. UNCHANGED breaker => Used
  BY <1>1 DEF Used, breaker, vars
<1>3. ASSUME NEW t \in Threads, Begin(t) \/ Proceed(t) \/ Leave(t) PROVE Used
  <2>1. CASE Begin(t) \/ Retry(t)
    BY <2>1 DEF Begin, Retry, Used, Called
  <2>2. CASE BackOff(t) \/ Finish(t) \/ Leave(t) \/ GetConn(t)
    BY <2>2, <1>2 DEF BackOff, Finish, Leave, GetConn
  <2>3. CASE Admit(t)
    BY <2>3 DEF Admit, Used, Called
  <2>4. CASE GetConnRaises(t) \/ Commit(t) \/ ConnectionLost(t) \/ RecordRefused(t)
    BY <2>4 DEF GetConnRaises, Commit, ConnectionLost, RecordRefused, Used, Called
  <2>5. CASE Account(t)
    BY <2>5 DEF Account, Used, Called
  <2>. QED
    BY <1>3, <2>1, <2>2, <2>3, <2>4, <2>5 DEF Proceed
<1>4. ASSUME NEW b \in Borrowers, Borrow(b) \/ GiveBack(b) PROVE Used
  BY <1>2, <1>4 DEF Borrow, GiveBack
<1>5. CASE RepoTick
  BY <1>1, <1>5 DEF RepoTick, Used, Passes
<1>6. CASE UNCHANGED repoVars
  BY <1>2, <1>6 DEF repoVars
<1>. QED
  BY <1>3, <1>4, <1>5, <1>6 DEF RepoNext

LEMMA TypeInitially == Init => TypeOK
<1>1. timeout_seconds \in 0..timeout_seconds /\ 0 \in 0..failure_threshold
  BY BreakerAssumption
<1>2. [t \in Threads |-> "idle"] \in [Threads -> Labels]
  BY DEF Labels
<1>3. FALSE \in BOOLEAN /\ 0 \in Nat
  OBVIOUS
<1>. QED
  BY <1>1, <1>2, <1>3, Zenon DEF Init, TypeOK

LEMMA TypeKept == TypeOK /\ Used => TypeOK'
<1>. SUFFICES ASSUME TypeOK, Used PROVE TypeOK'
  OBVIOUS
<1>. USE BreakerAssumption DEF TypeOK, Labels, Goto, object
<1>1. ASSUME NEW t \in Threads, Enter(t) PROVE TypeOK'
  BY <1>1 DEF Enter
<1>2. ASSUME NEW t \in Threads, CheckElapsed(t) PROVE TypeOK'
  BY <1>2 DEF CheckElapsed
<1>3. ASSUME NEW t \in Threads, ToHalfOpen(t) PROVE TypeOK'
  BY <1>3 DEF ToHalfOpen
<1>4. ASSUME NEW t \in Threads, FuncReturns(t) PROVE TypeOK'
  BY <1>4 DEF FuncReturns
<1>5. ASSUME NEW t \in Threads, FuncRaises(t) PROVE TypeOK'
  BY <1>5 DEF FuncRaises
<1>6. ASSUME NEW t \in Threads, OnSuccess(t) PROVE TypeOK'
  BY <1>6 DEF OnSuccess
<1>7. ASSUME NEW t \in Threads, Close(t) PROVE TypeOK'
  BY <1>7 DEF Close
<1>8. ASSUME NEW t \in Threads, ResetCount(t) PROVE TypeOK'
  BY <1>8 DEF ResetCount
<1>9. ASSUME NEW t \in Threads, CountFailure(t) PROVE TypeOK'
  BY <1>9 DEF CountFailure
<1>10. ASSUME NEW t \in Threads, StampFailure(t) PROVE TypeOK'
  BY <1>10 DEF StampFailure
<1>11. ASSUME NEW t \in Threads, Compare(t) PROVE TypeOK'
  BY <1>11 DEF Compare
<1>12. ASSUME NEW t \in Threads, Guard(t) PROVE TypeOK'
  BY <1>12 DEF Guard
<1>13. ASSUME NEW t \in Threads, Trip(t) PROVE TypeOK'
  BY <1>13 DEF Trip
<1>. QED
  BY <1>1, <1>2, <1>3, <1>4, <1>5, <1>6, <1>7, <1>8, <1>9, <1>10, <1>11, <1>12, <1>13
     DEF Used, Passes, Called, Bookkeeping

LEMMA SettledKept == TypeOK /\ SettledBelowThreshold /\ Used => SettledBelowThreshold'
<1>. SUFFICES ASSUME TypeOK, SettledBelowThreshold, Used PROVE SettledBelowThreshold'
  OBVIOUS
<1>. USE BreakerAssumption DEF TypeOK, SettledBelowThreshold, Goto, object
<1>1. ASSUME NEW t \in Threads, Enter(t) PROVE SettledBelowThreshold'
  BY <1>1 DEF Enter
<1>2. ASSUME NEW t \in Threads, CheckElapsed(t) PROVE SettledBelowThreshold'
  BY <1>2 DEF CheckElapsed
<1>3. ASSUME NEW t \in Threads, ToHalfOpen(t) PROVE SettledBelowThreshold'
  BY <1>3 DEF ToHalfOpen
<1>4. ASSUME NEW t \in Threads, FuncReturns(t) PROVE SettledBelowThreshold'
  BY <1>4 DEF FuncReturns
<1>5. ASSUME NEW t \in Threads, FuncRaises(t) PROVE SettledBelowThreshold'
  BY <1>5 DEF FuncRaises
<1>6. ASSUME NEW t \in Threads, OnSuccess(t) PROVE SettledBelowThreshold'
  BY <1>6 DEF OnSuccess
<1>7. ASSUME NEW t \in Threads, Close(t) PROVE SettledBelowThreshold'
  BY <1>7 DEF Close
<1>8. ASSUME NEW t \in Threads, ResetCount(t) PROVE SettledBelowThreshold'
  BY <1>8 DEF ResetCount
<1>9. ASSUME NEW t \in Threads, CountFailure(t) PROVE SettledBelowThreshold'
  BY <1>9 DEF CountFailure
<1>10. ASSUME NEW t \in Threads, StampFailure(t) PROVE SettledBelowThreshold'
  BY <1>10 DEF StampFailure
<1>11. ASSUME NEW t \in Threads, Compare(t) PROVE SettledBelowThreshold'
  BY <1>11 DEF Compare
<1>12. ASSUME NEW t \in Threads, Guard(t) PROVE SettledBelowThreshold'
  BY <1>12 DEF Guard
<1>13. ASSUME NEW t \in Threads, Trip(t) PROVE SettledBelowThreshold'
  BY <1>13 DEF Trip
<1>. QED
  BY <1>1, <1>2, <1>3, <1>4, <1>5, <1>6, <1>7, <1>8, <1>9, <1>10, <1>11, <1>12, <1>13
     DEF Used, Passes, Called, Bookkeeping

LEMMA SettledInitially == Init => SettledBelowThreshold
BY BreakerAssumption DEF Init, SettledBelowThreshold

\* Every step keeps the types.
THEOREM TypeCorrect == Spec => []TypeOK
<1>1. TypeOK /\ [Next]_vars => TypeOK'
  BY UsedByCallers, TypeKept
<1>. QED
  BY <1>1, TypeInitially, PTL DEF Spec

\* The breaker never rests closed over the threshold, however the threads interleave.
THEOREM NeverSettlesOverThreshold == Spec => []SettledBelowThreshold
<1>1. TypeOK /\ SettledBelowThreshold /\ [Next]_vars => SettledBelowThreshold'
  BY UsedByCallers, SettledKept
<1>. QED
  BY <1>1, SettledInitially, TypeCorrect, PTL DEF Spec

\* The same of the breaker inside upsert: neither the retries, nor the pool, nor errors of any
\* kind that reach it as failures, leave it closed over the threshold.
THEOREM RetriesNeverSettleOverThreshold == RepoSpec => [](TypeOK /\ SettledBelowThreshold)
<1>1. RepoInit => TypeOK /\ SettledBelowThreshold
  BY TypeInitially, SettledInitially DEF RepoInit
<1>2. TypeOK /\ SettledBelowThreshold /\ [RepoNext]_repoVars => (TypeOK /\ SettledBelowThreshold)'
  BY UsedByRepository, TypeKept, SettledKept
<1>. QED
  BY <1>1, <1>2, PTL DEF RepoSpec

-----------------------------------------------------------------------------
(* Calls that do not overlap.  Between and within them the state, the count    *)
(* and the streak of failed calls move together; Stage says how at each        *)
(* statement of the one call in progress.                                      *)

Over == failure_count >= failure_threshold

AfterFailure == IF Over THEN failure_count ELSE failure_count + 1

Admitting == state = IF Over THEN "half_open" ELSE "closed"

Stage(label) ==
    CASE label = "idle" -> TRUE
      [] label \in {"elapsed", "probe"} -> state = "open" /\ Over /\ streak = failure_count
      [] label = "func" -> Admitting /\ streak = failure_count
      [] label \in {"success", "close"} -> state # "open" /\ streak = 0
      [] label = "reset" -> state = "closed" /\ streak = 0
      [] label = "count" -> Admitting /\ streak = AfterFailure
      [] label \in {"stamp", "compare"} ->
            state # "open" /\ (state = "half_open" => Over) /\ streak = failure_count
      [] label \in {"guard", "trip"} -> state # "open" /\ Over /\ streak = failure_count

Rest == state = (IF Over THEN "open" ELSE "closed") /\ streak = failure_count

SerialInv ==
    ~overlapped =>
      /\ ~Overlap(pc)
      /\ Quiet => Rest
      /\ \A t \in Threads : Stage(pc[t])

\* Only the one call in progress moves, so its own stage is all a step has to show.
LEMMA OneCallMoves ==
    ASSUME TypeOK, SerialInv, NEW t \in Threads, pc[t] # "idle",
           NEW label, Goto(t, label), Watch,
           ~overlapped => IF label = "idle" THEN Rest' ELSE Stage(label)'
    PROVE  SerialInv'
<1>. SUFFICES ASSUME ~overlapped PROVE SerialInv'
  BY DEF SerialInv, Watch
<1>1. \A u \in Threads : pc'[u] = IF u = t THEN label ELSE "idle"
  BY DEF TypeOK, SerialInv, Overlap, Goto
<1>2. \A u \in Threads : Stage(pc[u])'
  <2>1. \A u \in Threads : u # t => Stage(pc[u])'
    BY <1>1 DEF Stage
  <2>2. Stage(pc[t])'
    BY <1>1 DEF Stage
  <2>. QED
    BY <2>1, <2>2
<1>3. (Quiet => Rest)'
  BY <1>1 DEF Quiet
<1>4. ~Overlap(pc)'
  BY <1>1 DEF Overlap
<1>. QED
  BY <1>2, <1>3, <1>4 DEF SerialInv

\* What the history records of a step of t's call.
LEMMA WatchStep ==
    ASSUME TypeOK, NEW t \in Threads, NEW label, Goto(t, label), label # pc[t], Watch
    PROVE  streak' = CASE pc[t] = "func" /\ label = "success" -> 0
                       [] pc[t] = "func" /\ label = "count" ->
                             IF streak < failure_threshold THEN streak + 1 ELSE streak
                       [] OTHER -> streak
<1>1. \A u \in Threads : pc'[u] = IF u = t THEN label ELSE pc[u]
  BY DEF TypeOK, Goto
<1>2. ASSUME NEW from, NEW to, from # to
      PROVE  (\E u \in Threads : Moved(u, from, to)) <=> pc[t] = from /\ label = to
  BY <1>1, <1>2 DEF Moved
<1>. QED
  BY <1>2 DEF Watch

\* The history restricts nothing: what is watched is a breaker.
LEMMA PolicyWatches == PolicySpec => Spec
<1>1. PolicyInit => Init
  BY DEF PolicyInit
<1>2. [PolicyNext]_policyVars => [Next]_vars
  BY DEF PolicyNext, policyVars
<1>. QED
  BY <1>1, <1>2, PTL DEF PolicySpec, Spec

\* FR-020, exactly, for calls that do not overlap.
THEOREM SerialCallsFollowPolicy == PolicySpec => []SerialPolicy
<1>1. PolicyInit => SerialInv
  BY BreakerAssumption DEF PolicyInit, Init, SerialInv, Overlap, Quiet, Rest, Stage, Over
<1>2. ASSUME TypeOK, SerialInv, [PolicyNext]_policyVars PROVE SerialInv'
  <2>. USE <1>2, BreakerAssumption
  <2>. USE DEF TypeOK, Rest, Over, AfterFailure, Admitting, object
  <2>1. ASSUME NEW t \in Threads, Enter(t), Watch PROVE SerialInv'
    <3>. SUFFICES ASSUME ~overlapped' PROVE SerialInv'
      BY DEF SerialInv
    <3>1. \A u \in Threads : pc'[u] = IF u # t THEN pc[u]
                                      ELSE IF state = "open" THEN "elapsed" ELSE "func"
      BY <2>1 DEF Enter, Goto
    <3>2. Quiet /\ ~overlapped
      BY <2>1, <3>1 DEF Enter, Watch, Quiet, Overlap
    <3>3. Rest
      BY <3>2 DEF SerialInv
    <3>4. streak' = streak
      BY <2>1, WatchStep DEF Enter
    <3>5. \A u \in Threads : Stage(pc[u])'
      BY <2>1, <3>1, <3>2, <3>3, <3>4 DEF Enter, Stage, Quiet
    <3>6. ~Overlap(pc)' /\ ~Quiet'
      BY <3>1, <3>2 DEF Overlap, Quiet
    <3>. QED
      BY <3>5, <3>6 DEF SerialInv
  <2>2. ASSUME NEW t \in Threads, CheckElapsed(t), Watch PROVE SerialInv'
    <3>0. PICK label \in Labels : label = IF sinceFailure >= timeout_seconds THEN "probe" ELSE "idle"
      BY DEF Labels
    <3>1. pc[t] = "elapsed" /\ Goto(t, label) /\ label # pc[t]
      BY <3>0, <2>2 DEF CheckElapsed
    <3>2. ~overlapped => Stage("elapsed")
      BY <3>1 DEF SerialInv
    <3>3. streak' = streak
      BY <2>2, <3>1, WatchStep
    <3>4. ~overlapped => IF label = "idle" THEN Rest' ELSE Stage(label)'
      BY <3>0, <2>2, <3>2, <3>3 DEF CheckElapsed, Stage
    <3>. QED
      BY <2>2, <3>1, <3>4, OneCallMoves
  <2>3. ASSUME NEW t \in Threads, ToHalfOpen(t), Watch PROVE SerialInv'
    <3>. DEFINE label == "func"
    <3>1. pc[t] = "probe" /\ Goto(t, label) /\ label # pc[t]
      BY <2>3 DEF ToHalfOpen
    <3>2. ~overlapped => Stage("probe")
      BY <3>1 DEF SerialInv
    <3>3. streak' = streak
      BY <2>3, <3>1, WatchStep
    <3>4. ~overlapped => IF label = "idle" THEN Rest' ELSE Stage(label)'
      BY <2>3, <3>2, <3>3 DEF ToHalfOpen, Stage
    <3>. QED
      BY <2>3, <3>1, <3>4, OneCallMoves
  <2>4. ASSUME NEW t \in Threads, FuncReturns(t), Watch PROVE SerialInv'
    <3>. DEFINE label == "success"
    <3>1. pc[t] = "func" /\ Goto(t, label) /\ label # pc[t]
      BY <2>4 DEF FuncReturns
    <3>2. ~overlapped => Stage("func")
      BY <3>1 DEF SerialInv
    <3>3. streak' = 0
      BY <2>4, <3>1, WatchStep
    <3>4. ~overlapped => IF label = "idle" THEN Rest' ELSE Stage(label)'
      BY <2>4, <3>2, <3>3 DEF FuncReturns, Stage
    <3>. QED
      BY <2>4, <3>1, <3>4, OneCallMoves
  <2>5. ASSUME NEW t \in Threads, FuncRaises(t), Watch PROVE SerialInv'
    <3>. DEFINE label == "count"
    <3>1. pc[t] = "func" /\ Goto(t, label) /\ label # pc[t]
      BY <2>5 DEF FuncRaises
    <3>2. ~overlapped => Stage("func")
      BY <3>1 DEF SerialInv
    <3>3. streak' = IF streak < failure_threshold THEN streak + 1 ELSE streak
      BY <2>5, <3>1, WatchStep
    <3>4. ~overlapped => IF label = "idle" THEN Rest' ELSE Stage(label)'
      BY <2>5, <3>2, <3>3 DEF FuncRaises, Stage
    <3>. QED
      BY <2>5, <3>1, <3>4, OneCallMoves
  <2>6. ASSUME NEW t \in Threads, OnSuccess(t), Watch PROVE SerialInv'
    <3>0. PICK label \in Labels : label = IF state = "half_open" THEN "close" ELSE "reset"
      BY DEF Labels
    <3>1. pc[t] = "success" /\ Goto(t, label) /\ label # pc[t]
      BY <3>0, <2>6 DEF OnSuccess
    <3>2. ~overlapped => Stage("success")
      BY <3>1 DEF SerialInv
    <3>3. streak' = streak
      BY <2>6, <3>1, WatchStep
    <3>4. ~overlapped => IF label = "idle" THEN Rest' ELSE Stage(label)'
      BY <3>0, <2>6, <3>2, <3>3 DEF OnSuccess, Stage
    <3>. QED
      BY <2>6, <3>1, <3>4, OneCallMoves
  <2>7. ASSUME NEW t \in Threads, Close(t), Watch PROVE SerialInv'
    <3>. DEFINE label == "reset"
    <3>1. pc[t] = "close" /\ Goto(t, label) /\ label # pc[t]
      BY <2>7 DEF Close
    <3>2. ~overlapped => Stage("close")
      BY <3>1 DEF SerialInv
    <3>3. streak' = streak
      BY <2>7, <3>1, WatchStep
    <3>4. ~overlapped => IF label = "idle" THEN Rest' ELSE Stage(label)'
      BY <2>7, <3>2, <3>3 DEF Close, Stage
    <3>. QED
      BY <2>7, <3>1, <3>4, OneCallMoves
  <2>8. ASSUME NEW t \in Threads, ResetCount(t), Watch PROVE SerialInv'
    <3>. DEFINE label == "idle"
    <3>1. pc[t] = "reset" /\ Goto(t, label) /\ label # pc[t]
      BY <2>8 DEF ResetCount
    <3>2. ~overlapped => Stage("reset")
      BY <3>1 DEF SerialInv
    <3>3. streak' = streak
      BY <2>8, <3>1, WatchStep
    <3>4. ~overlapped => IF label = "idle" THEN Rest' ELSE Stage(label)'
      BY <2>8, <3>2, <3>3 DEF ResetCount, Stage
    <3>. QED
      BY <2>8, <3>1, <3>4, OneCallMoves
  <2>9. ASSUME NEW t \in Threads, CountFailure(t), Watch PROVE SerialInv'
    <3>. DEFINE label == "stamp"
    <3>1. pc[t] = "count" /\ Goto(t, label) /\ label # pc[t]
      BY <2>9 DEF CountFailure
    <3>2. ~overlapped => Stage("count")
      BY <3>1 DEF SerialInv
    <3>3. streak' = streak
      BY <2>9, <3>1, WatchStep
    <3>4. ~overlapped => IF label = "idle" THEN Rest' ELSE Stage(label)'
      BY <2>9, <3>2, <3>3 DEF CountFailure, Stage
    <3>. QED
      BY <2>9, <3>1, <3>4, OneCallMoves
  <2>10. ASSUME NEW t \in Threads, StampFailure(t), Watch PROVE SerialInv'
    <3>. DEFINE label == "compare"
    <3>1. pc[t] = "stamp" /\ Goto(t, label) /\ label # pc[t]
      BY <2>10 DEF StampFailure
    <3>2. ~overlapped => Stage("stamp")
      BY <3>1 DEF SerialInv
    <3>3. streak' = streak
      BY <2>10, <3>1, WatchStep
    <3>4. ~overlapped => IF label = "idle" THEN Rest' ELSE Stage(label)'
      BY <2>10, <3>2, <3>3 DEF StampFailure, Stage
    <3>. QED
      BY <2>10, <3>1, <3>4, OneCallMoves
  <2>11. ASSUME NEW t \in Threads, Compare(t), Watch PROVE SerialInv'
    <3>0. PICK label \in Labels : label = IF failure_count >= failure_threshold THEN "guard" ELSE "idle"
      BY DEF Labels
    <3>1. pc[t] = "compare" /\ Goto(t, label) /\ label # pc[t]
      BY <3>0, <2>11 DEF Compare
    <3>2. ~overlapped => Stage("compare")
      BY <3>1 DEF SerialInv
    <3>3. streak' = streak
      BY <2>11, <3>1, WatchStep
    <3>4. ~overlapped => IF label = "idle" THEN Rest' ELSE Stage(label)'
      BY <3>0, <2>11, <3>2, <3>3 DEF Compare, Stage
    <3>. QED
      BY <2>11, <3>1, <3>4, OneCallMoves
  <2>12. ASSUME NEW t \in Threads, Guard(t), Watch PROVE SerialInv'
    <3>0. PICK label \in Labels : label = IF state # "open" THEN "trip" ELSE "idle"
      BY DEF Labels
    <3>1. pc[t] = "guard" /\ Goto(t, label) /\ label # pc[t]
      BY <3>0, <2>12 DEF Guard
    <3>2. ~overlapped => Stage("guard")
      BY <3>1 DEF SerialInv
    <3>3. streak' = streak
      BY <2>12, <3>1, WatchStep
    <3>4. ~overlapped => IF label = "idle" THEN Rest' ELSE Stage(label)'
      BY <3>0, <2>12, <3>2, <3>3 DEF Guard, Stage
    <3>. QED
      BY <2>12, <3>1, <3>4, OneCallMoves
  <2>13. ASSUME NEW t \in Threads, Trip(t), Watch PROVE SerialInv'
    <3>. DEFINE label == "idle"
    <3>1. pc[t] = "trip" /\ Goto(t, label) /\ label # pc[t]
      BY <2>13 DEF Trip
    <3>2. ~overlapped => Stage("trip")
      BY <3>1 DEF SerialInv
    <3>3. streak' = streak
      BY <2>13, <3>1, WatchStep
    <3>4. ~overlapped => IF label = "idle" THEN Rest' ELSE Stage(label)'
      BY <2>13, <3>2, <3>3 DEF Trip, Stage
    <3>. QED
      BY <2>13, <3>1, <3>4, OneCallMoves
  <2>14. ASSUME Tick \/ DatabaseChanges \/ UNCHANGED vars,
                Watch \/ UNCHANGED <<overlapped, streak>>
         PROVE  SerialInv'
    <3>1. pc' = pc /\ state' = state /\ failure_count' = failure_count
      BY <2>14 DEF Tick, DatabaseChanges, vars
    <3>2. \/ streak' = streak /\ (overlapped' <=> overlapped \/ Overlap(pc))
          \/ UNCHANGED <<overlapped, streak>>
      BY <2>14, <3>1 DEF Watch, Moved
    <3>. QED
      BY <3>1, <3>2 DEF SerialInv, Overlap, Quiet, Stage
  <2>. QED
    BY <1>2, <2>1, <2>2, <2>3, <2>4, <2>5, <2>6, <2>7, <2>8, <2>9, <2>10, <2>11, <2>12,
       <2>13, <2>14 DEF PolicyNext, policyVars, Next, Working, Func, Bookkeeping
<1>3. TypeOK /\ SerialInv => SerialPolicy
  BY BreakerAssumption DEF TypeOK, SerialInv, SerialPolicy, Rest, Over
<1>. QED
  BY <1>1, <1>2, <1>3, PolicyWatches, TypeCorrect, PTL DEF PolicySpec

\* Every step keeps the types of what is watched: the streak is counted up to the threshold.
THEOREM PolicyTypeCorrect == PolicySpec => []PolicyTypeOK
<1> DEFINE Watched == overlapped \in BOOLEAN /\ streak \in 0..failure_threshold
<1>1. PolicyInit => Watched
  <2>1. FALSE \in BOOLEAN /\ 0 \in 0..failure_threshold
    BY BreakerAssumption
  <2>. QED
    BY <2>1, Zenon DEF PolicyInit
<1>2. Watched /\ [PolicyNext]_policyVars => Watched'
  <2>. SUFFICES ASSUME Watched, [PolicyNext]_policyVars PROVE Watched'
    OBVIOUS
  <2>1. CASE Watch
    <3>1. overlapped' \in BOOLEAN
      BY <2>1 DEF Watch, Overlap
    <3>2. streak' \in {0, streak} \/ (streak < failure_threshold /\ streak' = streak + 1)
      BY <2>1 DEF Watch
    <3>. QED
      BY <3>1, <3>2, BreakerAssumption
  <2>2. CASE UNCHANGED policyVars
    BY <2>2 DEF policyVars
  <2>. QED
    BY <2>1, <2>2 DEF PolicyNext
<1>3. Watched /\ TypeOK => PolicyTypeOK
  BY DEF PolicyTypeOK
<1>. HIDE DEF Watched
<1>. QED
  BY <1>1, <1>2, <1>3, PolicyWatches, TypeCorrect, PTL DEF PolicySpec

-----------------------------------------------------------------------------
(* upsert *)

Succeeding == {"success", "close", "reset"}
Failing == {"count", "stamp", "compare", "guard", "trip"}

Typed ==
    /\ pc \in [Threads -> Labels]
    /\ upsert \in [Threads -> {"idle", "attempt", "backoff", "returned", "raised"}]
    /\ outcome \in [Threads -> {"none", "ok", "operational", "pool", "data", "open"}]
    /\ wrote \in [Threads -> 0..2]

\* What the label of call in which a thread stands says about its attempt.
Staged(t) ==
    /\ pc[t] # "idle" => upsert[t] = "attempt"
    /\ pc[t] \in {"elapsed", "probe", "func"} => outcome[t] = "none"
    /\ pc[t] \in Succeeding => outcome[t] = "ok"
    /\ pc[t] \in Failing => outcome[t] \notin {"none", "ok"}
    /\ upsert[t] \in {"idle", "backoff"} => outcome[t] = "none"
    /\ upsert[t] = "returned" => outcome[t] = "ok"

\* An attempt that ended well was applied; without a lost acknowledgement nothing else was.
Accounted(t) ==
    /\ outcome[t] = "ok" => wrote[t] > 0 /\ t \notin BadRecords
    /\ t \notin lostAcks => wrote[t] = IF outcome[t] = "ok" THEN 1 ELSE 0

RepoInv ==
    /\ Typed
    /\ NoConnectionLeak
    /\ \A t \in Threads : Staged(t) /\ Accounted(t)

\* The statements of call after func stay in their branch until the call is over.
LEMMA BookkeepingMoves ==
    ASSUME NEW t \in Threads, pc \in [Threads -> Labels], Bookkeeping(t)
    PROVE  \E label \in Labels :
              /\ pc' = [pc EXCEPT ![t] = label]
              /\ \/ pc[t] \in Succeeding /\ label \in Succeeding \cup {"idle"}
                 \/ pc[t] \in Failing /\ label \in Failing \cup {"idle"}
<1>. USE DEF Goto, Labels, Succeeding, Failing
<1>1. CASE OnSuccess(t)
  BY <1>1 DEF OnSuccess
<1>2. CASE Close(t)
  BY <1>2 DEF Close
<1>3. CASE ResetCount(t)
  BY <1>3 DEF ResetCount
<1>4. CASE CountFailure(t)
  BY <1>4 DEF CountFailure
<1>5. CASE StampFailure(t)
  BY <1>5 DEF StampFailure
<1>6. CASE Compare(t)
  BY <1>6 DEF Compare
<1>7. CASE Guard(t)
  BY <1>7 DEF Guard
<1>8. CASE Trip(t)
  BY <1>8 DEF Trip
<1>. QED
  BY <1>1, <1>2, <1>3, <1>4, <1>5, <1>6, <1>7, <1>8 DEF Bookkeeping

LEMMA RepoInitially == RepoInit => RepoInv
<1>. SUFFICES ASSUME RepoInit PROVE RepoInv
  OBVIOUS
<1>1. Typed
  BY DEF RepoInit, Init, Typed, Labels
<1>2. NoConnectionLeak
  BY DEF RepoInit, NoConnectionLeak
<1>3. \A t \in Threads : Staged(t) /\ Accounted(t)
  BY DEF RepoInit, Init, Staged, Accounted, Succeeding, Failing
<1>. QED
  BY <1>1, <1>2, <1>3 DEF RepoInv

\* A step that leaves a thread's own variables alone leaves what is said of it true.
LEMMA OthersKeep ==
    ASSUME NEW u \in Threads, Staged(u), Accounted(u),
           pc'[u] = pc[u], upsert'[u] = upsert[u], outcome'[u] = outcome[u],
           wrote'[u] = wrote[u], u \in lostAcks' <=> u \in lostAcks
    PROVE  Staged(u)' /\ Accounted(u)'
BY DEF Staged, Accounted

-----------------------------------------------------------------------------
(* The retry loop *)

LEMMA LoopStep ==
    ASSUME RepoInv, NEW t \in Threads,
           Begin(t) \/ Retry(t) \/ BackOff(t) \/ Finish(t) \/ Leave(t)
    PROVE  RepoInv'
<1>. USE DEF RepoInv, Typed
<1>1. CASE Begin(t) \/ Retry(t)
  <2>1. PICK label \in {"elapsed", "func"} : pc' = [pc EXCEPT ![t] = label]
    BY <1>1 DEF Begin, Retry, Enter, Goto
  <2>2. /\ pc[t] = "idle" /\ upsert[t] \in {"idle", "backoff"}
        /\ upsert' = [upsert EXCEPT ![t] = "attempt"]
        /\ UNCHANGED <<outcome, held, wrote, lostAcks>>
    BY <1>1 DEF Begin, Retry, Enter, writes
  <2>3. Typed'
    BY <2>1, <2>2 DEF Labels
  <2>4. NoConnectionLeak'
    BY <2>1, <2>2 DEF NoConnectionLeak
  <2>5. Staged(t)' /\ Accounted(t)'
    BY <2>1, <2>2 DEF Staged, Accounted, Succeeding, Failing
  <2>6. \A u \in Threads \ {t} : Staged(u)' /\ Accounted(u)'
    BY <2>1, <2>2, OthersKeep
  <2>. QED
    BY <2>3, <2>4, <2>5, <2>6
<1>2. CASE BackOff(t)
  <2>1. /\ pc[t] = "idle" /\ outcome[t] = "operational"
        /\ upsert' = [upsert EXCEPT ![t] = "backoff"]
        /\ outcome' = [outcome EXCEPT ![t] = "none"]
        /\ UNCHANGED <<pc, held, wrote, lostAcks>>
    BY <1>2 DEF BackOff, Settled, MayRetry, Ends, breaker, vars, writes
  <2>2. Typed' /\ NoConnectionLeak'
    BY <2>1 DEF NoConnectionLeak
  <2>3. Staged(t)' /\ Accounted(t)'
    BY <2>1 DEF Staged, Accounted, Succeeding, Failing
  <2>4. \A u \in Threads \ {t} : Staged(u)' /\ Accounted(u)'
    BY <2>1, OthersKeep
  <2>. QED
    BY <2>2, <2>3, <2>4
<1>3. CASE Finish(t)
  <2>1. /\ pc[t] = "idle" /\ outcome[t] # "none"
        /\ upsert' = [upsert EXCEPT ![t] = IF outcome[t] = "ok" THEN "returned" ELSE "raised"]
        /\ UNCHANGED <<pc, outcome, held, wrote, lostAcks>>
    BY <1>3 DEF Finish, Settled, breaker, vars, writes
  <2>2. Typed' /\ NoConnectionLeak'
    BY <2>1 DEF NoConnectionLeak
  <2>3. Staged(t)' /\ Accounted(t)'
    BY <2>1 DEF Staged, Accounted, Succeeding, Failing
  <2>4. \A u \in Threads \ {t} : Staged(u)' /\ Accounted(u)'
    BY <2>1, OthersKeep
  <2>. QED
    BY <2>2, <2>3, <2>4
<1>4. CASE Leave(t)
  <2>1. /\ pc[t] = "idle"
        /\ upsert' = [upsert EXCEPT ![t] = "idle"]
        /\ outcome' = [outcome EXCEPT ![t] = "none"]
        /\ wrote' = [wrote EXCEPT ![t] = 0]
        /\ lostAcks' = lostAcks \ {t}
        /\ UNCHANGED <<pc, held>>
    BY <1>4 DEF Leave, Ends, Staged, breaker, vars
  <2>2. Typed' /\ NoConnectionLeak'
    BY <2>1 DEF NoConnectionLeak
  <2>3. Staged(t)' /\ Accounted(t)'
    BY <2>1 DEF Staged, Accounted, Succeeding, Failing
  <2>4. \A u \in Threads \ {t} : Staged(u)' /\ Accounted(u)'
    BY <2>1, OthersKeep
  <2>. QED
    BY <2>2, <2>3, <2>4
<1>. QED
  BY <1>1, <1>2, <1>3, <1>4

-----------------------------------------------------------------------------
(* The breaker and the protected function *)

LEMMA CallStep ==
    ASSUME RepoInv, NEW t \in Threads,
           Admit(t) \/ GetConn(t) \/ GetConnRaises(t) \/ Account(t)
    PROVE  RepoInv'
<1>. USE DEF RepoInv, Typed
<1>1. CASE Admit(t)
  <2>1. /\ pc[t] \in {"elapsed", "probe"}
        /\ \/ /\ pc' = [pc EXCEPT ![t] = "func"] \/ pc' = [pc EXCEPT ![t] = "probe"]
              /\ UNCHANGED outcome
           \/ /\ pc' = [pc EXCEPT ![t] = "idle"]
              /\ outcome' = [outcome EXCEPT ![t] = "open"]
        /\ UNCHANGED <<upsert, held, wrote, lostAcks>>
    BY <1>1 DEF Admit, ToHalfOpen, CheckElapsed, Goto, Ends, writes
  <2>2. Typed' /\ NoConnectionLeak'
    BY <2>1 DEF NoConnectionLeak, Labels
  <2>3. Staged(t)' /\ Accounted(t)'
    BY <2>1 DEF Staged, Accounted, Succeeding, Failing
  <2>4. \A u \in Threads \ {t} : Staged(u)' /\ Accounted(u)'
    BY <2>1, OthersKeep
  <2>. QED
    BY <2>2, <2>3, <2>4
<1>2. CASE GetConn(t)
  <2>1. /\ pc[t] = "func" /\ held' = held \cup {t}
        /\ UNCHANGED <<pc, upsert, outcome, wrote, lostAcks>>
    BY <1>2 DEF GetConn, breaker, vars, retrying, writes
  <2>2. Typed' /\ NoConnectionLeak'
    BY <2>1 DEF NoConnectionLeak
  <2>3. \A u \in Threads : Staged(u)' /\ Accounted(u)'
    BY <2>1, OthersKeep
  <2>. QED
    BY <2>2, <2>3
<1>3. CASE GetConnRaises(t)
  <2>1. PICK result \in {"pool", "operational"} : outcome' = [outcome EXCEPT ![t] = result]
    BY <1>3 DEF GetConnRaises, Ends
  <2>2. /\ pc[t] = "func" /\ t \notin held
        /\ pc' = [pc EXCEPT ![t] = "count"]
        /\ UNCHANGED <<upsert, held, wrote, lostAcks>>
    BY <1>3 DEF GetConnRaises, FuncRaises, Goto, writes
  <2>3. Typed' /\ NoConnectionLeak'
    BY <2>1, <2>2 DEF NoConnectionLeak, Labels
  <2>4. Staged(t)' /\ Accounted(t)'
    BY <2>1, <2>2 DEF Staged, Accounted, Succeeding, Failing
  <2>5. \A u \in Threads \ {t} : Staged(u)' /\ Accounted(u)'
    BY <2>1, <2>2, OthersKeep
  <2>. QED
    BY <2>3, <2>4, <2>5
<1>4. CASE Account(t)
  <2>1. PICK label \in Labels :
           /\ pc' = [pc EXCEPT ![t] = label]
           /\ \/ pc[t] \in Succeeding /\ label \in Succeeding \cup {"idle"}
              \/ pc[t] \in Failing /\ label \in Failing \cup {"idle"}
    BY <1>4, BookkeepingMoves DEF Account
  <2>2. UNCHANGED <<upsert, outcome, held, wrote, lostAcks>>
    BY <1>4 DEF Account, retrying, writes
  <2>3. Typed' /\ NoConnectionLeak'
    BY <2>1, <2>2 DEF NoConnectionLeak, Succeeding, Failing
  <2>4. Staged(t)' /\ Accounted(t)'
    BY <2>1, <2>2 DEF Staged, Accounted, Succeeding, Failing
  <2>5. \A u \in Threads \ {t} : Staged(u)' /\ Accounted(u)'
    BY <2>1, <2>2, OthersKeep
  <2>. QED
    BY <2>3, <2>4, <2>5
<1>. QED
  BY <1>1, <1>2, <1>3, <1>4

LEMMA StatementStep ==
    ASSUME RepoInv, NEW t \in Threads, Commit(t) \/ ConnectionLost(t) \/ RecordRefused(t)
    PROVE  RepoInv'
<1>. USE DEF RepoInv, Typed
<1>1. CASE Commit(t)
  <2>1. /\ pc[t] = "func" /\ t \notin BadRecords
        /\ pc' = [pc EXCEPT ![t] = "success"]
        /\ outcome' = [outcome EXCEPT ![t] = "ok"]
        /\ wrote' = [wrote EXCEPT ![t] = IF @ < 2 THEN @ + 1 ELSE 2]
        /\ held' = held \ {t}
        /\ UNCHANGED <<upsert, lostAcks>>
    BY <1>1 DEF Commit, FuncReturns, Goto, Ends, Applied
  <2>2. wrote[t] \in 0..2 /\ wrote'[t] \in 1..2 /\ (wrote[t] = 0 => wrote'[t] = 1)
    BY <2>1
  <2>3. Typed' /\ NoConnectionLeak'
    BY <2>1, <2>2 DEF NoConnectionLeak, Labels
  <2>4. Staged(t)' /\ Accounted(t)'
    BY <2>1, <2>2 DEF Staged, Accounted, Succeeding, Failing
  <2>5. \A u \in Threads \ {t} : Staged(u)' /\ Accounted(u)'
    BY <2>1, OthersKeep
  <2>. QED
    BY <2>3, <2>4, <2>5
<1>2. CASE ConnectionLost(t)
  <2>1. /\ pc[t] = "func"
        /\ pc' = [pc EXCEPT ![t] = "count"]
        /\ outcome' = [outcome EXCEPT ![t] = "operational"]
        /\ held' = held \ {t}
        /\ \/ UNCHANGED <<wrote, lostAcks>>
           \/ /\ wrote' = [wrote EXCEPT ![t] = IF @ < 2 THEN @ + 1 ELSE 2]
              /\ lostAcks' = lostAcks \cup {t}
        /\ UNCHANGED upsert
    BY <1>2 DEF ConnectionLost, FuncRaises, Goto, Ends, Applied, writes
  <2>2. Typed' /\ NoConnectionLeak'
    BY <2>1 DEF NoConnectionLeak, Labels
  <2>3. Staged(t)' /\ Accounted(t)'
    BY <2>1 DEF Staged, Accounted, Succeeding, Failing
  <2>4. \A u \in Threads \ {t} : Staged(u)' /\ Accounted(u)'
    BY <2>1, OthersKeep
  <2>. QED
    BY <2>2, <2>3, <2>4
<1>3. CASE RecordRefused(t)
  <2>1. /\ pc[t] = "func"
        /\ pc' = [pc EXCEPT ![t] = "count"]
        /\ outcome' = [outcome EXCEPT ![t] = "data"]
        /\ held' = held \ {t}
        /\ UNCHANGED <<upsert, wrote, lostAcks>>
    BY <1>3 DEF RecordRefused, FuncRaises, Goto, Ends, writes
  <2>2. Typed' /\ NoConnectionLeak'
    BY <2>1 DEF NoConnectionLeak, Labels
  <2>3. Staged(t)' /\ Accounted(t)'
    BY <2>1 DEF Staged, Accounted, Succeeding, Failing
  <2>4. \A u \in Threads \ {t} : Staged(u)' /\ Accounted(u)'
    BY <2>1, OthersKeep
  <2>. QED
    BY <2>2, <2>3, <2>4
<1>. QED
  BY <1>1, <1>2, <1>3

-----------------------------------------------------------------------------
LEMMA RepoStep == RepoInv /\ [RepoNext]_repoVars => RepoInv'
<1>. SUFFICES ASSUME RepoInv, [RepoNext]_repoVars PROVE RepoInv'
  OBVIOUS
<1>1. ASSUME NEW t \in Threads, Begin(t) \/ Proceed(t) \/ Leave(t) PROVE RepoInv'
  BY <1>1, LoopStep, CallStep, StatementStep DEF Proceed
<1>2. ASSUME NEW b \in Borrowers, Borrow(b) \/ GiveBack(b) PROVE RepoInv'
  <2>1. b \notin Threads
    BY RepositoryAssumption
  <2>2. /\ held' \cap Threads = held \cap Threads
        /\ UNCHANGED <<pc, upsert, outcome, wrote, lostAcks>>
    BY <1>2, <2>1 DEF Borrow, GiveBack, breaker, vars, retrying, writes
  <2>3. Typed' /\ NoConnectionLeak'
    BY <2>2 DEF RepoInv, Typed, NoConnectionLeak
  <2>4. \A u \in Threads : Staged(u)' /\ Accounted(u)'
    BY <2>2, OthersKeep DEF RepoInv
  <2>. QED
    BY <2>3, <2>4 DEF RepoInv
<1>3. CASE RepoTick \/ UNCHANGED repoVars
  <2>1. UNCHANGED <<pc, upsert, outcome, held, wrote, lostAcks>>
    BY <1>3 DEF RepoTick, repoVars, breaker, vars, retrying, writes
  <2>2. Typed' /\ NoConnectionLeak'
    BY <2>1 DEF RepoInv, Typed, NoConnectionLeak
  <2>3. \A u \in Threads : Staged(u)' /\ Accounted(u)'
    BY <2>1, OthersKeep DEF RepoInv
  <2>. QED
    BY <2>2, <2>3 DEF RepoInv
<1>. QED
  BY <1>1, <1>2, <1>3 DEF RepoNext

THEOREM RepositoryInvariant == RepoSpec => []RepoInv
BY RepoInitially, RepoStep, PTL DEF RepoSpec

\* A thread that backs off or is done holds no pooled connection, whatever raised in it.
THEOREM ConnectionsGoBack == RepoSpec => []NoConnectionLeak
<1>1. RepoInv => NoConnectionLeak
  BY DEF RepoInv
<1>. QED
  BY <1>1, RepositoryInvariant, PTL

\* What upsert told its caller is what the server did, short of a lost acknowledgement.
THEOREM WritesAreAccounted == RepoSpec => []WriteAccounting
<1>1. RepoInv => WriteAccounting
  BY DEF RepoInv, Staged, Accounted, WriteAccounting
<1>. QED
  BY <1>1, RepositoryInvariant, PTL

\* The clocks of the retry loop, and who may hold a connection.
LoopTypes ==
    /\ elapsed \in [Threads -> 0..RetryWindow]
    /\ nextWait \in [Threads -> 1..MaxWait]
    /\ wait \in [Threads -> 0..MaxWait]
    /\ held \subseteq Threads \cup Borrowers
    /\ lostAcks \subseteq Threads

LEMMA LoopTypesKept == LoopTypes /\ [RepoNext]_repoVars => LoopTypes'
<1>. SUFFICES ASSUME LoopTypes, [RepoNext]_repoVars PROVE LoopTypes'
  OBVIOUS
<1>. USE RepositoryAssumption DEF LoopTypes
<1>1. ASSUME NEW t \in Threads, BackOff(t) PROVE LoopTypes'
  <2>1. /\ wait' = [wait EXCEPT ![t] = nextWait[t]]
        /\ nextWait' = [nextWait EXCEPT
                ![t] = IF 2 * nextWait[t] < MaxWait THEN 2 * nextWait[t] ELSE MaxWait]
        /\ UNCHANGED <<elapsed, held, lostAcks>>
    BY <1>1 DEF BackOff, writes
  <2>2. nextWait[t] \in 0..MaxWait
    OBVIOUS
  <2>3. (IF 2 * nextWait[t] < MaxWait THEN 2 * nextWait[t] ELSE MaxWait) \in 1..MaxWait
    OBVIOUS
  <2>. QED
    BY <2>1, <2>2, <2>3
<1>2. ASSUME NEW t \in Threads, Leave(t) PROVE LoopTypes'
  <2>1. /\ elapsed' = [elapsed EXCEPT ![t] = 0] /\ nextWait' = [nextWait EXCEPT ![t] = 1]
        /\ lostAcks' = lostAcks \ {t} /\ UNCHANGED <<wait, held>>
    BY <1>2 DEF Leave
  <2>2. 0 \in 0..RetryWindow /\ 1 \in 1..MaxWait
    OBVIOUS
  <2>. QED
    BY <2>1, <2>2
<1>3. ASSUME NEW t \in Threads, Begin(t) \/ Proceed(t), ~BackOff(t) PROVE LoopTypes'
  <2>1. UNCHANGED <<elapsed, nextWait, wait>>
    BY <1>3 DEF Begin, Proceed, Retry, Finish, Admit, GetConn, GetConnRaises, Commit,
       ConnectionLost, RecordRefused, Account, retrying
  <2>2. held' \in {held, held \cup {t}, held \ {t}} /\ lostAcks' \in {lostAcks, lostAcks \cup {t}}
    BY <1>3 DEF Begin, Proceed, Retry, Finish, Admit, GetConn, GetConnRaises, Commit,
       ConnectionLost, RecordRefused, Account, writes
  <2>. QED
    BY <2>1, <2>2
<1>4. ASSUME NEW b \in Borrowers, Borrow(b) \/ GiveBack(b) PROVE LoopTypes'
  BY <1>4 DEF Borrow, GiveBack, retrying, writes
<1>5. CASE RepoTick
  <2>1. elapsed' \in [Threads -> 0..RetryWindow]
    BY <1>5 DEF RepoTick
  <2>2. wait' \in [Threads -> 0..MaxWait]
    BY <1>5 DEF RepoTick
  <2>. QED
    BY <1>5, <2>1, <2>2 DEF RepoTick, writes
<1>6. CASE UNCHANGED repoVars
  BY <1>6 DEF repoVars, retrying, writes
<1>. QED
  BY <1>1, <1>2, <1>3, <1>4, <1>5, <1>6 DEF RepoNext

\* Every step of upsert, of the borrowers and of the clock keeps the types.
THEOREM RepositoryTypeCorrect == RepoSpec => []RepoTypeOK
<1>1. RepoInit => LoopTypes
  BY RepositoryAssumption DEF RepoInit, LoopTypes
<1>2. RepoSpec => []LoopTypes
  BY <1>1, LoopTypesKept, PTL DEF RepoSpec
<1>3. LoopTypes /\ RepoInv /\ TypeOK => RepoTypeOK
  BY DEF LoopTypes, RepoInv, Typed, RepoTypeOK
<1>4. RepoSpec => []TypeOK
  BY RetriesNeverSettleOverThreshold, PTL
<1>. QED
  BY <1>2, <1>3, <1>4, RepositoryInvariant, PTL

-----------------------------------------------------------------------------
(* The TTL trigger and its writers. *)

Stages == {"new", "write", "trigger", "sweep", "commit", "done", "raised"}
Marks == Keys \X (Writers \cup {Null})

OwnTypes ==
    /\ own = [w \in Writers |-> own[w]]
    /\ \A w \in Writers :
          /\ own[w] = [k \in DOMAIN own[w] |-> own[w][k]]
          /\ DOMAIN own[w] \subseteq Keys
          /\ \A k \in DOMAIN own[w] : own[w][k] \in Rows \cup {NoRow}

TtlTypes ==
    /\ op \in [Writers -> Ops]
    /\ now \in Nat
    /\ table \in [Keys -> Rows \cup {NoRow}]
    /\ latest \in [Keys -> Rows \cup {NoRow}]
    /\ stage \in [Writers -> Stages]
    /\ started \in [Writers -> Nat]
    /\ written \in [Writers -> Rows \cup {NoRow, Null}]
    /\ found \in [Writers -> SUBSET Marks]
    /\ target \in [Writers -> SUBSET Marks]
    /\ disturbed \in [Writers -> SUBSET Keys]
    /\ OwnTypes

InTransaction(w) == stage[w] \in {"trigger", "sweep", "commit"}

\* What a row that w has locked was before w's own sweep came to it.
Base(w, k) == IF written[w] # Null /\ k = op[w].key THEN written[w] ELSE table[k]

OneOwner == \A u, w \in Writers : \A k \in Keys : Locks(u, k) /\ Locks(w, k) => u = w

Kept(w, k) ==
    \/ own[w][k] = Base(w, k)
    \/ own[w][k] = NoRow /\ Expired(Base(w, k), started[w])

OwnFate(w) ==
    /\ started[w] <= now
    /\ ~InTransaction(w) => DOMAIN own[w] = {}
    /\ stage[w] \in {"new", "write"} => written[w] = Null
    /\ InTransaction(w) /\ written[w] # Null => Locks(w, op[w].key)
    /\ \A k \in DOMAIN own[w] : Kept(w, k)

Swept(w) == stage[w] = "sweep" \/ (stage[w] = "commit" /\ op[w].kind # "delete")

SweepFate(w) ==
    /\ stage[w] # "sweep" => found[w] = {} /\ target[w] = {}
    /\ \A f, g \in target[w] : f = g
    /\ Swept(w) =>
          \A k \in Keys : Expired(Seen(w, k), started[w]) =>
             \/ k \in disturbed[w]
             \/ <<k, Seen(w, k).tuple>> \in found[w] \cup target[w]

TtlInv ==
    /\ TtlTypes
    /\ OneOwner
    /\ \A w \in Writers : OwnFate(w) /\ SweepFate(w)
    /\ LatestUnlessExpired

-----------------------------------------------------------------------------
LEMMA OpFields ==
    ASSUME NEW w \in Writers, TtlTypes
    PROVE  /\ op[w].key \in Keys /\ op[w].kind \in {"upsert", "soft_delete", "delete"}
           /\ op[w].ts \in Nat /\ op[w].ttl \in Nat
BY TtlAssumption DEF TtlTypes

\* What a statement reads is a row or none.
LEMMA SeenIsRow ==
    ASSUME TtlTypes, NEW w \in Writers, NEW k \in Keys
    PROVE  Seen(w, k) \in Rows \cup {NoRow}
BY DEF TtlTypes, OwnTypes, Seen, Locks

\* Locking one row changes nothing else that is locked.
LEMMA HoldsOne ==
    ASSUME OwnTypes, NEW w \in Writers, NEW k \in Keys, NEW r \in Rows \cup {NoRow},
           Holds(w, k, r)
    PROVE  /\ OwnTypes'
           /\ DOMAIN own'[w] = DOMAIN own[w] \cup {k}
           /\ own'[w][k] = r
           /\ \A q \in DOMAIN own[w] : q # k => own'[w][q] = own[w][q]
           /\ \A u \in Writers : u # w => own'[u] = own[u]
<1> DEFINE mine == [q \in DOMAIN own[w] \cup {k} |-> IF q = k THEN r ELSE own[w][q]]
<1>1. own' = [own EXCEPT ![w] = mine]
  BY DEF Holds
<1>2. own'[w] = mine /\ \A u \in Writers : u # w => own'[u] = own[u]
  BY <1>1 DEF OwnTypes
<1>3. own' = [u \in Writers |-> own'[u]]
  BY <1>1 DEF OwnTypes
<1>4. DOMAIN mine = DOMAIN own[w] \cup {k} /\ mine[k] = r
      /\ \A q \in DOMAIN own[w] : q # k => mine[q] = own[w][q]
  OBVIOUS
<1>5. mine = [q \in DOMAIN mine |-> mine[q]] /\ DOMAIN mine \subseteq Keys
      /\ \A q \in DOMAIN mine : mine[q] \in Rows \cup {NoRow}
  BY <1>4 DEF OwnTypes
<1> HIDE DEF mine
<1> QED
  BY <1>2, <1>3, <1>4, <1>5 DEF OwnTypes

\* The end of a transaction unlocks what it has locked.
LEMMA UnlocksAll ==
    ASSUME OwnTypes, NEW w \in Writers, own' = [own EXCEPT ![w] = Unlocked]
    PROVE  /\ OwnTypes'
           /\ DOMAIN own'[w] = {}
           /\ \A u \in Writers : u # w => own'[u] = own[u]
<1>1. own'[w] = Unlocked /\ \A u \in Writers : u # w => own'[u] = own[u]
  BY DEF OwnTypes
<1>2. own' = [u \in Writers |-> own'[u]]
  BY DEF OwnTypes
<1>3. DOMAIN Unlocked = {} /\ Unlocked = [k \in {} |-> Unlocked[k]]
  BY DEF Unlocked
<1> HIDE DEF Unlocked
<1> QED
  BY <1>1, <1>2, <1>3 DEF OwnTypes

\* The row a statement leaves.
New(w) ==
    LET r == table[op[w].key] IN
    CASE op[w].kind = "upsert" -> Upserted(w, r)
      [] op[w].kind = "soft_delete" -> [r EXCEPT !.by = w]
      [] OTHER -> NoRow

LEMMA WriteFacts ==
    ASSUME TtlTypes, NEW w \in Writers, Write(w)
    PROVE  LET k == op[w].key IN
           \/ own' = own /\ written' = written
           \/ /\ New(w) \in Rows \cup {NoRow} /\ ~Locked(w, k)
              /\ Holds(w, k, New(w)) /\ written' = [written EXCEPT ![w] = New(w)]
<1> DEFINE k == op[w].key
           r == table[k]
<1>1. k \in Keys /\ op[w].kind \in {"upsert", "soft_delete", "delete"} /\ r \in Rows \cup {NoRow}
  BY OpFields DEF TtlTypes
<1>2. CASE op[w].kind # "upsert" /\ r = NoRow
  BY <1>2 DEF Write
<1>3. CASE op[w].kind = "upsert" \/ r # NoRow
  <2>1. ~Locked(w, k) /\ Holds(w, k, New(w)) /\ written' = [written EXCEPT ![w] = New(w)]
    BY <1>3 DEF Write, New, Waits
  <2>2. CalculateTtlExpiry(op[w]) \in Nat \cup {Null}
    BY OpFields DEF CalculateTtlExpiry
  <2>3. CASE op[w].kind = "upsert"
    BY <2>1, <2>2, <2>3, <1>1 DEF New, Upserted, Rows
  <2>4. CASE op[w].kind = "soft_delete"
    BY <2>1, <2>4, <1>1, <1>3 DEF New, Rows
  <2>5. CASE op[w].kind = "delete"
    BY <2>1, <2>5 DEF New
  <2> QED
    BY <2>3, <2>4, <2>5, <1>1
<1> QED
  BY <1>2, <1>3

\* What an expired row that the sweep comes to is replaced by.
LEMMA DeleteFacts ==
    ASSUME TtlTypes, NEW w \in Writers, DeleteExpired(w)
    PROVE  \E k \in Keys, t \in Writers \cup {Null} :
              /\ <<k, t>> \in target[w] /\ ~Locked(w, k)
              /\ \/ /\ Seen(w, k) # NoRow /\ Seen(w, k).tuple = t
                    /\ Expired(Seen(w, k), started[w])
                    /\ Holds(w, k, NoRow)
                 \/ /\ Seen(w, k) # NoRow /\ Seen(w, k).tuple = t
                    /\ ~Expired(Seen(w, k), started[w])
                    /\ Holds(w, k, Seen(w, k))
                 \/ /\ Seen(w, k) = NoRow \/ Seen(w, k).tuple # t
                    /\ own' = own
<1>1. PICK f \in target[w] :
         LET r == Seen(w, f[1]) IN
         /\ ~Locked(w, f[1])
         /\ IF r # NoRow /\ r.tuple = f[2]
            THEN Holds(w, f[1], IF Expired(r, started[w]) THEN NoRow ELSE r)
            ELSE UNCHANGED own
  BY DEF DeleteExpired
<1>2. f \in Marks
  BY DEF TtlTypes
<1>3. PICK k \in Keys, t \in Writers \cup {Null} : f = <<k, t>>
  BY <1>2 DEF Marks
<1>4. f[1] = k /\ f[2] = t
  BY <1>3
<1> QED
  BY <1>1, <1>3, <1>4

LEMMA TypesInit == TtlInit => TtlTypes
<1> SUFFICES ASSUME TtlInit PROVE TtlTypes
    OBVIOUS
<1>1. OwnTypes
  BY DEF TtlInit, OwnTypes, Unlocked
<1>2. table \in [Keys -> Rows \cup {NoRow}]
  BY DEF TtlInit, Rows
<1> QED
  BY <1>1, <1>2 DEF TtlInit, TtlTypes, Stages, Marks

LEMMA TypesStep == TtlTypes /\ [TtlNext]_ttlVars => TtlTypes'
<1> SUFFICES ASSUME TtlTypes, [TtlNext]_ttlVars PROVE TtlTypes'
    OBVIOUS
<1>o. OwnTypes
  BY DEF TtlTypes
<1>1. ASSUME NEW w \in Writers, BeginTransaction(w) PROVE TtlTypes'
  BY <1>1 DEF BeginTransaction, GoesTo, TtlTypes, Stages, OwnTypes, sweep, history
<1>2. ASSUME NEW w \in Writers, Write(w) PROVE TtlTypes'
  <2>1. OwnTypes' /\ written' \in [Writers -> Rows \cup {NoRow, Null}]
    <3>1. CASE own' = own /\ written' = written
      BY <3>1, <1>o DEF TtlTypes, OwnTypes
    <3>2. CASE /\ New(w) \in Rows \cup {NoRow} /\ Holds(w, op[w].key, New(w))
               /\ written' = [written EXCEPT ![w] = New(w)]
      BY <3>2, <1>o, HoldsOne, OpFields DEF TtlTypes
    <3> QED
      BY <1>2, <3>1, <3>2, WriteFacts
  <2>2. stage' \in [Writers -> Stages]
    BY <1>2 DEF Write, GoesTo, TtlTypes, Stages
  <2> QED
    BY <1>2, <2>1, <2>2 DEF Write, TtlTypes, sweep
<1>3. ASSUME NEW w \in Writers, Trigger(w) PROVE TtlTypes'
  <2> DEFINE F == {<<k, Seen(w, k).tuple>> : k \in {q \in Keys : Expired(Seen(w, q), started[w])}}
  <2>1. F \subseteq Marks
    BY SeenIsRow DEF Marks, Expired, Rows
  <2>2. found' = [found EXCEPT ![w] = F]
    BY <1>3 DEF Trigger
  <2> HIDE DEF F
  <2> QED
    BY <1>3, <2>1, <2>2 DEF Trigger, GoesTo, TtlTypes, Stages, OwnTypes
<1>4. ASSUME NEW w \in Writers, Scan(w) PROVE TtlTypes'
  BY <1>4 DEF Scan, GoesTo, TtlTypes, Stages, OwnTypes, sweep, history
<1>5. ASSUME NEW w \in Writers, DeleteExpired(w) PROVE TtlTypes'
  <2>1. OwnTypes'
    BY <1>5, <1>o, DeleteFacts, HoldsOne, SeenIsRow DEF OwnTypes
  <2> QED
    BY <1>5, <2>1 DEF DeleteExpired, Scanned, TtlTypes, history
<1>6. ASSUME NEW w \in Writers, CommitTransaction(w) PROVE TtlTypes'
  <2>1. OwnTypes'
    BY <1>6, <1>o, UnlocksAll DEF CommitTransaction
  <2>2. table' \in [Keys -> Rows \cup {NoRow}]
    BY <1>6, SeenIsRow DEF CommitTransaction
  <2>3. latest' \in [Keys -> Rows \cup {NoRow}]
    BY <1>6, OpFields DEF CommitTransaction, TtlTypes
  <2>4. disturbed' \in [Writers -> SUBSET Keys]
    BY <1>6 DEF CommitTransaction, TtlTypes, OwnTypes
  <2> QED
    BY <1>6, <2>1, <2>2, <2>3, <2>4 DEF CommitTransaction, GoesTo, TtlTypes, Stages, sweep
<1>7. ASSUME NEW w \in Writers, Fails(w) PROVE TtlTypes'
  <2>1. OwnTypes'
    BY <1>7, <1>o, UnlocksAll DEF Fails
  <2> QED
    BY <1>7, <2>1 DEF Fails, GoesTo, TtlTypes, Stages
<1>8. CASE ClockTick
  BY <1>8 DEF ClockTick, TtlTypes, OwnTypes, sweep, history
<1>9. CASE UNCHANGED ttlVars
  BY <1>9 DEF ttlVars, TtlTypes, OwnTypes, sweep, history
<1> QED
  BY <1>1, <1>2, <1>3, <1>4, <1>5, <1>6, <1>7, <1>8, <1>9 DEF TtlNext, Step

-----------------------------------------------------------------------------
\* No two transactions have locked the same row.
LEMMA OneOwnerStep ==
    ASSUME TtlTypes, OneOwner, [TtlNext]_ttlVars
    PROVE  OneOwner'
<1>o. OwnTypes
  BY DEF TtlTypes
<1>1. ASSUME own' = own PROVE OneOwner'
  BY <1>1 DEF OneOwner, Locks
<1>2. ASSUME NEW w \in Writers, NEW k \in Keys, NEW r \in Rows \cup {NoRow},
             ~Locked(w, k), Holds(w, k, r)
      PROVE  OneOwner'
  <2>1. /\ DOMAIN own'[w] = DOMAIN own[w] \cup {k}
        /\ \A u \in Writers : u # w => own'[u] = own[u]
    BY <1>2, <1>o, HoldsOne
  <2> QED
    BY <1>2, <2>1 DEF OneOwner, Locks, Locked
<1>3. ASSUME NEW w \in Writers, own' = [own EXCEPT ![w] = Unlocked] PROVE OneOwner'
  <2>1. DOMAIN own'[w] = {} /\ \A u \in Writers : u # w => own'[u] = own[u]
    BY <1>3, <1>o, UnlocksAll
  <2> QED
    BY <2>1 DEF OneOwner, Locks
<1>4. ASSUME NEW w \in Writers, Write(w) PROVE OneOwner'
  BY <1>4, <1>1, <1>2, WriteFacts, OpFields
<1>5. ASSUME NEW w \in Writers, DeleteExpired(w) PROVE OneOwner'
  BY <1>5, <1>1, <1>2, DeleteFacts, SeenIsRow
<1>6. ASSUME NEW w \in Writers, BeginTransaction(w) \/ Trigger(w) \/ Scan(w) PROVE OneOwner'
  BY <1>6, <1>1 DEF BeginTransaction, Trigger, Scan
<1>7. ASSUME NEW w \in Writers, CommitTransaction(w) \/ Fails(w) PROVE OneOwner'
  BY <1>7, <1>3 DEF CommitTransaction, Fails
<1>8. CASE ClockTick \/ UNCHANGED ttlVars
  BY <1>8, <1>1 DEF ClockTick, ttlVars
<1> QED
  BY <1>4, <1>5, <1>6, <1>7, <1>8 DEF TtlNext, Step

-----------------------------------------------------------------------------
\* Expiry only grows with time.
LEMMA ExpiredLater ==
    ASSUME NEW r \in Rows \cup {NoRow}, NEW s \in Nat, NEW t \in Nat, s <= t, Expired(r, s)
    PROVE  Expired(r, t) /\ r \in Rows
BY TtlAssumption DEF Expired, Rows

\* A writer that does not move, while nobody touches the rows it has locked.
LEMMA OwnFateKept ==
    ASSUME TtlTypes, NEW u \in Writers, OwnFate(u), now' >= now, now' \in Nat,
           op' = op, stage'[u] = stage[u], written'[u] = written[u], own'[u] = own[u],
           started'[u] = started[u],
           \A k \in DOMAIN own[u] : table'[k] = table[k]
    PROVE  OwnFate(u)'
<1>1. started[u] \in Nat /\ now \in Nat
  BY DEF TtlTypes
<1>2. \A k \in DOMAIN own[u] : Kept(u, k)'
  BY DEF OwnFate, Kept, Base
<1> QED
  BY <1>1, <1>2 DEF OwnFate, InTransaction, Locks

LEMMA OwnFateStep ==
    ASSUME TtlInv, [TtlNext]_ttlVars, NEW u \in Writers
    PROVE  OwnFate(u)'
<1>o. TtlTypes /\ OwnTypes /\ now \in Nat /\ OwnFate(u) /\ DOMAIN own[u] \subseteq Keys
  BY DEF TtlInv, TtlTypes, OwnTypes
<1>p. TtlTypes'
  BY <1>o, TypesStep
<1>1. ASSUME NEW w \in Writers, BeginTransaction(w) PROVE OwnFate(u)'
  <2>1. CASE u = w
    BY <1>1, <2>1, <1>o DEF BeginTransaction, GoesTo, TtlTypes, OwnFate, InTransaction, history
  <2>2. CASE u # w
    BY <1>1, <2>2, <1>o, OwnFateKept DEF BeginTransaction, GoesTo, TtlTypes, history
  <2> QED
    BY <2>1, <2>2
<1>2. ASSUME NEW w \in Writers, Write(w) PROVE OwnFate(u)'
  <2> USE <1>2 DEF Write
  <2>0. op' = op /\ now' = now /\ table' = table /\ started' = started
        /\ (u # w => stage'[u] = stage[u]) /\ stage'[w] \in {"trigger", "commit"}
        /\ stage[w] = "write"
    BY <1>o DEF GoesTo, TtlTypes
  <2>1. CASE own' = own /\ written' = written
    <3>1. CASE u = w
      BY <2>0, <2>1, <3>1, <1>o DEF OwnFate, InTransaction
    <3>2. CASE u # w
      BY <2>0, <2>1, <3>2, <1>o, OwnFateKept
    <3> QED
      BY <3>1, <3>2
  <2>2. CASE /\ New(w) \in Rows \cup {NoRow} /\ Holds(w, op[w].key, New(w))
             /\ written' = [written EXCEPT ![w] = New(w)]
    <3>0. /\ written'[w] = New(w) /\ (u # w => written'[u] = written[u])
          /\ DOMAIN own'[w] = DOMAIN own[w] \cup {op[w].key}
          /\ own'[w][op[w].key] = New(w) /\ (u # w => own'[u] = own[u])
      BY <2>2, <1>o, HoldsOne, OpFields DEF TtlTypes
    <3>1. CASE u = w
      <4>1. DOMAIN own'[w] = {op[w].key} /\ InTransaction(w)'
        BY <2>0, <3>0, <3>1, <1>o DEF OwnFate, InTransaction
      <4>2. New(w) # Null
        BY <2>2, TtlAssumption
      <4>3. Kept(w, op[w].key)'
        BY <2>0, <3>0, <4>2 DEF Kept, Base
      <4> QED
        BY <2>0, <3>0, <3>1, <4>1, <4>3, <1>o DEF OwnFate, Locks, InTransaction
    <3>2. CASE u # w
      BY <2>0, <3>0, <3>2, <1>o, OwnFateKept
    <3> QED
      BY <3>1, <3>2
  <2> QED
    BY <2>1, <2>2, <1>o, WriteFacts
<1>3. ASSUME NEW w \in Writers, Trigger(w) \/ Scan(w) PROVE OwnFate(u)'
  <2>0. op' = op /\ now' = now /\ table' = table /\ started' = started /\ own' = own
        /\ written' = written
    BY <1>3 DEF Trigger, Scan, history
  <2>1. stage'[u] = stage[u] \/ (InTransaction(u) /\ InTransaction(u)')
    BY <1>3, <1>o DEF Trigger, Scan, GoesTo, TtlTypes, InTransaction
  <2>2. \A k \in DOMAIN own[u] : Kept(u, k)'
    BY <2>0, <1>o DEF OwnFate, Kept, Base
  <2> QED
    BY <2>0, <2>1, <2>2, <1>o DEF OwnFate, InTransaction, Locks
<1>4. ASSUME NEW w \in Writers, DeleteExpired(w) PROVE OwnFate(u)'
  <2>0. op' = op /\ now' = now /\ table' = table /\ started' = started /\ stage' = stage
        /\ written' = written /\ stage[w] = "sweep" /\ InTransaction(w)
    BY <1>4 DEF DeleteExpired, Scanned, history, TtlInv, SweepFate, InTransaction
  <2>1. CASE own' = own
    BY <2>0, <2>1, <1>o, OwnFateKept
  <2>2. ASSUME NEW k \in Keys, NEW r \in Rows \cup {NoRow}, Holds(w, k, r), ~Locked(w, k),
               Seen(w, k) # NoRow,
               \/ r = Seen(w, k)
               \/ r = NoRow /\ Expired(Seen(w, k), started[w])
        PROVE  OwnFate(u)'
    <3>0. /\ DOMAIN own'[w] = DOMAIN own[w] \cup {k} /\ own'[w][k] = r
          /\ \A q \in DOMAIN own[w] : q # k => own'[w][q] = own[w][q]
          /\ (u # w => own'[u] = own[u])
      BY <2>2, <1>o, HoldsOne
    <3>1. CASE u # w
      BY <2>0, <3>0, <3>1, <1>o, OwnFateKept
    <3>2. CASE u = w
      <4>1. Seen(w, k) = Base(w, k)
        BY <2>0, <2>2, <3>2, <1>o DEF OwnFate, Kept, Base, Seen, Locks
      <4>2. \A q \in DOMAIN own'[w] : Kept(w, q)'
        BY <2>0, <2>2, <3>0, <3>2, <4>1, <1>o DEF OwnFate, Kept, Base
      <4> QED
        BY <2>0, <3>0, <3>2, <4>2, <1>o DEF OwnFate, InTransaction, Locks
    <3> QED
      BY <3>1, <3>2
  <2> QED
    BY <1>4, <2>1, <2>2, <1>o, DeleteFacts, SeenIsRow
<1>5. ASSUME NEW w \in Writers, CommitTransaction(w) \/ Fails(w) PROVE OwnFate(u)'
  <2>0. /\ op' = op /\ now' = now /\ started' = started
        /\ own' = [own EXCEPT ![w] = Unlocked] /\ (InTransaction(w) \/ stage[w] = "write")
        /\ (u # w => stage'[u] = stage[u] /\ written'[u] = written[u])
        /\ ~InTransaction(w)' /\ (stage'[w] \in {"new", "write"} => written'[w] = Null)
    BY <1>5, <1>o DEF CommitTransaction, Fails, GoesTo, TtlTypes, InTransaction
  <2>1. DOMAIN own'[w] = {} /\ (u # w => own'[u] = own[u])
    BY <2>0, <1>o, UnlocksAll
  <2>2. CASE u = w
    BY <2>0, <2>1, <2>2, <1>o DEF OwnFate
  <2>3. CASE u # w
    <3>1. \A k \in DOMAIN own[u] : table'[k] = table[k]
      BY <1>5, <2>3, <1>o DEF CommitTransaction, Fails, Seen, Locks, TtlInv, OneOwner, TtlTypes
    <3> QED
      BY <2>0, <2>1, <2>3, <3>1, <1>o, OwnFateKept
  <2> QED
    BY <2>2, <2>3
<1>6. CASE ClockTick
  BY <1>6, <1>o, OwnFateKept DEF ClockTick, history
<1>7. CASE UNCHANGED ttlVars
  BY <1>7, <1>o, OwnFateKept DEF ttlVars, history
<1> QED
  BY <1>1, <1>2, <1>3, <1>4, <1>5, <1>6, <1>7 DEF TtlNext, Step

-----------------------------------------------------------------------------
\* A writer that does not move, while others commit only what it is told of.
LEMMA SweepFateKept ==
    ASSUME TtlTypes, NEW u \in Writers, SweepFate(u),
           op' = op, stage'[u] = stage[u], own'[u] = own[u], started'[u] = started[u],
           found'[u] = found[u], target'[u] = target[u], disturbed[u] \subseteq disturbed'[u],
           \A k \in Keys : table'[k] = table[k] \/ k \in DOMAIN own[u] \/ k \in disturbed'[u]
    PROVE  SweepFate(u)'
<1>1. Swept(u)' <=> Swept(u)
  BY DEF Swept
<1>2. \A k \in Keys : Seen(u, k)' = Seen(u, k) \/ k \in disturbed'[u]
  BY DEF Seen, Locks
<1> QED
  BY <1>1, <1>2 DEF SweepFate

LEMMA SweepFateStep ==
    ASSUME TtlInv, [TtlNext]_ttlVars, NEW u \in Writers
    PROVE  SweepFate(u)'
<1>o. TtlTypes /\ OwnTypes /\ SweepFate(u) /\ DOMAIN own[u] \subseteq Keys
  BY DEF TtlInv, TtlTypes, OwnTypes
<1>1. ASSUME NEW w \in Writers, BeginTransaction(w) PROVE SweepFate(u)'
  <2>1. CASE u = w
    BY <1>1, <2>1, <1>o DEF BeginTransaction, GoesTo, TtlTypes, SweepFate, Swept, sweep
  <2>2. CASE u # w
    BY <1>1, <2>2, <1>o, SweepFateKept DEF BeginTransaction, GoesTo, TtlTypes, sweep, history
  <2> QED
    BY <2>1, <2>2
<1>2. ASSUME NEW w \in Writers, Write(w) PROVE SweepFate(u)'
  <2>1. u # w => own'[u] = own[u]
    BY <1>2, <1>o, WriteFacts, HoldsOne, OpFields
  <2>2. CASE u = w
    BY <1>2, <2>2, <1>o DEF Write, GoesTo, TtlTypes, SweepFate, Swept, sweep
  <2>3. CASE u # w
    BY <1>2, <2>1, <2>3, <1>o, SweepFateKept DEF Write, GoesTo, TtlTypes, sweep
  <2> QED
    BY <2>2, <2>3
<1>3. ASSUME NEW w \in Writers, Trigger(w) PROVE SweepFate(u)'
  <2>0. /\ op' = op /\ own' = own /\ table' = table /\ started' = started /\ target' = target
        /\ (u # w => stage'[u] = stage[u] /\ found'[u] = found[u] /\ disturbed'[u] = disturbed[u])
        /\ stage[w] = "trigger" /\ stage'[w] = "sweep"
    BY <1>3, <1>o DEF Trigger, GoesTo, TtlTypes
  <2>1. CASE u = w
    <3>1. target'[u] = {}
      BY <2>0, <2>1, <1>o DEF SweepFate
    <3>2. \A k \in Keys : Expired(Seen(u, k), started[u]) => <<k, Seen(u, k).tuple>> \in found'[u]
      BY <1>3, <2>1, <1>o DEF Trigger, TtlTypes
    <3>3. \A k \in Keys : Seen(u, k)' = Seen(u, k)
      BY <2>0 DEF Seen, Locks
    <3> QED
      BY <2>0, <2>1, <3>1, <3>2, <3>3 DEF SweepFate
  <2>2. CASE u # w
    BY <2>0, <2>2, <1>o, SweepFateKept
  <2> QED
    BY <2>1, <2>2
<1>4. ASSUME NEW w \in Writers, Scan(w) PROVE SweepFate(u)'
  <2>0. /\ op' = op /\ own' = own /\ table' = table /\ started' = started
        /\ disturbed' = disturbed /\ stage[w] = "sweep" /\ target[w] = {}
        /\ (u # w => stage'[u] = stage[u] /\ found'[u] = found[u] /\ target'[u] = target[u])
    BY <1>4, <1>o DEF Scan, GoesTo, TtlTypes, sweep, history
  <2>1. \/ /\ stage' = stage
           /\ \E f \in found[w] : target'[w] = {f} /\ found'[w] = found[w] \ {f}
        \/ /\ stage'[w] = "commit" /\ found[w] = {} /\ found' = found /\ target' = target
    BY <1>4, <1>o DEF Scan, GoesTo, TtlTypes, sweep
  <2>2. \A k \in Keys : Seen(u, k)' = Seen(u, k)
    BY <2>0 DEF Seen, Locks
  <2>3. CASE u = w
    <3>1. \A k \in Keys : Expired(Seen(u, k), started[u]) =>
             \/ k \in disturbed[u]
             \/ <<k, Seen(u, k).tuple>> \in found[u]
      BY <2>0, <2>3, <1>o DEF SweepFate, Swept
    <3> HIDE DEF Seen
    <3> QED
      BY <2>0, <2>1, <2>2, <2>3, <3>1 DEF SweepFate, Swept
  <2>4. CASE u # w
    BY <2>0, <2>4, <1>o, SweepFateKept
  <2> QED
    BY <2>3, <2>4
<1>5. ASSUME NEW w \in Writers, DeleteExpired(w) PROVE SweepFate(u)'
  <2>0. /\ op' = op /\ table' = table /\ started' = started /\ stage' = stage /\ found' = found
        /\ disturbed' = disturbed /\ target'[w] = {} /\ (u # w => target'[u] = target[u])
    BY <1>5, <1>o DEF DeleteExpired, Scanned, history, TtlTypes
  <2>1. PICK k \in Keys, t \in Writers \cup {Null} :
              /\ <<k, t>> \in target[w] /\ ~Locked(w, k)
              /\ \/ /\ Seen(w, k) # NoRow /\ Seen(w, k).tuple = t
                    /\ Expired(Seen(w, k), started[w])
                    /\ Holds(w, k, NoRow)
                 \/ /\ Seen(w, k) # NoRow /\ Seen(w, k).tuple = t
                    /\ ~Expired(Seen(w, k), started[w])
                    /\ Holds(w, k, Seen(w, k))
                 \/ /\ Seen(w, k) = NoRow \/ Seen(w, k).tuple # t
                    /\ own' = own
    BY <1>5, <1>o, DeleteFacts
  <2>2. /\ u # w => own'[u] = own[u]
        /\ \A q \in Keys : q # k => Seen(w, q)' = Seen(w, q)
        /\ \/ Seen(w, k)' = NoRow
           \/ ~Expired(Seen(w, k)', started[w])
           \/ Seen(w, k)' = Seen(w, k) /\ Seen(w, k).tuple # t
    <3>1. CASE (Seen(w, k) = NoRow \/ Seen(w, k).tuple # t) /\ own' = own
      BY <2>0, <3>1 DEF Seen, Locks
    <3>2. ASSUME NEW r \in Rows \cup {NoRow}, Holds(w, k, r),
                 r = NoRow \/ (r = Seen(w, k) /\ ~Expired(r, started[w]))
          PROVE  /\ u # w => own'[u] = own[u]
                 /\ \A q \in Keys : q # k => Seen(w, q)' = Seen(w, q)
                 /\ Seen(w, k)' = NoRow \/ ~Expired(Seen(w, k)', started[w])
      BY <2>0, <3>2, <1>o, HoldsOne DEF Seen, Locks
    <3> QED
      BY <2>1, <3>1, <3>2, <1>o, SeenIsRow
  <2>3. CASE u = w
    <3>1. ASSUME NEW q \in Keys, Swept(u), Expired(Seen(u, q)', started[u])
          PROVE  q \in disturbed[u] \/ <<q, Seen(u, q)'.tuple>> \in found[u]
      <4>1. CASE q = k
        <5>1. Seen(u, k)' = Seen(u, k) /\ Seen(u, k).tuple # t
          BY <2>2, <2>3, <3>1, <4>1 DEF Expired
        <5>2. <<k, Seen(u, k).tuple>> \notin target[u]
          BY <2>1, <2>3, <5>1, <1>o DEF SweepFate
        <5> QED
          BY <3>1, <4>1, <5>1, <5>2, <1>o DEF SweepFate
      <4>2. CASE q # k
        <5>1. <<q, Seen(u, q).tuple>> \notin target[u]
          BY <2>1, <2>3, <4>2, <1>o DEF SweepFate
        <5> QED
          BY <2>2, <2>3, <3>1, <4>2, <5>1, <1>o DEF SweepFate
      <4> QED
        BY <4>1, <4>2
    <3>2. (Swept(u)' <=> Swept(u)) /\ target'[u] = {} /\ target[w] # {}
      BY <2>0, <2>1, <2>3 DEF Swept
    <3> QED
      BY <2>0, <2>3, <3>1, <3>2, <1>o DEF SweepFate
  <2>4. CASE u # w
    BY <2>0, <2>2, <2>4, <1>o, SweepFateKept
  <2> QED
    BY <2>3, <2>4
<1>6. ASSUME NEW w \in Writers, CommitTransaction(w) PROVE SweepFate(u)'
  <2>0. /\ op' = op /\ started' = started /\ found' = found /\ target' = target
        /\ (u # w => stage'[u] = stage[u]) /\ stage[w] = "commit" /\ stage'[w] = "done"
        /\ own' = [own EXCEPT ![w] = Unlocked]
        /\ \A k \in Keys : table'[k] = table[k] \/ k \in DOMAIN own[w]
        /\ (u # w => disturbed'[u] = disturbed[u] \cup DOMAIN own[w])
    BY <1>6, <1>o DEF CommitTransaction, GoesTo, TtlTypes, sweep, Seen, Locks
  <2>1. CASE u = w
    BY <2>0, <2>1, <1>o DEF SweepFate, Swept
  <2>2. CASE u # w
    <3>1. own'[u] = own[u]
      BY <2>0, <2>2, <1>o, UnlocksAll
    <3> QED
      BY <2>0, <2>2, <3>1, <1>o, SweepFateKept
  <2> QED
    BY <2>1, <2>2
<1>7. ASSUME NEW w \in Writers, Fails(w) PROVE SweepFate(u)'
  <2>0. /\ op' = op /\ started' = started /\ table' = table /\ disturbed' = disturbed
        /\ (u # w => stage'[u] = stage[u] /\ found'[u] = found[u] /\ target'[u] = target[u])
        /\ found'[w] = {} /\ target'[w] = {} /\ stage'[w] \in {"new", "raised"}
        /\ own' = [own EXCEPT ![w] = Unlocked]
    BY <1>7, <1>o DEF Fails, GoesTo, TtlTypes
  <2>1. CASE u = w
    BY <2>0, <2>1 DEF SweepFate, Swept
  <2>2. CASE u # w
    <3>1. own'[u] = own[u]
      BY <2>0, <2>2, <1>o, UnlocksAll
    <3> QED
      BY <2>0, <2>2, <3>1, <1>o, SweepFateKept
  <2> QED
    BY <2>1, <2>2
<1>8. CASE ClockTick
  BY <1>8, <1>o, SweepFateKept DEF ClockTick, sweep, history
<1>9. CASE UNCHANGED ttlVars
  BY <1>9, <1>o, SweepFateKept DEF ttlVars, sweep, history
<1> QED
  BY <1>1, <1>2, <1>3, <1>4, <1>5, <1>6, <1>7, <1>8, <1>9 DEF TtlNext, Step

-----------------------------------------------------------------------------
\* A commit writes the row the operation wrote, or none where that has expired, and leaves
\* every other as it was, but for what had expired.
LEMMA LatestStep ==
    ASSUME TtlInv, [TtlNext]_ttlVars
    PROVE  LatestUnlessExpired'
<1>o. TtlTypes /\ now \in Nat
  BY DEF TtlInv, TtlTypes
<1>1. ASSUME table' = table, latest' = latest, now' \in Nat, now <= now'
      PROVE  LatestUnlessExpired'
  <2> SUFFICES ASSUME NEW k \in Keys, table[k] # latest[k]
               PROVE  table[k] = NoRow /\ Expired(latest[k], now')
    BY <1>1 DEF LatestUnlessExpired
  <2>1. table[k] = NoRow /\ Expired(latest[k], now) /\ latest[k] \in Rows \cup {NoRow}
    BY <1>o DEF TtlInv, LatestUnlessExpired, TtlTypes
  <2> QED
    BY <1>1, <1>o, <2>1, ExpiredLater
<1>2. ASSUME NEW w \in Writers, CommitTransaction(w) PROVE LatestUnlessExpired'
  <2>0. /\ \A k \in Keys : table'[k] = Seen(w, k)
        /\ latest' = IF written[w] = Null THEN latest
                     ELSE [latest EXCEPT ![op[w].key] = written[w]]
        /\ now' = now /\ InTransaction(w)
    BY <1>2 DEF CommitTransaction, InTransaction
  <2>1. OwnFate(w) /\ started[w] \in Nat /\ started[w] <= now
    BY <1>o DEF TtlInv, OwnFate, TtlTypes
  <2> SUFFICES ASSUME NEW k \in Keys
               PROVE  \/ Seen(w, k) = latest'[k]
                      \/ Seen(w, k) = NoRow /\ Expired(latest'[k], now)
    BY <2>0 DEF LatestUnlessExpired
  <2>2. \/ table[k] = latest[k]
        \/ table[k] = NoRow /\ Expired(latest[k], now)
    BY DEF TtlInv, LatestUnlessExpired
  <2>3. latest'[k] = IF written[w] # Null /\ k = op[w].key THEN written[w] ELSE latest[k]
    BY <2>0, <1>o DEF TtlTypes
  <2>4. Base(w, k) \in Rows \cup {NoRow}
    BY <1>o DEF Base, TtlTypes
  <2>5. CASE k \notin DOMAIN own[w]
    <3>1. written[w] = Null \/ k # op[w].key
      BY <2>0, <2>1, <2>5 DEF OwnFate, Locks
    <3> QED
      BY <2>2, <2>3, <2>5, <3>1 DEF Seen, Locks
  <2>6. CASE k \in DOMAIN own[w]
    <3>1. \/ Seen(w, k) = Base(w, k)
          \/ Seen(w, k) = NoRow /\ Expired(Base(w, k), now) /\ Base(w, k) # NoRow
      BY <2>1, <2>4, <2>6, <1>o, ExpiredLater DEF OwnFate, Kept, Seen, Locks, Expired
    <3> QED
      BY <2>2, <2>3, <3>1 DEF Base
  <2> QED
    BY <2>5, <2>6
<1>3. ASSUME NEW w \in Writers,
             \/ BeginTransaction(w) \/ Write(w) \/ Trigger(w) \/ Scan(w)
             \/ DeleteExpired(w) \/ Fails(w)
      PROVE  LatestUnlessExpired'
  BY <1>3, <1>1, <1>o DEF BeginTransaction, Write, Trigger, Scan, DeleteExpired, Scanned, Fails,
                          history
<1>4. CASE ClockTick \/ UNCHANGED ttlVars
  BY <1>4, <1>1, <1>o DEF ClockTick, ttlVars, history
<1> QED
  BY <1>2, <1>3, <1>4 DEF TtlNext, Step

LEMMA TtlInvInit == TtlInit => TtlInv
<1> SUFFICES ASSUME TtlInit PROVE TtlInv
    OBVIOUS
<1>1. \A w \in Writers : DOMAIN own[w] = {} /\ stage[w] = "new"
  BY DEF TtlInit, Unlocked
<1>2. OneOwner
  BY <1>1 DEF OneOwner, Locks
<1>3. \A w \in Writers : OwnFate(w)
  BY <1>1 DEF TtlInit, OwnFate, InTransaction
<1>4. \A w \in Writers : SweepFate(w)
  BY <1>1 DEF TtlInit, SweepFate, Swept
<1>5. LatestUnlessExpired
  BY DEF TtlInit, LatestUnlessExpired
<1> QED
  BY <1>2, <1>3, <1>4, <1>5, TypesInit DEF TtlInv

LEMMA TtlInvStep == TtlInv /\ [TtlNext]_ttlVars => TtlInv'
<1> SUFFICES ASSUME TtlInv, [TtlNext]_ttlVars PROVE TtlInv'
    OBVIOUS
<1>1. TtlTypes' /\ OneOwner'
  BY TypesStep, OneOwnerStep DEF TtlInv
<1>2. \A w \in Writers : OwnFate(w)' /\ SweepFate(w)'
  BY OwnFateStep, SweepFateStep
<1> QED
  BY <1>1, <1>2, LatestStep DEF TtlInv

\* The inductive invariant of the TTL trigger and its writers.
THEOREM TtlInvariant == TtlSpec => []TtlInv
BY TtlInvInit, TtlInvStep, PTL DEF TtlSpec

\* No write is lost and no renewed row deleted, whatever sweeps run beside it.
THEOREM SweepsKeepRenewedRows == TtlSpec => []LatestUnlessExpired
<1>1. TtlInv => LatestUnlessExpired
  BY DEF TtlInv
<1> QED
  BY <1>1, TtlInvariant, PTL

\* A transaction that fires the trigger has swept what had expired when it began.
THEOREM SweepsAreComplete == TtlSpec => SweepComplete
<1>1. TtlInv /\ [TtlNext]_ttlVars =>
         [\A w \in Writers :
             CommitTransaction(w) /\ op[w].kind # "delete" =>
                \A k \in Keys : Expired(table'[k], started[w]) => k \in disturbed[w]]_ttlVars
  <2> SUFFICES ASSUME TtlInv, NEW w \in Writers, CommitTransaction(w), op[w].kind # "delete",
                      NEW k \in Keys, Expired(table'[k], started[w])
               PROVE  k \in disturbed[w]
    OBVIOUS
  <2>1. table'[k] = Seen(w, k) /\ stage[w] = "commit"
    BY DEF CommitTransaction
  <2> QED
    BY <2>1 DEF TtlInv, SweepFate, Swept
<1> QED
  BY <1>1, TtlInvariant, PTL DEF TtlSpec, SweepComplete
=============================================================================
