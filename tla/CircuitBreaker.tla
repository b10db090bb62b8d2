--------------------------- MODULE CircuitBreaker ---------------------------
(***************************************************************************)
(* utils/circuit_breaker.py: one CircuitBreaker shared by the threads that *)
(* call PostgreSQLRepository.upsert.  The object has no lock, so a step is *)
(* one statement of one thread; `failure_count += 1` is one step because   *)
(* CPython (pyproject asks for 3.11) switches threads only at calls and    *)
(* backward jumps, never inside it.                                        *)
(*                                                                         *)
(* Wall-clock time appears only as time.time() - last_failure_time, and    *)
(* that only in a comparison with timeout_seconds, so the model keeps the  *)
(* difference, saturated there.  failure_count likewise is only reset and  *)
(* compared with failure_threshold, so the model counts up to it: a count  *)
(* beyond it behaves like one at it.                                       *)
(***************************************************************************)
EXTENDS Integers

CONSTANTS
    Threads,
    failure_threshold,
    timeout_seconds

ASSUME BreakerAssumption ==
    /\ failure_threshold \in Nat \ {0}
    /\ timeout_seconds \in Nat \ {0}

VARIABLES
    state,          \* "closed", "open" or "half_open"
    failure_count,  \* up to failure_threshold, see above
    sinceFailure,   \* seconds since last_failure_time, up to timeout_seconds
    pc,             \* thread -> the statement of call it executes next
    failing         \* the database makes func raise

vars == <<state, failure_count, sinceFailure, pc, failing>>
object == <<state, failure_count, sinceFailure>>

Labels == {"idle", "elapsed", "probe", "func",
           "success", "close", "reset",
           "count", "stamp", "compare", "guard", "trip"}

Init ==
    /\ state = "closed"
    /\ failure_count = 0
    /\ sinceFailure = timeout_seconds
    /\ pc = [t \in Threads |-> "idle"]
    /\ failing = FALSE

Goto(t, label) == pc' = [pc EXCEPT ![t] = label]

-----------------------------------------------------------------------------
(* call *)

\* call reads the state; a call that is not OPEN goes straight to func.
Enter(t) ==
    /\ pc[t] = "idle"
    /\ Goto(t, IF state = "open" THEN "elapsed" ELSE "func")
    /\ UNCHANGED <<object, failing>>

\* OPEN: too early, raise CircuitBreakerOpenError; otherwise go on to probe.
CheckElapsed(t) ==
    /\ pc[t] = "elapsed"
    /\ Goto(t, IF sinceFailure >= timeout_seconds THEN "probe" ELSE "idle")
    /\ UNCHANGED <<object, failing>>

ToHalfOpen(t) ==
    /\ pc[t] = "probe"
    /\ state' = "half_open"
    /\ Goto(t, "func")
    /\ UNCHANGED <<failure_count, sinceFailure, failing>>

FuncReturns(t) ==
    /\ pc[t] = "func"
    /\ Goto(t, "success")
    /\ UNCHANGED <<object, failing>>

\* Any exception of func counts, whatever its type.
FuncRaises(t) ==
    /\ pc[t] = "func"
    /\ Goto(t, "count")
    /\ UNCHANGED <<object, failing>>

-----------------------------------------------------------------------------
(* _on_success *)

OnSuccess(t) ==
    /\ pc[t] = "success"
    /\ Goto(t, IF state = "half_open" THEN "close" ELSE "reset")
    /\ UNCHANGED <<object, failing>>

Close(t) ==
    /\ pc[t] = "close"
    /\ state' = "closed"
    /\ Goto(t, "reset")
    /\ UNCHANGED <<failure_count, sinceFailure, failing>>

\* Mistakes the properties below must notice; no specification uses them: a success
\* that leaves the count, and one that only takes one failure off it.
ResetForgotten(t) ==
    /\ pc[t] = "reset"
    /\ Goto(t, "idle")
    /\ UNCHANGED <<object, failing>>
ResetByOne(t) ==
    /\ pc[t] = "reset"
    /\ failure_count' = failure_count - 1
    /\ Goto(t, "idle")
    /\ UNCHANGED <<state, sinceFailure, failing>>

ResetCount(t) ==
    /\ pc[t] = "reset"
    /\ failure_count' = 0
    /\ Goto(t, "idle")
    /\ UNCHANGED <<state, sinceFailure, failing>>

-----------------------------------------------------------------------------
(* _on_failure *)

CountFailure(t) ==
    /\ pc[t] = "count"
    /\ failure_count' = IF failure_count < failure_threshold
                        THEN failure_count + 1 ELSE failure_count
    /\ Goto(t, "stamp")
    /\ UNCHANGED <<state, sinceFailure, failing>>

StampFailure(t) ==
    /\ pc[t] = "stamp"
    /\ sinceFailure' = 0
    /\ Goto(t, "compare")
    /\ UNCHANGED <<state, failure_count, failing>>

\* A mistake: the breaker is opened by the failure after the threshold.
CompareLate(t) ==
    /\ pc[t] = "compare"
    /\ Goto(t, IF failure_count >= failure_threshold + 1 THEN "guard" ELSE "idle")
    /\ UNCHANGED <<object, failing>>

Compare(t) ==
    /\ pc[t] = "compare"
    /\ Goto(t, IF failure_count >= failure_threshold THEN "guard" ELSE "idle")
    /\ UNCHANGED <<object, failing>>

Guard(t) ==
    /\ pc[t] = "guard"
    /\ Goto(t, IF state # "open" THEN "trip" ELSE "idle")
    /\ UNCHANGED <<object, failing>>

Trip(t) ==
    /\ pc[t] = "trip"
    /\ state' = "open"
    /\ Goto(t, "idle")
    /\ UNCHANGED <<failure_count, sinceFailure, failing>>

-----------------------------------------------------------------------------
(* The environment: time passes, the database fails and recovers. *)

\* A mistake: the clock the timeout is measured with stands still.
TickStuck ==
    /\ sinceFailure < timeout_seconds - 1
    /\ sinceFailure' = sinceFailure + 1
    /\ UNCHANGED <<state, failure_count, pc, failing>>

Tick ==
    /\ sinceFailure < timeout_seconds
    /\ sinceFailure' = sinceFailure + 1
    /\ UNCHANGED <<state, failure_count, pc, failing>>

DatabaseChanges ==
    /\ failing' = ~failing
    /\ UNCHANGED <<object, pc>>

Func(t) ==
    \/ ~failing /\ FuncReturns(t)
    \/ failing /\ FuncRaises(t)

\* What call does after func, up to the return or the re-raise.
Bookkeeping(t) ==
    \/ OnSuccess(t) \/ Close(t) \/ ResetCount(t)
    \/ CountFailure(t) \/ StampFailure(t) \/ Compare(t) \/ Guard(t) \/ Trip(t)

Working(t) == CheckElapsed(t) \/ ToHalfOpen(t) \/ Func(t) \/ Bookkeeping(t)

Next ==
    \/ \E t \in Threads : Enter(t) \/ Working(t)
    \/ Tick
    \/ DatabaseChanges

Spec == Init /\ [][Next]_vars

\* The interpreter runs every thread inside a call, and time passes.  Nothing
\* makes the application call again, or the database recover.
FairSpec == Spec /\ WF_vars(Tick) /\ \A t \in Threads : WF_vars(Working(t))

-----------------------------------------------------------------------------
TypeOK ==
    /\ state \in {"closed", "open", "half_open"}
    /\ failure_count \in 0..failure_threshold
    /\ sinceFailure \in 0..timeout_seconds
    /\ pc \in [Threads -> Labels]
    /\ failing \in BOOLEAN

Quiet == \A t \in Threads : pc[t] = "idle"

\* Whatever threads do to each other, the breaker does not stay closed over the
\* threshold: a thread that will open it, or reset the count, is still at work.
SettledBelowThreshold ==
    state = "closed" /\ failure_count >= failure_threshold
      => \E t \in Threads : pc[t] \in {"stamp", "compare", "guard", "trip", "reset"}

\* HALF_OPEN is "Testing if service recovered": some call is in progress.
HalfOpenIsAProbe == state = "half_open" => ~Quiet

\* Once the database stays up, and as long as the application keeps calling, the
\* breaker closes for good, however it was left.
Recovers ==
    (<>[]~failing /\ []<>~Quiet) => <>[](state = "closed")
=============================================================================
