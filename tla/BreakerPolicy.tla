---------------------------- MODULE BreakerPolicy ----------------------------
(***************************************************************************)
(* FR-020, "open after 5 consecutive failures, half-open after 60          *)
(* seconds", stated over what the calls of a CircuitBreaker did.  Two      *)
(* history variables watch the calls; they restrict nothing.               *)
(***************************************************************************)
EXTENDS CircuitBreaker

VARIABLES
    overlapped,   \* two calls were in progress at the same time
    streak        \* calls that failed since one last succeeded, up to failure_threshold

policyVars == <<vars, overlapped, streak>>

PolicyInit == Init /\ overlapped = FALSE /\ streak = 0

Moved(t, from, to) == pc[t] = from /\ pc'[t] = to

Overlap(calls) == \E t, u \in Threads : t # u /\ calls[t] # "idle" /\ calls[u] # "idle"

Watch ==
    /\ overlapped' = (overlapped \/ Overlap(pc'))
    /\ streak' = IF \E t \in Threads : Moved(t, "func", "success") THEN 0
                 ELSE IF /\ streak < failure_threshold
                         /\ \E t \in Threads : Moved(t, "func", "count")
                      THEN streak + 1
                      ELSE streak

PolicyNext == Next /\ Watch

PolicySpec == PolicyInit /\ [][PolicyNext]_policyVars

FairPolicySpec ==
    PolicySpec /\ WF_vars(Tick) /\ \A t \in Threads : WF_vars(Working(t))

PolicyTypeOK == TypeOK /\ overlapped \in BOOLEAN /\ streak \in 0..failure_threshold

\* Between calls, for callers that never overlap two: the breaker is open exactly
\* when the last failure_threshold calls failed, and never half open.
SerialPolicy ==
    ~overlapped /\ Quiet
      => state = IF streak = failure_threshold THEN "open" ELSE "closed"
=============================================================================
