------------------------------ MODULE DeadLetters ------------------------------
(***************************************************************************)
(* What POST /dlq/replay promises of the dead letters, whatever happens to *)
(* Kafka, PostgreSQL and the processes: a request brings events back to    *)
(* the topic one by one, at any time, also after its answer; it resolves   *)
(* records once, all at the same moment and not after its answer, and only *)
(* records that it names and has brought back.  A resolved record is never *)
(* pending again.                                                          *)
(***************************************************************************)
CONSTANTS
    Requests,
    Records,
    Named,      \* request -> the records it names
    Pending     \* nobody has resolved the record

VARIABLES
    topic,      \* <<request, record>>: the events a request has brought back
    resolver,   \* record -> the request that has resolved it last, or Pending
    over        \* the requests that resolve nothing any more

Init ==
    /\ topic = {}
    /\ resolver = [r \in Records |-> Pending]
    /\ over = {}

BringBack(q, r) ==
    /\ r \in Named[q]
    /\ topic' = topic \cup {<<q, r>>}
    /\ UNCHANGED <<resolver, over>>

\* An empty set stands for the requests that fail, or find nothing to do.
Resolve(q, S) ==
    /\ q \notin over
    /\ \A r \in S : r \in Named[q] /\ <<q, r>> \in topic
    /\ resolver' = [r \in Records |-> IF r \in S THEN q ELSE resolver[r]]
    /\ over' = over \cup {q}
    /\ UNCHANGED topic

Next ==
    \E q \in Requests :
       \/ \E r \in Records : BringBack(q, r)
       \/ \E S \in SUBSET Records : Resolve(q, S)

Spec == Init /\ [][Next]_<<topic, resolver, over>>
=============================================================================
