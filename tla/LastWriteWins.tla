---------------------------- MODULE LastWriteWins ----------------------------
(***************************************************************************)
(* What out-of-order handling promises for one row: however change events  *)
(* are ordered or repeated on the way, the row holds one of the delivered  *)
(* events, it is replaced by nothing but the event that arrives, and no    *)
(* delivered event is newer.                                               *)
(*                                                                         *)
(* Beats is the whole order of data-model.md, "Out-of-Order Event          *)
(* Handling": the higher timestamp wins and the higher event id breaks a   *)
(* tie.  An event that lacks a field ranks below every event that has it,  *)
(* and events without a timestamp do not compete with each other.  Spec    *)
(* asks for the first half of it, the one that the code keeps.             *)
(***************************************************************************)
EXTENDS Integers

CONSTANTS
    Events,    \* the change events of one row
    Null,      \* an absent field (Python None, SQL NULL)
    NoRow      \* the row does not exist

VARIABLES
    delivered,   \* the events that reached the row so far
    current      \* the event the row holds, or NoRow

Rank(field) == IF field = Null THEN -1 ELSE field

Newer(a, b) == Rank(a.ts) > Rank(b.ts)

Newest(S) == {e \in S : \A d \in S : ~Newer(d, e)}

Beats(a, b) ==
    \/ Newer(a, b)
    \/ a.ts = b.ts /\ a.ts # Null /\ Rank(a.id) > Rank(b.id)

Init == delivered = {} /\ current = NoRow

Deliver(e) ==
    /\ delivered' = delivered \cup {e}
    /\ current' \in {current, e} \cap Newest(delivered')

Next == \E e \in Events : Deliver(e)

Spec == Init /\ [][Next]_<<delivered, current>>
=============================================================================
