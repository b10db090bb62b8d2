---------------------------- MODULE MCGdprErasure ----------------------------
(***************************************************************************)
(* Three requests for the same row: two that one process serves one after  *)
(* the other, and one in another process.                                  *)
(***************************************************************************)
EXTENDS GdprErasure

CONSTANTS r1, r2, r3, p1, p2

MCRequests == {r1, r2, r3}

MCProcess == [r \in MCRequests |-> IF r = r3 THEN p2 ELSE p1]
=============================================================================
