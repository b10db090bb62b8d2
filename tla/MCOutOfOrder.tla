---------------------------- MODULE MCOutOfOrder ----------------------------
(***************************************************************************)
(* Eight events of one row: three timestamps, a three-way tie at 2 with    *)
(* one event that lacks its id, and two events without a timestamp.        *)
(***************************************************************************)
EXTENDS OutOfOrder

Change(ts, id, data) == [ts |-> ts, id |-> id, data |-> data]

MCEvents ==
    { Change(1, 2, "a"), Change(2, 1, "b"), Change(2, 3, "c"),
      Change(2, Null, "d"), Change(3, Null, "e"), Change(3, 2, "f"),
      Change(Null, 1, "g"), Change(Null, Null, "h") }
=============================================================================
