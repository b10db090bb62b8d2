----------------------------- MODULE MCDlqReplay -----------------------------
(***************************************************************************)
(* Two requests, one for three records and one for two of them, so that    *)
(* they can wait for each other's rows and have a record left afterwards.  *)
(***************************************************************************)
EXTENDS DlqReplay, TLC

CONSTANTS s1, s2, r1, r2, r3

MCSessions == {s1, s2}
MCRecords == {r1, r2, r3}
MCRequested == (s1 :> {r1, r2, r3}) @@ (s2 :> {r1, r2})
=============================================================================
