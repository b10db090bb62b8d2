-------------------------- MODULE MCSchemaEvolution --------------------------
(***************************************************************************)
(* Three clients on one subject: one overrides the mode with BACKWARD, one *)
(* with FULL, one takes the subject's.  The columns differ from each other *)
(* by every kind of change: a column added (required, nullable, with a     *)
(* default that fits or not, with both), dropped, tightened, loosened, or  *)
(* of another type.                                                        *)
(***************************************************************************)
EXTENDS SchemaEvolution

CONSTANTS back, full, plain

MCClients == {back, full, plain}

MCAsk == [c \in MCClients |->
             IF c = back THEN "BACKWARD" ELSE IF c = full THEN "FULL" ELSE "unset"]

Column(t, nullable, default) == [type |-> t, nullable |-> nullable, default |-> default]

Id == Column("int", FALSE, "none")

MCSchemas ==
    {[id |-> Id],
     [id |-> Column("bigint", FALSE, "none")],
     [id |-> Id, email |-> Column("text", FALSE, "none")],
     [id |-> Id, email |-> Column("text", TRUE, "none")],
     [id |-> Id, email |-> Column("blob", FALSE, "fits")],
     [id |-> Id, email |-> Column("text", FALSE, "misfits")],
     [id |-> Id, email |-> Column("text", TRUE, "fits")]}
=============================================================================
