--------------------------- MODULE MCHealthService ---------------------------
(* Values for TLC. *)
EXTENDS HealthService

\* One request for everything, one for a component.
AsksOf == [a |-> "all", b |-> "postgresql"]
=============================================================================
