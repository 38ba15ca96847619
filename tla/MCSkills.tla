------------------------------ MODULE MCSkills -------------------------------
(***************************************************************************)
(* Three skills of one repository, of which one lies below another.        *)
(***************************************************************************)
EXTENDS Skills

OneRepo == [d \in Dests |-> "mono"]
Nested == [d \in Dests |-> IF d = "productivity" THEN {"productivity/connectors"} ELSE {}]
=============================================================================
