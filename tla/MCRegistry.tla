----------------------------- MODULE MCRegistry ------------------------------
(***************************************************************************)
(* Two repositories: "plain" gives every name a home of its own, "taken"   *)
(* declares the home of the name a.                                        *)
(***************************************************************************)
EXTENDS Registry

MCHomeDir == [n \in Names |-> [r \in Repos |-> IF r = "taken" THEN "a" ELSE n]]
=============================================================================
