---------------------------- MODULE RegistryMap ------------------------------
(***************************************************************************)
(* What the registry promises: a map from names to repositories in which a *)
(* change concerns one name and is there at once or not at all.            *)
(* agent_mgr/registry.py: Registry.                                        *)
(***************************************************************************)
CONSTANTS Names, Repos, NoRepo

VARIABLE rows

Init == rows = [n \in Names |-> NoRepo]

\* A row is added, repointed, or removed.
Change(n, row) == rows' = [rows EXCEPT ![n] = row]

Next == \E n \in Names, row \in Repos \cup {NoRepo} : Change(n, row)

Spec == Init /\ [][Next]_rows
=============================================================================
