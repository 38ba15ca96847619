---------------------------- MODULE MCFetchTree -----------------------------
(* Three revisions of one skill: enough for an installed one, the one that *)
(* replaces it, and a third that must never appear.                        *)
EXTENDS FetchTree
=============================================================================
