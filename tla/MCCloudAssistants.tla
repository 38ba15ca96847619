-------------------------- MODULE MCCloudAssistants --------------------------
(***************************************************************************)
(* Instance of CloudAssistants for TLC: callers and lines are symmetric,   *)
(* as nothing tells one of them from another.                              *)
(***************************************************************************)
EXTENDS CloudAssistants, TLC

Symmetric == Permutations(Clients) \cup Permutations(Lines)
=============================================================================
