--------------------------- MODULE MCBootContract ----------------------------
(***************************************************************************)
(* A digest of the current contract, one tag that this host builds to      *)
(* either contract or to one that agent-mgr does not know, and two commands*)
(* side by side, which the properties do not tell apart.                   *)
(***************************************************************************)
EXTENDS BootContract, TLC

MCDigestContract == [d \in Digests |-> "current"]

Symmetry == Permutations(Procs)
=============================================================================
