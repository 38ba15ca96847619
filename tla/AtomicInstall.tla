---------------------------- MODULE AtomicInstall ----------------------------
(***************************************************************************)
(* What installing a pinned tree promises whoever reads it ("an atomic     *)
(* rollback-aware swap", lib/fetch-tree): at every moment, also after a    *)
(* crash, one whole tree is installed, or none yet; it changes only while  *)
(* a tree is requested, and only into that tree.                           *)
(***************************************************************************)
CONSTANTS Trees, Absent

VARIABLES installed, request

Init ==
    /\ installed \in Trees \cup {Absent}
    /\ request = Absent

Ask(tree) ==
    /\ request = Absent
    /\ request' = tree
    /\ UNCHANGED installed

Install ==
    /\ request # Absent
    /\ installed' = request
    /\ UNCHANGED request

\* With or without having installed it.
Answer ==
    /\ request' = Absent
    /\ UNCHANGED installed

Next == Install \/ Answer \/ \E tree \in Trees : Ask(tree)

Spec == Init /\ [][Next]_<<installed, request>>
=============================================================================
