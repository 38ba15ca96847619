------------------------------ MODULE MCDotenv -------------------------------
(***************************************************************************)
(* An agent that was never deployed, one with a hand-edited file in which  *)
(* the token is declared twice and the last newline is missing, and one    *)
(* with a file of its own that declares nothing agent-mgr writes.          *)
(***************************************************************************)
EXTENDS Dotenv, TLC

Line(k, v) == [key |-> k, val |-> v]

\* The template declares the home channel blank, and the latch keys not at all.
MCSkeleton == [lines |-> <<Line("PLOW_HOME_CHANNEL", Blank)>>, ended |-> TRUE]

MCStarts ==
    { Absent,
      [lines |-> << Line("DOMO_DEVICE_UID", "theirs"),
                    Line("DOMO_MCP_TOKEN", "theirs"), Line("DOMO_MCP_TOKEN", "theirs") >>,
       ended |-> FALSE],
      [lines |-> <<Line("HOSTEX_TOKEN", "theirs")>>, ended |-> FALSE] }

Symmetry == Permutations(Editors) \cup Permutations(Values)
=============================================================================
