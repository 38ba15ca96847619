------------------------------- MODULE Skills --------------------------------
(***************************************************************************)
(* Shared skills: agents of one checkout share its skills.tsv, and each    *)
(* has the pinned trees in a home of its own.  add-skill installs a tree   *)
(* in one home and then records its pin for all; deploy replays every pin  *)
(* into one home.  Either may fail or be killed at any step.  That one     *)
(* tree is swapped whole or not at all is what AtomicInstall promises.     *)
(* agent_mgr/commands.py: add_skill, deploy.py: replay_skills,             *)
(* artifacts.py: fetch.                                                    *)
(***************************************************************************)
CONSTANTS
    Names,    \* agents of one checkout
    Dests,    \* destinations below a home's skills/
    Refs,     \* what --ref, a row of skills.tsv or GitHub's answer may say
    Revs,     \* those that are full SHAs
    None,     \* no pin, no tree
    Repo,     \* destination -> the repository it is installed from
    Swallows, \* destination -> those that go when its own tree is swapped
    NoCommand \* no command is running

ASSUME NullAssumption == None \notin Refs /\ Revs \subseteq Refs

Pins == [Dests -> Refs \cup {None}]

\* The command that is running; there is one at a time.
Commands ==
    [ op   : {"add-skill", "deploy"},
      pc   : {"fetch", "read", "publish", "replay"},
      name : Names,
      dest : Dests \cup {None},
      rev  : Refs \cup {None},
      rows : Pins,              \* skills.tsv as it was read
      todo : SUBSET Dests ]     \* rows that deploy has yet to replay

ASSUME NoCommandAssumption == NoCommand \notin Commands

VARIABLES
    pins,     \* skills.tsv
    tree,     \* name -> destination -> what its home holds
    cmd,      \* the command, or NoCommand
    settled   \* names whose home was reported to hold what was pinned,
              \* with nothing done since that could have changed either

skillsVars == <<pins, tree, cmd, settled>>

SkillsTypeOK ==
    /\ pins \in Pins
    /\ tree \in [Names -> [Dests -> Revs \cup {None}]]
    /\ cmd \in Commands \cup {NoCommand}
    /\ settled \subseteq Names

SkillsInit ==
    /\ pins = [d \in Dests |-> None]
    /\ tree = [n \in Names |-> [d \in Dests |-> None]]
    /\ cmd = NoCommand
    /\ settled = {}

CmdAt(label) == cmd # NoCommand /\ cmd.pc = label
Serves(n) == cmd # NoCommand /\ cmd.name = n
Goto(label) == cmd' = [cmd EXCEPT !.pc = label]

-----------------------------------------------------------------------------
\* Mutant: a branch or a short SHA will do.
ValidatesAny(r) == r \in Refs

\* add-skill refuses any other ref, and so does fetch-tree, which deploy runs on
\* rows as they are.
Validates(r) == r \in Revs

\* An agent that was settled stays so while its own add-skill runs.
AddSkill(n, d, r) ==
    /\ cmd = NoCommand
    /\ Validates(r)
    /\ cmd' = [ op |-> "add-skill", pc |-> "fetch", name |-> n, dest |-> d, rev |-> r,
                rows |-> pins, todo |-> {} ]
    /\ UNCHANGED <<pins, tree, settled>>

\* deploy reads the manifest once, and replays its rows one by one.
DeploySkills(n) ==
    /\ cmd = NoCommand
    /\ cmd' = [ op |-> "deploy", pc |-> "replay", name |-> n, dest |-> None, rev |-> None,
                rows |-> pins, todo |-> {d \in Dests : pins[d] # None} ]
    /\ settled' = settled \ {n}
    /\ UNCHANGED <<pins, tree>>

\* fetch: the tree is swapped, and what lay inside the old one is gone.
Swap(d, r) ==
    tree' = [tree EXCEPT ![cmd.name] =
               [e \in Dests |-> IF e = d THEN r ELSE IF e \in Swallows[d] THEN None ELSE @[e]]]

Fetch ==
    /\ CmdAt("fetch")
    /\ Swap(cmd.dest, cmd.rev)
    /\ Goto("read")
    /\ UNCHANGED <<pins, settled>>

ReadManifest ==
    /\ CmdAt("read")
    /\ cmd' = [cmd EXCEPT !.pc = "publish", !.rows = pins]
    /\ UNCHANGED <<pins, tree, settled>>

\* Mutant: the row of the same repository gives way.
ReplacementByRepo ==
    [e \in Dests |-> IF e = cmd.dest THEN cmd.rev
                     ELSE IF Repo[e] = Repo[cmd.dest] THEN None ELSE cmd.rows[e]]

\* The row of the same destination gives way, every other is kept.
Replacement == [cmd.rows EXCEPT ![cmd.dest] = cmd.rev]

\* The pin is recorded for whoever shares the checkout; the reload that follows
\* changes neither the manifest nor a home.
PublishManifest ==
    /\ CmdAt("publish")
    /\ pins' = Replacement
    /\ settled' = settled \cap {cmd.name}
    /\ cmd' = NoCommand
    /\ UNCHANGED tree

\* One row, in whatever order their repositories' names have.
Replay(d) ==
    /\ CmdAt("replay")
    /\ d \in cmd.todo
    /\ Validates(cmd.rows[d])
    /\ Swap(d, cmd.rows[d])
    /\ cmd' = [cmd EXCEPT !.todo = @ \ {d}]
    /\ UNCHANGED <<pins, settled>>

DeployDone ==
    /\ CmdAt("replay")
    /\ cmd.todo = {}
    /\ settled' = settled \cup {cmd.name}
    /\ cmd' = NoCommand
    /\ UNCHANGED <<pins, tree>>

\* Mutant: a row that cannot be fetched is passed over, and the deploy goes on.
FailPassing ==
    /\ cmd # NoCommand
    /\ IF CmdAt("replay") /\ cmd.todo # {}
       THEN /\ \E d \in cmd.todo : cmd' = [cmd EXCEPT !.todo = @ \ {d}]
            /\ UNCHANGED settled
       ELSE cmd' = NoCommand /\ settled' = settled \ {cmd.name}
    /\ UNCHANGED <<pins, tree>>

\* A fetch, the manifest's rename or what follows fails, or the command is
\* killed: nothing else is done, and the operator has seen it.
Fail ==
    /\ cmd # NoCommand
    /\ cmd' = NoCommand
    /\ settled' = settled \ {cmd.name}
    /\ UNCHANGED <<pins, tree>>

\* skills.tsv is edited, or checked out at another commit, between commands.
Checkout(d, r) ==
    /\ cmd = NoCommand
    /\ pins' = [pins EXCEPT ![d] = r]
    /\ settled' = {}
    /\ UNCHANGED <<tree, cmd>>

\* The agent, which writes its home, removes a skill, while no command installs
\* one there.
Forget(n, d) ==
    /\ ~ Serves(n)
    /\ tree[n][d] # None
    /\ tree' = [tree EXCEPT ![n][d] = None]
    /\ settled' = settled \ {n}
    /\ UNCHANGED <<pins, cmd>>

SkillsNext ==
    \/ \E n \in Names, d \in Dests :
          \/ \E r \in Refs : AddSkill(n, d, r)
          \/ Forget(n, d)
    \/ \E n \in Names : DeploySkills(n)
    \/ \E d \in Dests :
          \/ Replay(d)
          \/ \E r \in Refs \cup {None} : Checkout(d, r)
    \/ Fetch \/ ReadManifest \/ PublishManifest \/ DeployDone \/ Fail

SkillsSpec == SkillsInit /\ [][SkillsNext]_skillsVars

-----------------------------------------------------------------------------
(* Properties.                                                             *)

\* A skill whose directory lies below another's: the other's swap takes it away.
Below(d) == \E e \in Dests : d \in Swallows[e]

Holds(n, d) == tree[n][d] = pins[d] \/ (Below(d) /\ tree[n][d] = None)

\* tests/test_install.py, of a deploy: "A rebuild that omitted them left an
\* agent whose skills.tsv said one thing and whose home held another."  After
\* commands that failed, were killed or served another agent of the checkout,
\* a home that was last reported to be in order holds every pin, and never
\* another revision; only a skill below another's directory may be missing.
HomeHoldsPins ==
    \A n \in settled : ~ Serves(n) => \A d \in Dests : pins[d] # None => Holds(n, d)

\* README: "one pinned SHA per skill".  add-skill changes the pin of its own
\* destination, and of no other skill of the same repository.
OthersKept ==
    [][pins' # pins /\ cmd # NoCommand
           => \A d \in Dests : pins'[d] # pins[d] => d = cmd.dest /\ pins'[d] = cmd.rev]_skillsVars
=============================================================================
