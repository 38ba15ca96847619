----------------------------- MODULE Resolution -----------------------------
(***************************************************************************)
(* What a registry row resolves to, and when a resolved home may be        *)
(* written: agent_mgr/descriptor.py (resolve_agent) and agent_mgr/local.py *)
(* (require_own_home, the checks of resolve_guard).                        *)
(*                                                                         *)
(* A registry is a function from names to repositories or NoRepo.  A       *)
(* repository's descriptor (its agent.env) is the constant Desc[repo]: an  *)
(* edited descriptor is another repository.  `broken' is the set of        *)
(* repositories that cannot be resolved at the moment: a directory that is *)
(* gone, an agent.env that is missing or that does not parse.              *)
(***************************************************************************)
EXTENDS FiniteSets

CONSTANTS
    Names,           \* agent names a registry row may carry
    Repos,           \* agent repositories
    Paths,           \* home paths, as the descriptor spells them
    Dirs,            \* the real directories the paths lead to
    Projects,        \* Compose project names, global to the Docker host
    NoRepo,          \* a name with no registry row
    Undeclared,      \* a key the descriptor leaves out
    Bare,            \* the basename ".hermes"
    Other,           \* any basename that is neither ".hermes" nor ".hermes-<name>"
    DefaultHome,     \* [Names -> Paths]: ~/.hermes-<name>
    DefaultProject,  \* [Names -> Projects]: hermes-<name>
    Basename,        \* [Paths -> ...]: n stands for ".hermes-n"
    Dir,             \* [Paths -> Dirs]: Path.resolve(), symlinks followed
    Desc             \* [Repos -> Descriptors]

Descriptors ==
    [ home     : Paths \cup {Undeclared},     \* AGENT_HOME
      mount    : Paths \cup {Undeclared},     \* home an override makes Compose mount
      project  : Projects \cup {Undeclared},  \* AGENT_PROJECT
      contract : {"legacy", "current"},       \* baked HERMES_HOME of its pinned image
      live     : BOOLEAN,                     \* AGENT_LIVE
      hook     : BOOLEAN ]                    \* AGENT_PRE_TRANSITION

ASSUME NoRepoAssumption == NoRepo \notin Repos

ASSUME UndeclaredAssumption == Undeclared \notin Paths \cup Projects

ASSUME BasenameAssumption ==
    /\ Bare \notin Names /\ Other \notin Names /\ Bare # Other
    /\ Basename \in [Paths -> Names \cup {Bare, Other}]

ASSUME DefaultAssumption ==
    /\ DefaultHome \in [Names -> Paths]
    /\ DefaultProject \in [Names -> Projects]
    /\ \A n \in Names : Basename[DefaultHome[n]] = n

ASSUME DirAssumption == Dir \in [Paths -> Dirs]

ASSUME DescAssumption == Desc \in [Repos -> Descriptors]

-----------------------------------------------------------------------------
Registries == [Names -> Repos \cup {NoRepo}]

Home(n, r) == IF Desc[r].home = Undeclared THEN DefaultHome[n] ELSE Desc[r].home

HomeDir(n, r) == Dir[Home(n, r)]

Project(n, r) == IF Desc[r].project = Undeclared THEN DefaultProject[n] ELSE Desc[r].project

\* The home Compose really mounts: an override may retarget the shared
\* template's volume, which is what resolve-guard looks for.
Mount(n, r) == IF Desc[r].mount = Undeclared THEN Home(n, r) ELSE Desc[r].mount

Resolves(reg, broken, n) == reg[n] # NoRepo /\ reg[n] \notin broken

-----------------------------------------------------------------------------
\* Mutant: a sibling that cannot be resolved is skipped instead of refused.
SkipUnresolvable(reg, broken, n, r) ==
    \A m \in Names \ {n} :
        Resolves(reg, broken, m) => HomeDir(m, reg[m]) # HomeDir(n, r)

\* Mutant: homes are compared as they are spelled, not as they resolve.
CompareSpelling(reg, broken, n, r) ==
    \A m \in Names \ {n} :
        reg[m] # NoRepo => reg[m] \notin broken /\ Home(m, reg[m]) # Home(n, r)

\* Every other row must resolve, and to another directory.
NobodyElseClaims(reg, broken, n, r) ==
    \A m \in Names \ {n} :
        reg[m] # NoRepo => reg[m] \notin broken /\ HomeDir(m, reg[m]) # HomeDir(n, r)

\* The path must also be spelled as this agent's own.
OwnSpelling(n, r) ==
    \/ Basename[Home(n, r)] = n
    \/ Basename[Home(n, r)] = Bare /\ Desc[r].home # Undeclared

OwnHome(reg, broken, n, r) == NobodyElseClaims(reg, broken, n, r) /\ OwnSpelling(n, r)

\* What resolve_guard requires of the configuration Compose resolved.
ComposeAgrees(n, r) == Mount(n, r) = Home(n, r)
=============================================================================
