------------------------------ MODULE Registry -------------------------------
(***************************************************************************)
(* The registry file as its writers and readers really touch it.  register *)
(* and unregister read the whole file, change one row in memory, and       *)
(* rename a new file into place; `new' looks its name up first.  The       *)
(* ownership sweep of require_own_home reads the file once for the names,  *)
(* and once more for every other name, comparing homes one by one, while   *)
(* rows and repositories change under it.  Module Lifecycle takes both as  *)
(* single steps; this one shows that it may.                               *)
(* agent_mgr/registry.py, files.py: atomic_write, cli.py: new,             *)
(* local.py: require_own_home.                                             *)
(***************************************************************************)
CONSTANTS
    Names, Repos,
    NoRepo,       \* a name with no row
    Dirs,         \* real directories
    HomeDir,      \* [Names -> [Repos -> Dirs]]: where a name's home leads to
    Writers,      \* register, unregister and new at work at once
    Procs,        \* commands that are about to write a home
    NoEdit,       \* a writer that is not at work
    NoCommand     \* a process that runs no command

ASSUME NullAssumption == NoRepo \notin Repos
ASSUME HomeAssumption == HomeDir \in [Names -> [Repos -> Dirs]]

Registries == [Names -> Repos \cup {NoRepo}]

Edits ==
    [ pc   : {"lookup", "read", "replace"},
      name : Names,
      row  : Repos \cup {NoRepo},   \* what it makes of the row; NoRepo removes it
      new  : BOOLEAN,               \* agent-mgr new: only for a free name
      rows : Registries ]           \* the file as it read it

Commands ==
    [ pc    : {"list", "sweep"},
      name  : Names,
      repo  : Repos,                \* its own row, when it began
      todo  : SUBSET Names,         \* rows it has yet to resolve and compare
      doubt : BOOLEAN ]             \* some row could not be resolved

ASSUME IdleAssumption == NoEdit \notin Edits /\ NoCommand \notin Commands

VARIABLES
    file,    \* the registry file
    broken,  \* repositories that cannot be resolved at the moment
    edit,    \* writer -> the edit it is at, or NoEdit
    proc,    \* process -> the command it runs, or NoCommand
    claim    \* name -> the row it was last admitted with, until it is taken down

vars == <<file, broken, edit, proc, claim>>

TypeOK ==
    /\ file \in Registries
    /\ broken \subseteq Repos
    /\ edit \in [Writers -> Edits \cup {NoEdit}]
    /\ proc \in [Procs -> Commands \cup {NoCommand}]
    /\ claim \in Registries

Init ==
    /\ file = [n \in Names |-> NoRepo]
    /\ broken = {}
    /\ edit = [w \in Writers |-> NoEdit]
    /\ proc = [p \in Procs |-> NoCommand]
    /\ claim = [n \in Names |-> NoRepo]

-----------------------------------------------------------------------------
(* The writers.                                                            *)

Editing(w, label) == edit[w] # NoEdit /\ edit[w].pc = label
EndEdit(w) == edit' = [edit EXCEPT ![w] = NoEdit]

\* The order the README gives for tearing an agent down: it is taken down,
\* and no command of it runs, before its row is touched.
Retired(n) ==
    /\ claim[n] = NoRepo
    /\ \A p \in Procs : proc[p] # NoCommand => proc[p].name # n

StartEdit(w, n, row, new) ==
    /\ edit[w] = NoEdit
    /\ Retired(n)
    /\ new => row # NoRepo
    /\ edit' = [edit EXCEPT ![w] = [ pc |-> IF new THEN "lookup" ELSE "read",
                                     name |-> n, row |-> row, new |-> new, rows |-> file ]]
    /\ UNCHANGED <<file, broken, proc, claim>>

\* Mutant: new takes a name whose row does not resolve for a free one.
LookupResolving(w) ==
    /\ Editing(w, "lookup")
    /\ IF file[edit[w].name] \in {NoRepo} \cup broken
       THEN edit' = [edit EXCEPT ![w].pc = "read"]
       ELSE EndEdit(w)
    /\ UNCHANGED <<file, broken, proc, claim>>

\* new: a name that has a row is refused; otherwise files are laid out.
Lookup(w) ==
    /\ Editing(w, "lookup")
    /\ IF file[edit[w].name] = NoRepo
       THEN edit' = [edit EXCEPT ![w].pc = "read"]
       ELSE EndEdit(w)
    /\ UNCHANGED <<file, broken, proc, claim>>

\* add and remove read every row; remove refuses a name that has none.
ReadRows(w) ==
    /\ Editing(w, "read")
    /\ IF edit[w].row = NoRepo /\ file[edit[w].name] = NoRepo
       THEN EndEdit(w)
       ELSE edit' = [edit EXCEPT ![w].pc = "replace", ![w].rows = file]
    /\ UNCHANGED <<file, broken, proc, claim>>

\* Mutant: remove drops every row of that repository.
DropRepository(e) ==
    [m \in Names |-> IF m = e.name THEN e.row
                     ELSE IF e.row = NoRepo /\ e.rows[m] = e.rows[e.name] THEN NoRepo
                     ELSE e.rows[m]]

\* The rows as they were read, but for the one of this name.
Replacement(e) == [e.rows EXCEPT ![e.name] = e.row]

\* _replace: the new file is written beside the old one and renamed over it.
Replace(w) ==
    /\ Editing(w, "replace")
    /\ file' = Replacement(edit[w])
    /\ EndEdit(w)
    /\ UNCHANGED <<broken, proc, claim>>

\* A writer is killed, or an error ends it, before its rename.
Abandon(w) ==
    /\ edit[w] # NoEdit
    /\ EndEdit(w)
    /\ UNCHANGED <<file, broken, proc, claim>>

-----------------------------------------------------------------------------
(* The sweep.                                                              *)

At(p, label) == proc[p] # NoCommand /\ proc[p].pc = label
End(p) == proc' = [proc EXCEPT ![p] = NoCommand]

Resolves(n) == file[n] # NoRepo /\ file[n] \notin broken

\* resolve_agent.  Nobody starts a command of an agent whose row is being
\* edited.
Begin(p, n) ==
    /\ proc[p] = NoCommand
    /\ Resolves(n)
    /\ \A w \in Writers : edit[w] # NoEdit => edit[w].name # n
    /\ proc' = [proc EXCEPT ![p] =
         [pc |-> "list", name |-> n, repo |-> file[n], todo |-> {}, doubt |-> FALSE]]
    /\ UNCHANGED <<file, broken, edit, claim>>

\* registry.entries(), once.
List(p) ==
    /\ At(p, "list")
    /\ proc' = [proc EXCEPT ![p].pc = "sweep",
                            ![p].todo = {m \in Names \ {proc[p].name} : file[m] # NoRepo}]
    /\ UNCHANGED <<file, broken, edit, claim>>

\* Mutant: a row that cannot be resolved is passed over.
VisitResolving(p, m) ==
    /\ At(p, "sweep")
    /\ m \in proc[p].todo
    /\ IF Resolves(m) /\ HomeDir[m][file[m]] = HomeDir[proc[p].name][proc[p].repo]
       THEN End(p)
       ELSE proc' = [proc EXCEPT ![p].todo = @ \ {m}]
    /\ UNCHANGED <<file, broken, edit, claim>>

\* One row of the sweep, resolved as the file is now.  A collision is refused
\* at once; a row that does not resolve, or is gone by now, at the end.
Visit(p, m) ==
    /\ At(p, "sweep")
    /\ m \in proc[p].todo
    /\ IF Resolves(m) /\ HomeDir[m][file[m]] = HomeDir[proc[p].name][proc[p].repo]
       THEN End(p)
       ELSE proc' = [proc EXCEPT ![p].todo = @ \ {m}, ![p].doubt = @ \/ ~Resolves(m)]
    /\ UNCHANGED <<file, broken, edit, claim>>

\* After the last row: the home is this agent's, until it is taken down.
Admit(p) ==
    /\ At(p, "sweep")
    /\ proc[p].todo = {}
    /\ claim' = IF proc[p].doubt THEN claim ELSE [claim EXCEPT ![proc[p].name] = proc[p].repo]
    /\ End(p)
    /\ UNCHANGED <<file, broken, edit>>

\* down.
TakeDown(n) ==
    /\ claim[n] # NoRepo
    /\ claim' = [claim EXCEPT ![n] = NoRepo]
    /\ UNCHANGED <<file, broken, edit, proc>>

\* A repository stops resolving, or resolves again.
Toggle(r) ==
    /\ broken' = (broken \cup {r}) \ (broken \cap {r})
    /\ UNCHANGED <<file, edit, proc, claim>>

Next ==
    \/ \E w \in Writers :
          \/ \E n \in Names, row \in Repos \cup {NoRepo}, new \in BOOLEAN : StartEdit(w, n, row, new)
          \/ Lookup(w) \/ ReadRows(w) \/ Replace(w) \/ Abandon(w)
    \/ \E p \in Procs :
          \/ \E n \in Names : Begin(p, n) \/ Visit(p, n)
          \/ List(p) \/ Admit(p)
    \/ \E n \in Names : TakeDown(n)
    \/ \E r \in Repos : Toggle(r)

Spec == Init /\ [][Next]_vars

-----------------------------------------------------------------------------
(* Properties.                                                             *)

\* No two agents hold one directory at once, although each of them compared
\* its home with the others' rows one at a time while rows came and went.
Exclusive ==
    \A n, m \in Names :
        n # m /\ claim[n] # NoRepo /\ claim[m] # NoRepo
            => HomeDir[n][claim[n]] # HomeDir[m][claim[m]]

\* An edit changes no row but its own, and never one that is in use: an agent's
\* row still says what the agent was admitted with.
RowsStay ==
    \A n \in Names : claim[n] # NoRepo => file[n] = claim[n]

\* For whoever reads it the file is a map whose rows change one at a time,
\* though writers read it, are killed, and rename later: it implements
\* RegistryMap.
Map == INSTANCE RegistryMap WITH rows <- file
RowsChangeSingly == Map!Spec

\* `new' never repoints a name that is registered already.
NewIsNew ==
    [][\A w \in Writers : Editing(w, "replace") /\ edit[w].new /\ file' # file
           => file[edit[w].name] = NoRepo]_vars
=============================================================================
