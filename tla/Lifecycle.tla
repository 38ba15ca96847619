----------------------------- MODULE Lifecycle ------------------------------
(***************************************************************************)
(* agent-mgr commands running side by side against one registry and one    *)
(* Docker host: which of them may write an agent's home, which may create, *)
(* replace, stop or resume its gateway container, and what a written       *)
(* credential or home file does to the gateway that has already read the   *)
(* old one.  agent_mgr/cli.py, local.py, commands.py, deploy.py.           *)
(*                                                                         *)
(* Agents here run a digest-pinned image, whose boot contract never        *)
(* changes (Desc[r].contract); the image is already local and the home has *)
(* been deployed once.                                                     *)
(*                                                                         *)
(* A command is a process.  It takes a snapshot of its registry row when   *)
(* it begins and then goes through the labels                              *)
(*   own      require_own_home                                             *)
(*   guard    the rest of resolve_guard                                    *)
(*   ask      deploy's preflight: confirm_transition, the veto hook        *)
(*   running  require_running                                              *)
(*   write    the credential file or the home is written                   *)
(*   ps       reload_if_running asks whether a gateway runs                *)
(*   seam     transition: confirm, require_container_ours, the veto hook   *)
(*   docker   compose(): its own refusals, then Docker acts                *)
(*   boot     Docker starts the container it has created                   *)
(* A command that has written goes through own, guard, ps and, when a      *)
(* gateway runs, seam, docker and boot a second time: that is              *)
(* reload_if_running, which resolves everything again.                     *)
(***************************************************************************)
EXTENDS Resolution

CONSTANTS
    Procs,        \* agent-mgr processes that may run at once
    Ops,          \* the commands they may be given
    Crashing,     \* projects whose gateway may exit by itself
    NoCommand,    \* the state of a process that runs no command
    NoContainer   \* a project that has no container

Writers == {"activate", "set-latch", "set-home", "sign-in", "add-skill", "deploy"}
Creates == {"up", "restart"}
Resumes == {"start", "reboot", "unpause"}   \* reboot: docker compose's own restart
Stops == {"down", "stop", "pause"}

ASSUME OpsAssumption == Ops \subseteq Writers \cup Creates \cup Resumes \cup Stops
ASSUME CrashingAssumption == Crashing \subseteq Projects

Labels == {"own", "guard", "ask", "running", "write", "ps", "seam", "docker", "boot"}

Commands ==
    [ pc    : Labels,
      op    : Ops,
      name  : Names,
      repo  : Repos,     \* the row resolve_agent read when the command began
      wrote : BOOLEAN,   \* its write is done; it is now reloading
      acked : BOOLEAN,   \* AGENT_TRANSITION_ACK=1 in its environment
      asked : BOOLEAN ]  \* the veto hook has allowed it since its last write

Containers ==
    [ owner  : Names,    \* AGENT_ID, the agent whose command created it
      repo   : Repos,    \* the descriptor it was created from
      mount  : Paths,    \* the source of its home mount
      status : {"running", "paused", "restarting", "stopped"},
      missed : SUBSET {"credential", "home"} ]  \* changed since its gateway read it

ASSUME NullAssumption == NoCommand \notin Commands /\ NoContainer \notin Containers

VARIABLES
    reg,     \* the registry file
    broken,  \* repositories that cannot be resolved at the moment
    cred,    \* name -> what its credential file holds: "none", "live", "dead" (revoked)
    box,     \* project -> its hermes container, or NoContainer
    proc,    \* process -> the command it runs, or NoCommand
    told     \* names whose last command failed after its write: its operator knows

vars == <<reg, broken, cred, box, proc, told>>

TypeOK ==
    /\ reg \in Registries
    /\ broken \subseteq Repos
    /\ cred \in [Names -> {"none", "live", "dead"}]
    /\ box \in [Projects -> Containers \cup {NoContainer}]
    /\ proc \in [Procs -> Commands \cup {NoCommand}]
    /\ told \subseteq Names

Init ==
    /\ reg \in Registries
    /\ broken = {}
    /\ cred \in [Names -> {"none", "live"}]
    /\ box = [q \in Projects |-> NoContainer]
    /\ proc = [p \in Procs |-> NoCommand]
    /\ told = {}

-----------------------------------------------------------------------------
At(p, label) == proc[p] # NoCommand /\ proc[p].pc = label

Exists(q) == box[q] # NoContainer
Holds(q, statuses) == Exists(q) /\ box[q].status \in statuses

MyHome(p) == HomeDir(proc[p].name, proc[p].repo)
MyBox(p) == Project(proc[p].name, proc[p].repo)
MyDesc(p) == Desc[proc[p].repo]
Current(p) == MyDesc(p).contract = "current"

\* The Compose verb behind a command; a reload is up --force-recreate.
Verb(p) == IF proc[p].wrote THEN "restart" ELSE proc[p].op

Goto(p, label) == proc' = [proc EXCEPT ![p].pc = label]

Succeed(p) == proc' = [proc EXCEPT ![p] = NoCommand] /\ UNCHANGED told

\* Mutant: the error of a reload is swallowed.
RefuseSilently(p) == proc' = [proc EXCEPT ![p] = NoCommand] /\ UNCHANGED told

\* A nonzero exit.  After a write it is what tells the operator that the
\* gateway may not have read what was written.
Refuse(p) ==
    /\ proc' = [proc EXCEPT ![p] = NoCommand]
    /\ told' = IF proc[p].wrote THEN told \cup {proc[p].name} ELSE told

-----------------------------------------------------------------------------
(* The registry and the repositories, edited while commands run.           *)

\* The operator follows the order the README gives for tearing an agent
\* down: no container of that name is left and none of its commands runs.
Retired(n) ==
    /\ \A q \in Projects : Exists(q) => box[q].owner # n
    /\ \A p \in Procs : proc[p] # NoCommand => proc[p].name # n

\* Registry.add replaces the row of that name, or adds one.
Register(n, r) ==
    /\ reg[n] # r
    /\ reg[n] # NoRepo => Retired(n)
    /\ reg' = [reg EXCEPT ![n] = r]
    /\ UNCHANGED <<broken, cred, box, proc, told>>

Unregister(n) ==
    /\ reg[n] # NoRepo
    /\ Retired(n)
    /\ reg' = [reg EXCEPT ![n] = NoRepo]
    /\ UNCHANGED <<broken, cred, box, proc, told>>

\* A repository is moved away, or its agent.env stops parsing.
Break(r) ==
    /\ r \notin broken
    /\ broken' = broken \cup {r}
    /\ UNCHANGED <<reg, cred, box, proc, told>>

Repair(r) ==
    /\ r \in broken
    /\ broken' = broken \ {r}
    /\ UNCHANGED <<reg, cred, box, proc, told>>

-----------------------------------------------------------------------------
(* A command, label by label.                                              *)

\* Mutant: a name with no row is not refused.
BeginUnregistered(p, op, n) ==
    /\ proc[p] = NoCommand
    /\ reg[n] \notin broken
    /\ proc' = [proc EXCEPT ![p] =
         [ pc |-> "own", op |-> op, name |-> n, repo |-> reg[n],
           wrote |-> FALSE, acked |-> FALSE, asked |-> FALSE ]]
    /\ UNCHANGED <<reg, broken, cred, box, told>>

\* resolve_agent: the snapshot every later check works from.  A name that
\* does not resolve is refused before anything happens.
Begin(p, op, n) ==
    /\ proc[p] = NoCommand
    /\ Resolves(reg, broken, n)
    /\ \E ack \in BOOLEAN :
         /\ ack => Desc[reg[n]].live
         /\ proc' = [proc EXCEPT ![p] =
              [ pc |-> "own", op |-> op, name |-> n, repo |-> reg[n],
                wrote |-> FALSE, acked |-> ack, asked |-> FALSE ]]
    /\ UNCHANGED <<reg, broken, cred, box, told>>

RequireOwnHome(p) ==
    /\ At(p, "own")
    /\ LET c == proc[p]
       IN  IF OwnHome(reg, broken, c.name, c.repo)
           THEN /\ Goto(p, IF c.op \in {"activate", "set-latch"} /\ ~c.wrote
                           THEN "write" ELSE "guard")
                /\ UNCHANGED told
           ELSE Refuse(p)
    /\ UNCHANGED <<reg, broken, cred, box>>

ResolveGuard(p) ==
    /\ At(p, "guard")
    /\ LET c == proc[p]
           next == IF c.wrote THEN "ps"
                   ELSE IF c.op = "deploy" THEN "ask"
                   ELSE IF c.op = "add-skill" THEN "write"
                   ELSE IF c.op \in {"set-home", "sign-in"} THEN "running"
                   ELSE "seam"
       IN  IF ComposeAgrees(c.name, c.repo)
           THEN Goto(p, next) /\ UNCHANGED told
           ELSE Refuse(p)
    /\ UNCHANGED <<reg, broken, cred, box>>

\* What confirm_transition leaves in AGENT_TRANSITION_ACK when it lets the
\* command go on: a live agent needs the variable, or a yes at a terminal.
Confirmed(p, yes) ==
    \/ ~MyDesc(p).live /\ ~yes
    \/ MyDesc(p).live /\ (yes \/ proc[p].acked)

\* deploy asks before it writes anything.
AskFirst(p) ==
    /\ At(p, "ask")
    /\ \/ \E yes \in BOOLEAN :
            /\ Confirmed(p, yes)
            /\ proc' = [proc EXCEPT ![p].pc = "write",
                                    ![p].acked = @ \/ yes,
                                    ![p].asked = MyDesc(p).hook]
            /\ UNCHANGED told
       \/ MyDesc(p).live /\ ~proc[p].acked /\ Refuse(p)   \* no, or no terminal
       \/ MyDesc(p).hook /\ Refuse(p)                     \* the hook's veto
    /\ UNCHANGED <<reg, broken, cred, box>>

\* Mutant: only a running container is identified.
OursIfRunning(p) == Holds(MyBox(p), {"running"}) => Dir[box[MyBox(p)].mount] = MyHome(p)

\* require_container_ours: every container of the project, running or not,
\* must mount this agent's home.
Ours(p) == Exists(MyBox(p)) => Dir[box[MyBox(p)].mount] = MyHome(p)

RequireRunning(p) ==
    /\ At(p, "running")
    /\ IF /\ Holds(MyBox(p), {"running"})
          /\ Ours(p)
          /\ proc[p].op = "set-home" => cred[proc[p].name] # "none"
       THEN Goto(p, "write") /\ UNCHANGED told
       ELSE Refuse(p)
    /\ UNCHANGED <<reg, broken, cred, box>>

\* The containers whose gateway took its credential from n's file, which only
\* the current contract mounts, or reads its home in directory d.
CredentialOf(n) ==
    {q \in Projects : Exists(q) /\ box[q].owner = n /\ Desc[box[q].repo].contract = "current"}
HomeIn(d) == {q \in Projects : Exists(q) /\ Dir[box[q].mount] = d}

Miss(what, boxes) ==
    box' = [q \in Projects |-> IF q \in boxes
                               THEN [box[q] EXCEPT !.missed = @ \cup {what}]
                               ELSE box[q]]

Wrote(p) == proc' = [proc EXCEPT ![p].pc = "own", ![p].wrote = TRUE, ![p].asked = FALSE]

\* The command ends after it has changed something, without a reload.
Abort(p) ==
    /\ proc' = [proc EXCEPT ![p] = NoCommand]
    /\ told' = told \cup {proc[p].name}

\* activate: plow-agents mint revokes the key the file names, then writes the
\* new one.  When it fails in between, activate returns without a reload.
Mint(p) ==
    /\ At(p, "write")
    /\ proc[p].op = "activate"
    /\ LET n == proc[p].name
       IN  \/ /\ Current(p)
              /\ cred' = [cred EXCEPT ![n] = "live"]
              /\ Miss("credential", CredentialOf(n))
              /\ Wrote(p)
              /\ UNCHANGED told
           \/ /\ Current(p)
              /\ cred[n] # "none"
              /\ cred' = [cred EXCEPT ![n] = "dead"]
              /\ Miss("credential", CredentialOf(n))
              /\ Abort(p)
           \/ /\ ~Current(p)
              /\ Refuse(p)
              /\ UNCHANGED <<cred, box>>
    /\ UNCHANGED <<reg, broken>>

\* Mutant: set-latch does not reload the gateway it has written for.
WriteDotenvNoReload(p) ==
    /\ At(p, "write")
    /\ proc[p].op \in {"set-latch", "set-home"}
    /\ Miss("home", HomeIn(MyHome(p)))
    /\ Succeed(p)
    /\ UNCHANGED <<reg, broken, cred>>

\* upsert-env replaces the dotenv in one rename, or writes nothing.
WriteDotenv(p) ==
    /\ At(p, "write")
    /\ proc[p].op \in {"set-latch", "set-home"}
    /\ Miss("home", HomeIn(MyHome(p)))
    /\ Wrote(p)
    /\ UNCHANGED <<reg, broken, cred, told>>

\* hermes auth add, inside the gateway it found running.
SignIn(p) ==
    /\ At(p, "write")
    /\ proc[p].op = "sign-in"
    /\ IF Holds(MyBox(p), {"running"})
       THEN Miss("home", HomeIn(MyHome(p))) /\ Wrote(p) /\ UNCHANGED told
       ELSE Refuse(p) /\ UNCHANGED box
    /\ UNCHANGED <<reg, broken, cred>>

\* deploy publishes config and skills and runs its hook, add-skill a skill
\* and its manifest row: several steps, of which a later one may fail.
Install(p) ==
    /\ At(p, "write")
    /\ proc[p].op \in {"deploy", "add-skill"}
    /\ Miss("home", HomeIn(MyHome(p)))
    /\ \/ Wrote(p) /\ UNCHANGED told
       \/ Abort(p)
    /\ UNCHANGED <<reg, broken, cred>>

\* Mutant: the gateway is reloaded without passing the transition seam.
ReloadAroundSeam(p) ==
    /\ At(p, "ps")
    /\ IF Holds(MyBox(p), {"running"}) THEN Goto(p, "docker") /\ UNCHANGED told
       ELSE Succeed(p)
    /\ UNCHANGED <<reg, broken, cred, box>>

\* reload_if_running: compose ps --status running.
ReloadIfRunning(p) ==
    /\ At(p, "ps")
    /\ IF Holds(MyBox(p), {"running"}) THEN Goto(p, "seam") /\ UNCHANGED told
       ELSE Succeed(p)
    /\ UNCHANGED <<reg, broken, cred, box>>

\* The single seam every container transition passes.
Transition(p) ==
    /\ At(p, "seam")
    /\ \/ \E yes \in BOOLEAN :
            /\ Confirmed(p, yes)
            /\ Ours(p)
            /\ proc' = [proc EXCEPT ![p].pc = "docker",
                                    ![p].acked = @ \/ yes,
                                    ![p].asked = MyDesc(p).hook]
            /\ UNCHANGED told
       \/ MyDesc(p).live /\ ~proc[p].acked /\ Refuse(p)
       \/ MyDesc(p).hook /\ Refuse(p)
       \/ ~Ours(p) /\ Refuse(p)
    /\ UNCHANGED <<reg, broken, cred, box>>

-----------------------------------------------------------------------------
(* compose(), and what Docker does with each verb.                         *)

\* Mutant: the current contract refuses to resume by start and restart only.
ResumeUnpaused(p) ==
    /\ Current(p) /\ Verb(p) \in Resumes => Verb(p) = "unpause"
    /\ Current(p) /\ Verb(p) \in Creates => cred[proc[p].name] # "none"

\* The current contract's gateway takes its credential when its container is
\* created and never again, so it may not be resumed, and it may not be
\* created without the file.
ComposeAllows(p) ==
    /\ Current(p) => Verb(p) \notin Resumes
    /\ Current(p) /\ Verb(p) \in Creates => cred[proc[p].name] # "none"

\* A plain up keeps the container it finds when nothing about it changed;
\* for the current contract agent-mgr adds --force-recreate.
Keeps(p) ==
    /\ Verb(p) = "up"
    /\ ~Current(p)
    /\ Exists(MyBox(p))
    /\ box[MyBox(p)].owner = proc[p].name
    /\ box[MyBox(p)].repo = proc[p].repo

Becomes(q, status) == box' = [box EXCEPT ![q].status = status]

\* The gateway process starts in the container it had, and reads its home.
Restarts(q) == box' = [box EXCEPT ![q].status = "running", ![q].missed = @ \ {"home"}]

\* up and restart: the old container is stopped and removed first.
Recreate(p) ==
    /\ Verb(p) \in Creates
    /\ ~Keeps(p)
    /\ box' = [box EXCEPT ![MyBox(p)] = NoContainer]
    /\ Goto(p, "boot")
    /\ UNCHANGED told

KeepUp(p) ==
    /\ Keeps(p)
    /\ LET q == MyBox(p)
       IN  \/ box[q].status \in {"running", "restarting"} /\ UNCHANGED box /\ Succeed(p)
           \/ box[q].status = "stopped" /\ Restarts(q) /\ Succeed(p)
           \/ box[q].status = "paused" /\ UNCHANGED box /\ Refuse(p)

Down(p) ==
    /\ Verb(p) = "down"
    /\ box' = [box EXCEPT ![MyBox(p)] = NoContainer]
    /\ Succeed(p)

\* The verbs that need a container in a certain state, and fail without it.
ChangeState(p) ==
    LET q == MyBox(p)
        from == CASE Verb(p) = "stop" -> {"running", "paused", "restarting"}
                  [] Verb(p) = "pause" -> {"running"}
                  [] Verb(p) = "unpause" -> {"paused"}
                  [] Verb(p) = "start" -> {"stopped"}
                  [] OTHER -> {"running", "restarting", "stopped"}
    IN  /\ Verb(p) \in Resumes \cup {"stop", "pause"}
        /\ \/ /\ Holds(q, from)
              /\ CASE Verb(p) = "stop" -> Becomes(q, "stopped")
                   [] Verb(p) = "pause" -> Becomes(q, "paused")
                   [] Verb(p) = "unpause" -> Becomes(q, "running")
                   [] OTHER -> Restarts(q)
              /\ Succeed(p)
           \/ ~Holds(q, from) /\ UNCHANGED box /\ Refuse(p)

Docker(p) ==
    /\ At(p, "docker")
    /\ \/ ComposeAllows(p) /\ (Recreate(p) \/ KeepUp(p) \/ Down(p) \/ ChangeState(p))
       \/ ~ComposeAllows(p) /\ UNCHANGED box /\ Refuse(p)
    /\ UNCHANGED <<reg, broken, cred>>

\* The new container: it mounts what Compose resolved, and its gateway reads
\* the home and, under the current contract, the credential file.
NewContainer(p, status) ==
    [ owner |-> proc[p].name, repo |-> proc[p].repo,
      mount |-> Mount(proc[p].name, proc[p].repo), status |-> status,
      missed |-> IF Current(p) /\ cred[proc[p].name] = "dead"
                 THEN {"credential"} ELSE {} ]

\* It may fail to start; and a container another process put under the
\* project's name in the meantime makes Docker refuse.
Boot(p) ==
    /\ At(p, "boot")
    /\ LET q == MyBox(p)
           n == proc[p].name
       IN  \/ /\ ~Exists(q)
              /\ box' = [box EXCEPT ![q] = NewContainer(p, "running")]
              /\ proc' = [proc EXCEPT ![p] = NoCommand]
              /\ told' = IF cred[n] = "dead" THEN told ELSE told \ {n}
           \/ /\ ~Exists(q)
              /\ box' = [box EXCEPT ![q] = NewContainer(p, "stopped")]
              /\ Refuse(p)
           \/ /\ Exists(q)
              /\ UNCHANGED box
              /\ Refuse(p)
    /\ UNCHANGED <<reg, broken, cred>>

\* Any command may die where it stands: interrupted, or a query it depends
\* on could not be answered, which every step reports as an error.
Fail(p) ==
    /\ proc[p] # NoCommand
    /\ Refuse(p)
    /\ UNCHANGED <<reg, broken, cred, box>>

-----------------------------------------------------------------------------
(* The gateway itself: restart: unless-stopped.                            *)

Crash(q) ==
    /\ q \in Crashing
    /\ Holds(q, {"running"})
    /\ Becomes(q, "restarting")
    /\ UNCHANGED <<reg, broken, cred, proc, told>>

\* Docker starts the same container again; nothing recreates it.
DockerResumes(q) ==
    /\ Holds(q, {"restarting"})
    /\ Restarts(q)
    /\ UNCHANGED <<reg, broken, cred, proc, told>>

-----------------------------------------------------------------------------
Step(p) ==
    \/ RequireOwnHome(p) \/ ResolveGuard(p) \/ AskFirst(p) \/ RequireRunning(p)
    \/ Mint(p) \/ WriteDotenv(p) \/ SignIn(p) \/ Install(p) \/ ReloadIfRunning(p) \/ Transition(p)
    \/ Docker(p) \/ Boot(p)

Next ==
    \/ \E n \in Names, r \in Repos : Register(n, r)
    \/ \E n \in Names : Unregister(n)
    \/ \E r \in Repos : Break(r) \/ Repair(r)
    \/ \E p \in Procs, op \in Ops, n \in Names : Begin(p, op, n)
    \/ \E p \in Procs : Step(p) \/ Fail(p)
    \/ \E q \in Projects : Crash(q) \/ DockerResumes(q)

Spec == Init /\ [][Next]_vars

\* Every subprocess a command waits for returns and every prompt is answered
\* or closed, so a command that can go on does.
FairSpec == Spec /\ \A p \in Procs : WF_vars(Step(p))

-----------------------------------------------------------------------------
(* Safety                                                                  *)

\* A gateway that runs, sleeps between two crashes or is paused uses its home.
Gateway(q) == Holds(q, {"running", "paused", "restarting"})

\* REVIEW.md, "The failure class this tool exists to prevent is two gateways
\* against one home": whatever is registered, broken, repaired or started in
\* the meantime, no two containers ever hold one directory.
OneGatewayPerHome ==
    \A q1, q2 \in Projects :
        Gateway(q1) /\ Gateway(q2) /\ Dir[box[q1].mount] = Dir[box[q2].mount] => q1 = q2

\* A name that has been let through require_own_home, or has a container.
Claimed(n) ==
    \/ \E p \in Procs : proc[p] # NoCommand /\ proc[p].pc # "own" /\ proc[p].name = n
    \/ \E q \in Projects : Exists(q) /\ box[q].owner = n

\* Why OneGatewayPerHome holds, and the invariant its proof rests on.  What a
\* command read when it began, and what a container was created from, is what
\* the registry still says; a command that may create a container mounts its
\* own home; and whoever was admitted to a directory first still has the row
\* that keeps the others out of it.
Admission ==
    /\ \A p \in Procs : proc[p] # NoCommand =>
          /\ reg[proc[p].name] = proc[p].repo
          /\ proc[p].pc \in {"ps", "seam", "docker", "boot"} =>
                ComposeAgrees(proc[p].name, proc[p].repo)
    /\ \A q \in Projects : Exists(q) =>
          /\ reg[box[q].owner] = box[q].repo
          /\ q = Project(box[q].owner, box[q].repo)
          /\ box[q].mount = Home(box[q].owner, box[q].repo)
    /\ \A n, m \in Names :
          Claimed(n) /\ Claimed(m) /\ n # m => HomeDir(n, reg[n]) # HomeDir(m, reg[m])

\* A gateway that runs on something that has since been replaced.
Unread(q, what) ==
    /\ Holds(q, {"running"})
    /\ Desc[box[q].repo].contract = "current"
    /\ what \in box[q].missed

Reloading(n) == \E p \in Procs : proc[p] # NoCommand /\ proc[p].name = n /\ proc[p].wrote

\* activate, reload_if_running: a running gateway keeps a revoked credential
\* only while the command that minted the new one is still at work, or after
\* a command told the operator that it failed.
CredentialFresh ==
    \A q \in Projects :
        Unread(q, "credential") => Reloading(box[q].owner) \/ box[q].owner \in told

\* The same for what deploy, add-skill, set-latch, set-home and sign-in put in
\* the home.
\* A legacy gateway is left out: compose unpause may resume one unread.
HomeFresh ==
    \A q \in Projects :
        Unread(q, "home") => Reloading(box[q].owner) \/ box[q].owner \in told

\* What a process does to a container that exists.
Disturbs(p, q) ==
    /\ proc'[p] # proc[p]
    /\ Exists(q)
    /\ \/ box'[q] = NoContainer
       \/ box'[q] # NoContainer /\ box'[q].status # box[q].status

\* README, "a live agent" and "a pre-transition guard": whoever stops, starts
\* or replaces a container has the acknowledgement when the agent is live,
\* and its hook's consent, given after the last write; deploy has both before
\* it writes.
Consented ==
    [][\A p \in Procs :
         (\/ \E q \in Projects : Disturbs(p, q)
          \/ At(p, "write") /\ proc[p].op = "deploy" /\ Wrote(p))
         => /\ MyDesc(p).live => proc[p].acked
            /\ MyDesc(p).hook => proc[p].asked]_vars

\* REVIEW.md, "anything that acts on a container without identifying it
\* first": no command touches a container that mounts another agent's home.
\* With two processes the window between the check and Docker is open.
OnlyOwnContainer ==
    [][\A p \in Procs, q \in Projects :
         Disturbs(p, q) => Dir[box[q].mount] = MyHome(p)]_vars

-----------------------------------------------------------------------------
(* Liveness                                                                *)

\* A replaced credential reaches the gateway that runs on the old one, or the
\* operator learns that it did not.
CredentialReaches ==
    \A q \in Projects :
        Unread(q, "credential") ~>
            (~Unread(q, "credential") \/ box[q].owner \in told)
=============================================================================
