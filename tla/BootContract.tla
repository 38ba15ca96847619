---------------------------- MODULE BootContract -----------------------------
(***************************************************************************)
(* One agent whose image moves.  An image bakes the home its gateway boots *)
(* against, which is its boot contract; agent-mgr derives it afresh from   *)
(* the local image before every call of docker compose, and picks the      *)
(* overlay (mounts, HERMES_HOME, entrypoint, credential) by it.  Meanwhile *)
(* the descriptor may be pinned to another image, a build may move a local *)
(* tag to the other contract, and the container keeps whatever it was      *)
(* created with, over every exit of its gateway that Docker answers with a *)
(* restart.  agent_mgr/boot_contract.py, local.py: compose, build_image,   *)
(* require_container_ours; deploy.py; commands.py; templates/compose.yml.  *)
(*                                                                         *)
(* A command is a process with a snapshot of the descriptor's image; it    *)
(* goes through the labels                                                 *)
(*   image   deploy: the image is made local, pulled or built              *)
(*   guard   resolve_guard                                                 *)
(*   mint    activate: the contract is checked, the credential replaced    *)
(*   hook    deploy: its hook runs, which may build                        *)
(*   ps      is a gateway running?                                         *)
(*   ours    require_container_ours                                        *)
(*   match   require_running_contract_matches                              *)
(*   sample  compose: the contract is read, and its refusals               *)
(*   docker  docker compose acts on what compose() handed it               *)
(*   build   build_image                                                   *)
(***************************************************************************)
CONSTANTS
    Digests,          \* digest-pinned image references
    Tags,             \* tags that this host builds
    DigestContract,   \* digest -> what the image it names bakes
    Unlisted,         \* verbs that create or start a container and are in neither of
                      \* compose()'s two sets: scale, or none
    Procs,            \* agent-mgr processes that may run at once
    NoCommand,        \* the state of a process that runs no command
    NoContainer       \* the project has no container

Contracts == {"legacy", "current"}     \* /opt/data, /var/lib/hermes
Baked == Contracts \cup {"unknown"}    \* what an image may bake
Refs == Digests \cup Tags

Creates == {"up", "restart"}
Resumes == {"resume"}                  \* start, restart, unpause of docker compose
Ops == Creates \cup Resumes \cup Unlisted
         \cup {"stop", "down", "build", "deploy", "activate", "cron-sync"}
Reloads == {"deploy", "activate"}      \* they end in reload_if_running

ASSUME DigestAssumption == Digests \cap Tags = {} /\ DigestContract \in [Digests -> Baked]

Labels == {"image", "guard", "mint", "hook", "ps", "ours", "match", "sample", "docker", "build"}

Commands ==
    [ pc     : Labels,
      op     : Ops,
      ref    : Refs,                      \* agent.image, as resolve_agent read it
      wrote  : BOOLEAN,                   \* its write is done; it is reloading
      target : Contracts \cup {"-"},      \* what compose() sampled
      home   : Contracts \cup {"-"} ]     \* the HOME that exec will be given

Containers ==
    [ image  : Baked,        \* the contract of the image it was created from
      env    : Contracts,    \* its HERMES_HOME, set by the overlay
      mount  : Contracts,    \* where the agent's home is mounted
      status : {"running", "restarting", "stopped"},
      missed : BOOLEAN ]     \* a credential was minted since it was created

ASSUME NullAssumption == NoCommand \notin Commands /\ NoContainer \notin Containers

VARIABLES
    pin,     \* AGENT_IMAGE in the descriptor
    local,   \* reference -> what the local image bakes, or "absent"
    cred,    \* the credential's path on the host: "none", "file", "directory"
    box,     \* the project's hermes container, or NoContainer
    proc,    \* process -> the command it runs, or NoCommand
    foreign, \* a command has refused the agent's own container as another's
    told     \* an activate has failed after a mint that the container missed:
             \* its operator knows

vars == <<pin, local, cred, box, proc, foreign, told>>

TypeOK ==
    /\ pin \in Refs
    /\ local \in [Refs -> Baked \cup {"absent"}]
    /\ cred \in {"none", "file", "directory"}
    /\ box \in Containers \cup {NoContainer}
    /\ proc \in [Procs -> Commands \cup {NoCommand}]
    /\ foreign \in BOOLEAN
    /\ told \in BOOLEAN

Init ==
    /\ pin \in Refs
    /\ local = [r \in Refs |-> "absent"]
    /\ cred = "none"
    /\ box = NoContainer
    /\ proc = [p \in Procs |-> NoCommand]
    /\ foreign = FALSE
    /\ told = FALSE

-----------------------------------------------------------------------------
At(p, label) == proc[p] # NoCommand /\ proc[p].pc = label
Goto(p, label) == proc' = [proc EXCEPT ![p].pc = label]
Exists == box # NoContainer
Running == Exists /\ box.status = "running"

\* A gateway that runs, or that Docker is about to start again.
Live == Exists /\ box.status \in {"running", "restarting"}

\* _baked_home_env of an image, and home_target: the only value a command
\* goes on with is a contract that agent-mgr knows.
Bakes(p) == local[proc[p].ref]
Readable(p) == Bakes(p) \in Contracts

End(p) == proc' = [proc EXCEPT ![p] = NoCommand]
Succeed(p) == End(p) /\ UNCHANGED told
Misses == Exists /\ box.missed
Refuse(p) ==
    End(p) /\ told' = (told \/ (Misses /\ proc[p].op = "activate" /\ proc[p].wrote))

\* The operator pins another image; commands keep the one they resolved.
Repin(r) ==
    /\ r # pin
    /\ pin' = r
    /\ UNCHANGED <<local, cred, box, proc, foreign, told>>

\* resolve_agent.  What each verb does first.
Begin(p, op) ==
    /\ proc[p] = NoCommand
    /\ proc' = [proc EXCEPT ![p] =
         [ pc |-> CASE op = "deploy" -> "image"
                    [] op = "activate" -> "mint"
                    [] op = "build" -> "build"
                    [] OTHER -> "guard",
           op |-> op, ref |-> pin, wrote |-> FALSE, target |-> "-", home |-> "-" ]]
    /\ UNCHANGED <<pin, local, cred, box, foreign, told>>

\* _ensure_image_ready: present already, or a digest is pulled, or a tag is
\* built from the agent's own override.
EnsureImage(p) ==
    /\ At(p, "image")
    /\ LET r == proc[p].ref
       IN  \/ /\ \/ /\ local[r] # "absent"
                    /\ UNCHANGED local
                 \/ /\ local[r] = "absent"
                    /\ \E c \in Baked : /\ r \in Digests => c = DigestContract[r]
                                        /\ local' = [local EXCEPT ![r] = c]
              /\ Goto(p, "guard")
              /\ UNCHANGED told
           \/ local[r] = "absent" /\ Refuse(p) /\ UNCHANGED local
    /\ UNCHANGED <<pin, cred, box, foreign>>

\* compose <name> build: no contract is asked for, before or after.  An agent
\* with no override of its own has nothing to build.
Build(p) ==
    /\ At(p, "build")
    /\ \/ /\ proc[p].ref \in Tags
          /\ \E c \in Baked : local' = [local EXCEPT ![proc[p].ref] = c]
          /\ Succeed(p)
       \/ Refuse(p) /\ UNCHANGED local
    /\ UNCHANGED <<pin, cred, box, foreign>>

\* resolve_guard: the contract must be readable; what Compose resolves is a
\* matter of module Lifecycle.
ResolveGuard(p) ==
    /\ At(p, "guard")
    /\ LET c == proc[p]
       IN  IF Readable(p)
           THEN /\ Goto(p, CASE c.wrote \/ c.op = "cron-sync" -> "ps"
                             [] c.op = "deploy" -> "hook"
                             [] OTHER -> "ours")
                /\ UNCHANGED told
           ELSE Refuse(p)
    /\ UNCHANGED <<pin, local, cred, box, foreign>>

\* deploy's own hook, which may rebuild the tag before the reload, and fail.
DeployHook(p) ==
    /\ At(p, "hook")
    /\ \/ UNCHANGED local
       \/ proc[p].ref \in Tags /\ \E c \in Baked : local' = [local EXCEPT ![proc[p].ref] = c]
    /\ \/ /\ proc' = [proc EXCEPT ![p].pc = "guard", ![p].wrote = TRUE]
          /\ UNCHANGED told
       \/ Refuse(p)
    /\ UNCHANGED <<pin, cred, box, foreign>>

\* activate: refused under the legacy contract, which never mounts the file.
\* plow-agents may fail after it has revoked the key that the gateway holds.
Mint(p) ==
    /\ At(p, "mint")
    /\ \/ /\ Bakes(p) = "current"
          /\ cred # "directory"
          /\ box' = IF Exists THEN [box EXCEPT !.missed = TRUE] ELSE box
          /\ \/ /\ cred' = "file"
                /\ proc' = [proc EXCEPT ![p].pc = "guard", ![p].wrote = TRUE]
                /\ told' = FALSE
             \/ End(p) /\ told' = Exists /\ UNCHANGED cred
       \/ Refuse(p) /\ UNCHANGED <<cred, box>>
    /\ UNCHANGED <<pin, local, foreign>>

\* reload_if_running and running_container_id ask Compose, whose argv needs
\* the contract of the image, for the containers of status running: one that
\* Docker is restarting is not among them.
AskRunning(p) ==
    /\ At(p, "ps")
    /\ IF ~Readable(p) THEN Refuse(p)
       ELSE IF Running THEN Goto(p, "ours") /\ UNCHANGED told
       ELSE IF proc[p].wrote THEN Succeed(p)
       ELSE Refuse(p)
    /\ UNCHANGED <<pin, local, cred, box, foreign>>

\* Mutant: the container's home is looked for where the agent's image of
\* today would have it.
OursAtImage(p) == Exists => box.mount = Bakes(p)

\* require_container_ours: the container's own HERMES_HOME says where to look
\* for the home that it mounts.
Ours(p) == Exists => box.mount = box.env

RequireContainerOurs(p) ==
    /\ At(p, "ours")
    /\ IF ~Readable(p) THEN Refuse(p) /\ UNCHANGED foreign
       ELSE IF ~Ours(p) THEN Refuse(p) /\ foreign' = TRUE
       ELSE /\ Goto(p, IF proc[p].op = "cron-sync" THEN "match" ELSE "sample")
            /\ UNCHANGED <<told, foreign>>
    /\ UNCHANGED <<pin, local, cred, box>>

\* Mutant: exec trusts the image's contract without asking the container.
NoMatch(p) ==
    /\ At(p, "match")
    /\ IF Readable(p)
       THEN /\ proc' = [proc EXCEPT ![p].pc = "sample", ![p].home = Bakes(p)]
            /\ UNCHANGED told
       ELSE Refuse(p)
    /\ UNCHANGED <<pin, local, cred, box, foreign>>

\* require_running_contract_matches, before cron-sync and check-connectors
\* exec with HOME set to the agreed target.
MatchRunning(p) ==
    /\ At(p, "match")
    /\ IF Readable(p) /\ Exists /\ box.env = Bakes(p)
       THEN /\ proc' = [proc EXCEPT ![p].pc = "sample", ![p].home = Bakes(p)]
            /\ UNCHANGED told
       ELSE Refuse(p)
    /\ UNCHANGED <<pin, local, cred, box, foreign>>

Verb(p) == IF proc[p].op \in Reloads THEN "restart" ELSE proc[p].op

\* Mutant: no credential is asked for.
AllowsUncredentialed(p) == Verb(p) \in Resumes => Bakes(p) # "current"

\* Mutant: a container of the current contract may be resumed.
AllowsResume(p) ==
    Verb(p) \in Creates /\ Bakes(p) = "current" => cred = "file"

\* compose(): the current contract is never resumed, and never created
\* before its credential is a file.
ComposeAllows(p) ==
    /\ Verb(p) \in Resumes => Bakes(p) # "current"
    /\ Verb(p) \in Creates /\ Bakes(p) = "current" => cred = "file"

\* Mutant: a container that is there already answers for its image.
SampleContainer(p) ==
    /\ At(p, "sample")
    /\ IF Readable(p) /\ ComposeAllows(p)
       THEN /\ proc' = [proc EXCEPT ![p].pc = "docker",
                                    ![p].target = IF Exists THEN box.env ELSE Bakes(p)]
            /\ UNCHANGED told
       ELSE Refuse(p)
    /\ UNCHANGED <<pin, local, cred, box, foreign>>

Sample(p) ==
    /\ At(p, "sample")
    /\ IF Readable(p) /\ ComposeAllows(p)
       THEN /\ proc' = [proc EXCEPT ![p].pc = "docker", ![p].target = Bakes(p)]
            /\ UNCHANGED told
       ELSE Refuse(p)
    /\ UNCHANGED <<pin, local, cred, box, foreign>>

-----------------------------------------------------------------------------
(* docker compose, with the overlay that compose() chose by the target.    *)

\* The image a container is created from: AGENT_IMAGE of the environment
\* that the command built when it resolved the agent.
ImageFor(p) == Bakes(p)

Created(p) ==
    [ image |-> ImageFor(p), env |-> proc[p].target, mount |-> proc[p].target,
      status |-> "running", missed |-> FALSE ]

\* A bind of a path that does not exist makes Docker create a directory.
BindCredential(p) ==
    cred' = IF proc[p].target = "current" /\ cred = "none" THEN "directory" ELSE cred

\* up recreates; only a legacy up without --force-recreate keeps a container
\* whose image and overlay are still the same.  So does scale.
Create(p) ==
    /\ At(p, "docker")
    /\ Verb(p) \in Creates \cup Unlisted
    /\ \/ /\ ImageFor(p) # "absent"
          /\ box' = Created(p)
          /\ BindCredential(p)
          /\ told' = FALSE
       \/ /\ \/ Verb(p) = "up" /\ proc[p].target = "legacy"
             \/ Verb(p) \in Unlisted
          /\ Exists /\ box.image = ImageFor(p) /\ box.env = proc[p].target
          /\ box' = IF Live THEN box ELSE [box EXCEPT !.status = "running"]
          /\ UNCHANGED <<cred, told>>
    /\ End(p)
    /\ UNCHANGED <<pin, local, foreign>>

\* start, restart and unpause bring back the container that exists.
Resume(p) ==
    /\ At(p, "docker")
    /\ Verb(p) \in Resumes
    /\ Exists
    /\ box' = [box EXCEPT !.status = "running"]
    /\ Succeed(p)
    /\ UNCHANGED <<pin, local, cred, foreign>>

StopOrRemove(p) ==
    /\ At(p, "docker")
    /\ Verb(p) \in {"stop", "down"}
    /\ box' = IF Verb(p) = "down" \/ ~Exists THEN NoContainer
              ELSE [box EXCEPT !.status = "stopped"]
    /\ Succeed(p)
    /\ UNCHANGED <<pin, local, cred, foreign>>

\* docker compose exec: the script runs in whatever container runs now.
Exec(p) ==
    /\ At(p, "docker")
    /\ Verb(p) = "cron-sync"
    /\ Running
    /\ Succeed(p)
    /\ UNCHANGED <<pin, local, cred, box, foreign>>

DockerFails(p) ==
    /\ At(p, "docker")
    /\ Refuse(p)
    /\ UNCHANGED <<pin, local, cred, box, foreign>>

\* The gateway exits, and Docker starts the same container again until
\* somebody stops it (restart: unless-stopped): nothing of it is created anew.
GatewayExits ==
    /\ Running
    /\ box' = [box EXCEPT !.status = "restarting"]
    /\ UNCHANGED <<pin, local, cred, proc, foreign, told>>

DockerRestarts ==
    /\ Exists /\ box.status = "restarting"
    /\ box' = [box EXCEPT !.status = "running"]
    /\ UNCHANGED <<pin, local, cred, proc, foreign, told>>

-----------------------------------------------------------------------------
Step(p) ==
    \/ EnsureImage(p) \/ Build(p) \/ ResolveGuard(p) \/ DeployHook(p) \/ Mint(p)
    \/ AskRunning(p) \/ RequireContainerOurs(p) \/ MatchRunning(p) \/ Sample(p)
    \/ Create(p) \/ Resume(p) \/ StopOrRemove(p) \/ Exec(p) \/ DockerFails(p)

Next ==
    \/ GatewayExits
    \/ DockerRestarts
    \/ \E r \in Refs : Repin(r)
    \/ \E p \in Procs : Step(p) \/ \E op \in Ops : Begin(p, op)

Spec == Init /\ [][Next]_vars

-----------------------------------------------------------------------------
(* Properties.                                                             *)

\* The container was created from one contract's image under the other's
\* overlay (its mounts, HERMES_HOME and entrypoint): a gateway against an empty
\* home.
Mismatched == Exists /\ ~(box.image = box.env /\ box.mount = box.env)

\* The image a command goes by bakes another contract than the one that
\* compose() has just read and chosen the overlay by.
Overtaken(p) == At(p, "docker") /\ Bakes(p) # proc[p].target

\* With any number of commands side by side, whatever is pinned, pulled and
\* built: only a command that was overtaken between compose()'s look at the
\* image and docker's creates such a container, and it is overtaken by nothing
\* but another command's build or hook, on the very tag it goes by.  A digest
\* is never overtaken, and no command overtakes itself.
BootsAsMounted ==
    [][ /\ Mismatched' => \/ \E p \in Procs : Create(p) /\ Overtaken(p)
                          \/ Mismatched /\ \A p \in Procs : ~Create(p)
        /\ \A p \in Procs : Overtaken(p)' =>
             \/ Overtaken(p)
             \/ /\ proc[p].ref \in Tags
                /\ \E q \in Procs \ {p} : /\ Build(q) \/ DeployHook(q)
                                         /\ proc[q].ref = proc[p].ref ]_vars

\* Whatever the image has become since, a command never takes the agent's
\* own container for another agent's.
NeverForeign == ~foreign

\* cron-sync holds a HOME that is not where the container has its home.
Misled(p) ==
    /\ At(p, "sample") \/ At(p, "docker")
    /\ proc[p].op = "cron-sync"
    /\ Exists /\ proc[p].home # box.mount

\* The HOME that exec is given is that of the container, though its image may
\* have moved since it was created, in this command's time too: only another
\* command that creates the container anew comes in between.
ExecAtHome ==
    [][\A p \in Procs : Misled(p)' => \/ Misled(p)
                                      \/ \E q \in Procs \ {p} : Create(q)]_vars

\* The credential's path becomes a directory, which no later mint could
\* replace, at the hands of nobody but a verb that creates containers and that
\* compose() does not know to do so.
PathStaysFile ==
    [][cred # "directory" /\ cred' = "directory"
         => \E p \in Procs : At(p, "docker") /\ Verb(p) \in Unlisted]_vars

\* A gateway of the current contract, running or crashed and about to be
\* restarted, that has not the credential of the last mint, and of whose
\* activate nobody was told that it failed.
Unread ==
    /\ Live /\ box.env = "current" /\ box.missed
    /\ ~told
    /\ \A p \in Procs : proc[p] # NoCommand /\ proc[p].wrote => proc[p].op # "activate"

\* deploy.py:51, "it will be read on next start": such a gateway comes about in
\* three ways and no other: a command resumes its container after the image it
\* goes by was rolled back to the legacy contract; a verb that compose() does
\* not know starts it; or activate asks for the gateway (deploy.py:45) while
\* Docker is restarting it, and takes it for stopped.
CredentialRead ==
    [][Unread' =>
         \/ Unread
         \/ \E p \in Procs :
               \/ Resume(p) /\ proc[p].target = "legacy"
               \/ Create(p) /\ Verb(p) \in Unlisted
               \/ /\ AskRunning(p) /\ proc[p].op = "activate"
                  /\ box.status = "restarting"]_vars
=============================================================================
