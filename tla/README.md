# A verification development for agent-mgr

agent-mgr gives each agent of a small fleet a home directory, a Compose project and a
credential, and every command it offers is a short-lived process: it resolves a name from a
registry, checks that it may act, writes something, and makes Docker do something. The
failure class it exists to prevent is, in the repository's words, "two gateways against one
home" (`REVIEW.md:64`). This directory holds TLA+ models of that program, TLC configurations
that check them on small instances, and TLAPS proofs of what matters most for every
instance. Paths below are relative to the repository.

## 1. Inventory

| Component | State it keeps | Operations | What is hard | What makes it correct |
|---|---|---|---|---|
| registry (`agent_mgr/registry.py`) | rows name -> repository, one file | add, remove, lookup, entries | whole-file read-modify-write; rows change while commands run on what they read | no row is lost; a row that admitted somebody stays |
| descriptor and resolution (`descriptor.py`, `models.py`) | none; reads `agent.env` | `resolve_agent` | aliases, symlinks, declared homes and projects; repositories that stop resolving | what is checked is what is later used |
| home ownership, `resolve_guard`, `transition` (`local.py`) | none; an environment variable once the operator has said yes | `require_own_home`, `resolve_guard`, `require_container_ours`, `confirm_transition`, `require_transition_allowed`, `transition` | checks and acts are separate steps; a container outlives the command that made it | one gateway per home; nothing happens to a container that was not identified; consent is fresh |
| Compose front end (`local.py: compose`) | none | every docker compose verb | verbs that create a container and verbs that resume one differ for the credential | the current contract is never resumed and never created without a credential |
| boot contract and images (`boot_contract.py`) | local images | inspect, pull, build, compare | a tag that a build moves between inspection and start | container and mounts agree on one contract |
| agent commands (`commands.py`) | credential file, home files | activate, sign-in, set-latch, set-home, add-skill, cron-sync, and three that only report | a write takes effect only when the gateway restarts; a mint may fail half way | what was written reaches the gateway, or the operator is told |
| deploy (`deploy.py`) | the home | install config, replay skills, run a hook, reload | several steps of which a later one fails | as above; nothing is written before consent |
| skill manifest (`skills.tsv`: `commands.py`, `deploy.py`) | one pin per destination, shared by the agents of a checkout | add-skill records a pin, deploy replays all | tree and pin are two writes; agents share pins but not homes | a home reported in order holds every pin; recording one keeps the others |
| fetch-tree (`lib/fetch-tree`, `artifacts.py`) | a skill's directory and its two siblings | fetch, stage, swap, roll back | a crash or a failed rename between two renames | a whole tree is always there or recoverable; its messages are true |
| cron-sync (`lib/cron-sync.py`) | Hermes' jobs | load a spec, classify, create | a snapshot acted on while jobs change; creates that fail after registering; killed runs | idempotent; exit 0 means converged; nothing delivers nowhere |
| dotenv (`lib/upsert-env`, `files.py`) | the home's `.env` | replace some keys atomically | read-modify-write beside another writer | other keys survive |
| backups (`backups.py`) | run directories and a marker | back up, prune | killed or truncated runs | pruning never leaves less than it counted |
| cloud assistants (`cloud_*.py`) | on a server | list, create, delete | an answer that is lost | the operator is told when the outcome is unknown |
| dispatch, errors, JSON (`cli.py`, `errors.py`) | none | the command line | -- | every failure is a nonzero exit |

They interact through the file system (registry, home, credential file), through Docker (a
project's container), and through processes they start and wait for. Nothing inside
agent-mgr is concurrent: concurrency comes from several commands at once, from Docker's
restart policy, from the agent that edits its own home and jobs, and from crashes.

## 2. Modules

| Module | Models | Extends or instantiates |
|---|---|---|
| `Resolution` | what a row resolves to; the ownership test as pure operators | -- |
| `Lifecycle` | commands as processes, registry rows, credential files, containers | `Resolution` |
| `BootContract` | one agent whose image moves: pin, pull, build, overlay, exec | -- |
| `RegistryMap` | what the registry promises: a map | -- |
| `Registry` | the registry file, read and renamed by writers; the ownership sweep row by row | `INSTANCE RegistryMap` |
| `Dotenv` | `.env` under upsert-env, deploy's skeleton, the operator and the gateway | -- |
| `AtomicInstall` | what publishing a tree promises | -- |
| `FetchTree` | the swap of `lib/fetch-tree`, step by step | `INSTANCE AtomicInstall` |
| `Skills` | `skills.tsv` and the trees in the homes of a checkout's agents | -- |
| `CronSync` | a run of `lib/cron-sync.py` beside Hermes' scheduler | -- |
| `Backups` | backup-homes and prune-backups, night after night | -- |
| `CloudAssistants` | the cloud commands and an API whose answers get lost | -- |
| `...Proofs` | theorems: `LifecycleProofs`, `BootContractProofs`, `RegistryProofs`, `FetchTreeProofs`, `CronSyncProofs`, `CloudAssistantsProofs`, `BackupsProofs`; `HomeProofs` for `Dotenv` and `Skills` | the module of that name, `TLAPS` |
| `MC...` | the small instances of the runs | the module of that name |

Definitions whose comment begins with "Mutant:" are deliberately wrong variants of the
definition that follows. Nothing uses them; each shows that some property can fail.

How the modules fit together: `Lifecycle` takes for granted what the others establish or
limit. Its registry row is read in one step and edited in one step (`Registry`: the sweep
and the edits step by step), its images never change (`BootContract`: they do), a write of the
home is one step that may fail (`FetchTree`, `Skills`, `Dotenv`: what the home holds while
and after it fails). `Skills` in turn swaps a tree in one step, which is `AtomicInstall`.

### Resolution and Lifecycle

A registry is a function from names to repositories. A repository's descriptor is the
constant `Desc[r]`, so editing an `agent.env` is a change of repository, and `broken` holds
the repositories that cannot be resolved at the moment. Paths and the directories they lead
to are apart (`Dir` is `Path.resolve()`), because the ownership sweep compares directories
while the spelling rule looks at the path.

A command is a process with a snapshot of its row and a label:

    own -> guard -> ask | running -> write -> (own -> guard -> ps) -> seam -> docker -> boot

`RequireOwnHome`, `ResolveGuard`, `AskFirst`, `RequireRunning`, `ReloadIfRunning`,
`Transition`, `Docker` and `Boot` are one label each, and commands skip the labels that
their handler does not call. `Mint`, `WriteDotenv`, `SignIn` and `Install` are the four
kinds of write. A command that has written goes round again, which is
`reload_if_running`: it resolves everything anew and asks for consent anew. Between any two
labels anything may happen: another command's step, a registry edit, a repository that
breaks, a gateway that crashes.

A container records who created it, from which row, which path it mounts, its status and
`missed`: what was written since its gateway last read it. The credential is read when the
container is created and never again; the home whenever the gateway starts. `told` holds
the names whose last command ended with an error after its write.

Of docker compose's verbs, up, down, restart, start, stop, pause and unpause are modelled;
create, kill and rm pass the same seam and are left out, and so is run, which may only
start a container whose entrypoint is replaced and that is no gateway.

Abstracted: contents of files (only fresh or not), images and their contract (constant),
first deployment, and every failing query, which is `Fail`, since the code turns each into
an error before it acts.

### BootContract

One agent. `local` is what each image reference bakes on this host (`absent`, a contract, or
something agent-mgr does not know), `pin` the reference the descriptor names, `cred` the
credential's path on the host, which may be a file, a directory or nothing. A command reads
the contract of its image again before every call of docker compose, as the code does
(`AskRunning`, `Sample`). `Build`, `DeployHook` and a pull in `EnsureImage` are steps of commands;
with two commands side by side those of one, and the operator's `Repin`, come between any two
steps of the other, also between compose's look at the image and docker's. The container
remembers the contract of its image, its `HERMES_HOME`, where the home is mounted, its status,
and whether a credential was minted since it was created. Its gateway may exit at any time
(`GatewayExits`); until Docker starts it again (`DockerRestarts`) it is *restarting*, which
`AskRunning` takes for stopped, as `ps --status running` does. `told` is whether an activate ended
in an error after a mint that the container missed, with no later mint or container.
`Unlisted` are verbs that create or start a container and are in neither of the two sets
`compose()` knows; compose's `scale` is one.

### Registry and RegistryMap

`StartEdit`, `Lookup` (of `new`), `ReadRows`, `Replace`, `Abandon` are a writer;
`List` and `Visit` the sweep, which resolves one other row per step as the file is then;
`Admit` and `TakeDown` bound the time in which the home is this agent's. `claim` is a
history variable: the row a name was last admitted with.

### Dotenv

A file is a sequence of `key=value` lines and whether it ends in a newline; one value stands
for the pair that one paste (`set-latch`) or one chat (`set-home`) writes. `Upsert` is the
script's rewrite: set a key where it is first declared, drop later declarations, append what
was not there, copy everything else. `Read` and `Publish` are apart, and so are deploy's
`TestExists` and `PublishSkeleton`; `AppendZone` and `SaveUnended` are the operator's.
`Dotenv` and `Skills`, the two halves of a home, share no state and no name, so that one module
may extend both (`SkillsSpec`, `SkillsTypeOK`).

### Skills

`pins` is `skills.tsv`, `tree[n][d]` the revision in n's home, `settled` the names whose last
command reported success, with nothing since that could have changed either. `Swallows[e]`
are destinations below `e`, which a swap of `e` removes with the old tree.

### FetchTree

`target`, `incoming` and `previous` are the three sibling directories. A rename is one
step; removing a directory passes through `Partial` as long as it likes; a copy is not
complete until `FinishCopy`. `Crash` ends a run anywhere. Runs follow one another, so every
run meets what any earlier one left. `AtomicSwap` is the refinement of `AtomicInstall`
with `installed` mapped to the target, or to the backup while the target is aside.

### CronSync

`LoadSpec`, `Registered`, `Act` for each row, `Finish`: the script's order, with its
snapshot kept as `plan`. `Create` may fail after the job was registered, `Kill` may come
anywhere, and the next run starts from a fresh spec and chat. Others remove, pause and resume
jobs at any time, damage the file or repair it, and register jobs by hand between runs, with
duplicates. That nobody registers a job under a declared name in the middle of a run is an
assumption: the script holds no lock and could not see it. A destination of blanks is an error
when a reference expands to it, and passes when it is written out without a colon (`Spaces`), as
the script's check reads; `NoSilentDrop` is about what expands to nothing.

### Backups

A backup goes through look, stage, touch, rename, unstage, check (the runs directory and
its marker), then makes its run, lists its jobs and archives them one by one: `TarStart`,
`TarDone` or `TarFails`, `Judge`. `Exit` is the exit status and the cron entry's `&&`, after
which `Prune` takes the time and the list once and removes what is of age, one archive per
step. A directory's mtime moves when an archive comes or goes (`Enter`: `TarStart`, `Judge`,
`RmArchive`) and not while tar fills one (`Fill`), so removal makes a run young again. `Kill`
leaves the child tar at work (`OrphanTar`). `Toggle` is a disk that goes away, `Tick` the next day. `green` is a history
variable: the runs whose backup exited 0.

### CloudAssistants

`slot` is the API's state, one assistant per line; `call` is each caller's last command.
`Send` puts the request in flight; the API acts on it whenever it likes, also after the
command has given up (`GivesUp`), and `Answer` reaches the command only if it still waits.
`Garble` and `Drifted` are answers that cannot be read or are another contract's.
`Accepts` is the model's validation in `cloud_models.py`, `Warns` the advice of `cli.py` to
look before retrying.

## 3. Runs

| Run | Question | Bounds, and why they are enough |
|---|---|---|
| `exclusive` | can two gateways ever share a home? (`OneGatewayPerHome`, and `Admission` behind it) | 2 names, 2 processes, repositories that use the default home, a symlink to the other's home, and an override that mounts the other's home. The sweep compares pairs, and a race needs two |
| `fresh` | is a running gateway ever left on a revoked credential (`CredentialFresh`), and does a new one arrive, or the operator learn (`CredentialReaches`, under fairness)? | 1 name, 2 processes, activate, sign-in and set-home beside the container verbs; the home's owner is settled by `exclusive` |
| `own_container` | does a command touch a container of another home (`OnlyOwnContainer`), disturb a guarded agent without leave (`Consented`), leave an old home unnoticed (`HomeFresh`)? | 2 names on one shared project, or on a live agent's repository with a hook; every verb, three kinds of writer, a gateway that crashes; one process, see below |
| `contract` | do overlay, mounts, HOME and credential agree with what runs while images move? | a digest of the current contract and a tag that is built to either contract or to an unknown one, 2 commands side by side, `scale`, a gateway that crashes: another's build between look and act needs two, a pin that moves needs two references. Commands are symmetric |
| `registry` | is the file a map, and does a sweep that reads it row by row exclude? | 3 names (a sweep with two rows to visit), 2 repositories, 1 writer, 2 sweeps |
| `dotenv` | do writers keep pairs together, and the lines of others? | 2 editors and 1 first deploy, 2 values, files with duplicate keys and without a last newline; nobody appends to a file of 2 lines or more |
| `skills` | does a home reported in order hold every pin? | 2 names, 3 destinations of one repository, one below another; 2 SHAs and a branch |
| `fetch_tree` | atomic swap, true messages | 3 trees: the installed, the next, and one that must not appear |
| `cron_sync` | converged, no duplicates, no silent drop | 2 names, 2 contents, 2 chats, 3 jobs: both rows' jobs and a duplicate. Names and jobs are symmetric |
| `backups` | is a night that succeeded kept, and what is kept worth it? | 2 pids, a home and the credentials, 2 runs, kept for 2 days, 3 days in all: one run may age past the threshold beside a younger one; the runs directory is absent, foreign or a symlink at first |
| `cloud` | does success mean done, and silence mean nothing? | 2 callers, 2 lines, 2 assistants: a create beside a move onto the same line. Callers and lines are symmetric |
| `crash_loop` | expected violation | 1 name, 1 process, a gateway that may crash |

The bounds in guards are `MaxLines`, `MaxDay`, `MaxRuns` and `MaxUid`; everything else is
finite as it stands. Each passing run reaches between about six hundred and 3.3 million
distinct states. Symmetry is used where no property under it is a liveness property.

**A disagreement with what the program says.** `crash_loop`: `reload_if_running` asks
for containers in status *running*. A gateway between two crashes is *restarting*, so the
reload is skipped with "it will be read on next start" (`agent_mgr/deploy.py:51`); Docker
then starts the same container, which keeps the credential it took at creation
(`agent_mgr/local.py:41`), now revoked. For the same reason `fresh` has no crashing gateways;
`own_container` has them, as a restart does read the home, and `contract` has them with this way
named as one of `CredentialRead`'s three.

**Exceptions the properties name, and what lies beside them.** These were met while
modelling; no run is about them.

* A declared `~/.hermes` is accepted as a home (`agent_mgr/local.py:248`), while
  `README.md:316` speaks of homes that end in `.hermes-<name>`. The sweep still protects it.
* `PathStaysFile` excepts verbs that `compose()` does not know to create a container: compose's
  `scale`, without a credential, makes Docker leave a directory at the credential's path.
* `CredentialRead` has three exceptions. A container of the current contract is resumed after its
  image was rolled back to the legacy one: whether resuming is refused is decided by the image of
  the moment (`agent_mgr/local.py:153`), not by the container's. A verb that `compose()` does not
  know starts the container. Or activate asks for the gateway while Docker is restarting it
  (`agent_mgr/deploy.py:45`), which is `crash_loop` again.
* With two commands at once, a build may move a local tag between compose's look and Docker's
  act, and a gateway then boots under the other contract's overlay. `BootsAsMounted` says that this
  is the only way, and that only another command's build or hook on the very tag does it: digests
  are safe, and so is a command alone.
* `ExecAtHome` excepts another command that creates the container anew between
  `require_running_contract_matches` and docker's exec.
* A literal `deliver` of blanks without a colon is accepted (`lib/cron-sync.py:96` looks at
  what follows a colon).
* `PairsMatch` is about one read of the dotenv. check-latch opens the file once per key
  (`agent_mgr/commands.py:370-374`) and may see two generations when somebody writes in between.
* `docs/HOWTO.md:114` says that set-latch preserves every other key. A line that somebody
  appends between its read and its rename is lost; `CopiesOthers` is about a lone editor.
* `docs/HOWTO.md:83` says that deploy writes the dotenv only when absent. The test and the
  rename are apart, so a second first deploy may replace what was written since;
  `WrittenStays` is checked and proved with one deploy at a time.
* `docs/HOWTO.md:210` says that a home that fails makes the run exit nonzero. A home whose disk
  is away is not found by the glob and is no job (`agent_mgr/backups.py:97`); `GreenWhole` is
  about the jobs a run set out with.
* `docs/HOWTO.md:215` says that a killed run leaves a truncated archive. It may leave a
  well-formed one that misses a file tar could not read; `Honest` excepts killed runs.
* A skill whose destination lies below another's is removed by the other's swap, and deploy
  still exits 0 when the outer row comes later. `HomeHoldsPins` excepts exactly it.

**Fairness.** Only `fresh` has a liveness property. `FairSpec` assumes weak fairness of each
command's next step and nothing else: a command is straight-line code whose subprocesses
return and whose prompts are answered or closed. The operator, the registry and Docker's
crashes have no fairness, and a command may always `Fail`.

**Assumptions.**

* The operator takes an agent down before changing its row, in the order `README.md:118`
  gives (`Retired` in `Lifecycle` and `Registry`).
* One registry writer at a time, one fetch-tree per target, one skill command per checkout:
  `REVIEW.md:74` declines guards against concurrent operators, and two registry writers do
  lose a row. For the same reason `own_container` has one process: with two, the window between
  `require_container_ours` and Docker is open.
* `HomeFresh` is about the current contract: a legacy gateway may be unpaused without
  reading its home, which the code allows.
* No command takes as long as backups are kept; prune runs after a backup that exited 0, by
  the `&&` of the documented cron entry.
* An error status of the API means that it refused. A gateway in front of it that answers 502
  while the request goes on is not modelled, as none is in the repository.
* A well-formed answer of the API is about the request that was sent: the client compares neither
  uid nor line (`agent_mgr/cloud_client.py:42-52`), so for a create or move `OkMeansDone` rests on it.
* The agent removes no skill while a command serves its home.
* Nobody has half a pair in a dotenv before agent-mgr writes one (`StartsMatch`); keys declared
  twice, missing or blank are allowed.

## 4. Proofs

All theorems are for arbitrary constants that satisfy the named assumptions of the modules
(TLC evaluates those on every run). Beyond those, an assumption is stated in the theorem.

**LifecycleProofs.** `Typed`: one step per action; `...Typed` lemmas for the operators that
several actions share. `HomesExclusive`: not inductive as it stands, since a command past its
check is a gateway to come. The strengthening is `Admission` (`Admitted`): rows stay as
admitted commands and existing containers read them, every container mounts the home of its
own row under its own project, and two *claimed* names (past `require_own_home`, or with a
container) never share a directory. The critical step is `RequireOwnHome`: the sweep goes
over all rows, so whoever else is claimed still has the row that excludes the newcomer --
which is exactly what `Retired` preserves.

Four more properties of the same module, each with an invariant of its own.

* `AlwaysConsented`: a step that disturbs a container is a step of `Docker`
  (`DisturberAtDocker`), and whoever stands there, or at deploy's write, has been asked
  (`ConsentHeld`). Any number of commands.
* `ActsOnItsOwn`: whoever stands at Docker has identified the container it will act on
  (`Identified`). Under `Apart`: commands run one at a time, or no two names can share a
  project. In the first case nothing moves between check and act but gateways that crash; in
  the second the container of one's project is one's own by `Admission`. Where neither
  holds the property fails, and the code accepts that.
* `CredentialsFresh` (without crashing gateways, which `crash_loop` shows to be needed) and
  `HomesFresh` (with them), under `Apart`: a gateway that missed something is *covered* by a
  command that will reload it or by an operator who was told. Two further invariants carry it:
  a revoked credential is on file only where the operator was told (`DeadTold`), so a container
  created from it is covered too, and without crashes no container is restarting (`Settled`).
  Both runs' instances satisfy `Apart`: `fresh` has one name, `own_container` one process.

**BootContractProofs.** `OwnContainerKnown`: in any interleaving, the agent's own container
is never taken for another's, because it is looked for where its own `HERMES_HOME` says.
`CredentialPathKept`: no verb that `compose()` knows lets Docker make a directory at the
credential's path. What the other three rest on is `Handed`: a verb at Docker's door carries the
contract that `compose` saw, of an image that is still here; a container of the current contract
finds its credential there, and a resume carries the legacy one. All are about any number of
commands, and go over the step of one command and the steps of the others.

* `BootsMatched`: a command's own step never overtakes it (`OwnNotOvertaken`), another's does only
  by a build or hook on its tag (`OvertakenBy`); every step but a `Create` leaves image and overlay
  as they are (`Endures`), and a `Create` that is not overtaken makes them agree (`CreateMatches`).
* `ExecsAtHome`: what was compared stays so until somebody creates the container anew
  (`OwnNotMisled`, `OtherNotMisled`).
* `CredentialReadAlways`: what a gateway has to have read, it read at its creation, so a stale one
  arises in the three excepted ways only (`OnwardRead`, `MintRead`, `DockerRead`).

**RegistryProofs.** All under `OneWriter`. `FileIsMap`: what a writer is about to rename
differs from the file in one row (`EditsHold`), so each step of it is one change of
`RegistryMap` or a stutter. `RowsUntouched` and `NewAddsOnly`: a row in use is not the one
being edited (`RunsStay`). `SweepExcludes`: two names that share a directory cannot both
finish their sweeps; the row each has yet to visit, or that a claim already rests on,
is still there (`SweptClaims`, `SweptPairs`).

**FetchTreeProofs.** `TreeTyped`; `SwapInvariant`, `MessageTrue`, `SwapIsAtomic` from
`SwapInv`, which says where the only good copy is at each label. `SwapIsAtomic` maps `Publish`
to `Install`, the end of a run to `Answer`, and every other step to a stutter.

**CronSyncProofs.** `RunTyped`; `PlanHolds`: what the run decided about a row is still true when it
reaches that row, and what it has finished stays finished unless somebody changed a job
(`disturbed`). From it `ExitZeroConverged`, `EveryJobDelivers`, `NeverTwice`.

**CloudAssistantsProofs.** `CallsTyped`, `SuccessIsDone`, `SilenceIsNothing`: a request that can
still have an effect, or has had one, is one whose command has not failed without the warning.

**BackupsProofs.** One inductive invariant, `IInv` (`BackupsSafe`), carries `BackupsTyped`,
`FirstRunsAgreeAlways`, `HonestAlways`, `GreenWholeAlways` and `SomethingKeptAlways`, for any
homes, retention and number of overlapping commands. None of the four is inductive: a step that
prunes says nothing of why what it removes may go. The parts that do are

* `AtWork`, `Alone`: a run that is being archived is its command's alone, exists, and has at
  most one unfinished archive, the one whose turn it is; while nothing failed, what is not whole
  has yet its turn. When the list is done, an exit 0 therefore finds every archive whole.
* `Allowed`: whoever prunes had a night of its own, younger than what it may remove; what it is
  removing is no night, or a *spent* one.
* `Nights`: a night is as it was made, with its mtime, or is spent: of age, and not the last.
  Removing an archive moves the mtime of a run's directory, which is why a half-removed run has
  to be known as spent rather than be recognised by its age.

`SomethingKept` follows, as the last night is never spent (`LastNight`, which needs induction over
the clock). The one premise on timing is that of `Tick`: no command takes as long as runs are kept.

**HomeProofs: Dotenv.** The file is a sequence of any length, and upsert's loop a recursive
function on it. `UpsertWrites` is what it does for every file: its keys read as written, every
other key as before, and of the lines it does not own each stays, in order. That is induction
over lines. The library's induction theorems cannot be used here, but their set form can be
had: `Induction` (a set with 0 that is closed under successor holds every number) is proved from
the pigeonhole principle for finite sets, `LineByLine` from it, and `LoopRuns`, `LoopsAgree` show
that the recursive function exists and depends on no later line. On these rest `ResultAppend`
(one line more is one round more), `ValueAppend` (the last declaration is what is read) and
`Faithful`, the loop's invariant. The theorems of the system use no more than `UpsertWrites`.
`Whole` is inductive: the file, and what any editor has read and will write upon, hold whole
pairs. From it `DotenvTyped`, `PairsMatchAlways` (any number of editors and deploys) and
`OthersCopied`. `WritesStay` assumes one deploy at a time (`OneDeploy`): a deploy about to publish
its skeleton is then the only one who can make a file (`Alone`). With two deploys it is false: the second
one's skeleton replaces the file.

**HomeProofs: Skills.** `TreesValidated`: a home holds full SHAs only. `PinsChangeSingly`.
`PinsInstalled`: of a deploy under way, every row it has replayed holds its pin or lies
below another; whoever is `settled` has nothing left to replay.

Only model-checked: `CredentialReaches`, which is liveness and out of the prover's reach. Proved
under a condition that the run's instance satisfies: what `OneWriter`, `Apart` and `OneDeploy` say
above.

## 5. Not modelled

* Printing, JSON forms, usage texts, and the argument guards of the compose passthrough
  (`require_fetch_safe`): pure functions of one command line, well covered by tests.
* Parsing of an `agent.env`, beyond that it parses or does not.
* Compose's create, kill, rm and run, and the settings of the templates other than mounts,
  `HERMES_HOME`, credential and restart policy.
* check-latch, chats, check-connectors and cloud-list, which only report; the origin and token
  checks before a cloud request.
* The zipapp build, CI and the tests.

What would be worth adding next: two cron-sync scripts at once, if an interrupted `docker exec`
turns out to leave the first one running; create and rm in `Lifecycle`.
