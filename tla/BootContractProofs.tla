------------------------- MODULE BootContractProofs --------------------------
(***************************************************************************)
(* The theorems about BootContract, for every set of images and any number *)
(* of commands side by side.                                               *)
(***************************************************************************)
EXTENDS BootContract, TLAPS

\* The home is mounted where the container's HERMES_HOME says.
MountAgrees == box # NoContainer => box.mount = box.env

\* What compose() handed to docker: a known target of an image that is here, and
\* for a container of the current contract a credential that is there already;
\* none is resumed.
Handed(q) ==
    At(q, "docker") =>
        /\ proc[q].target \in Contracts
        /\ Bakes(q) # "absent"
        /\ Verb(q) \in Creates /\ proc[q].target = "current" => cred # "none"
        /\ Verb(q) \in Resumes => proc[q].target = "legacy"

\* Only activate mints, and only build builds and is done.
Labelled(q) ==
    /\ At(q, "mint") => proc[q].op = "activate"
    /\ At(q, "build") => proc[q].op = "build"

IInv == TypeOK /\ MountAgrees /\ NeverForeign /\ \A q \in Procs : Handed(q) /\ Labelled(q)

\* An image may be built to another contract; none that is here goes away.
Keeps == \A r \in Refs : local[r] # "absent" => local'[r] # "absent"

LEMMA InitIInv == Init => IInv
  BY NullAssumption DEF Init, IInv, TypeOK, MountAgrees, NeverForeign, Handed, Labelled, At

\* Where a command may be after a step that is not compose()'s.
Fits(c) ==
    c # NoCommand =>
        /\ c.pc # "docker"
        /\ c.pc = "mint" => c.op = "activate"
        /\ c.pc = "build" => c.op = "build"

\* A command that ends, or goes to a label before docker, hands over nothing.
LEMMA MoveHanded ==
  ASSUME IInv, NEW p \in Procs, NEW c \in Commands \cup {NoCommand}, Fits(c),
         proc' = [proc EXCEPT ![p] = c], cred # "none" => cred' # "none", Keeps
  PROVE  \A q \in Procs : Handed(q)' /\ Labelled(q)'
  <1> SUFFICES ASSUME NEW q \in Procs PROVE Handed(q)' /\ Labelled(q)'
    OBVIOUS
  <1>1. Handed(q) /\ Labelled(q) /\ proc \in [Procs -> Commands \cup {NoCommand}]
    BY DEF IInv, TypeOK
  <1>2. CASE q = p
    BY <1>1, <1>2 DEF Handed, Labelled, Fits, At
  <1>3. CASE q # p
    <2>1. proc'[q] = proc[q]
      BY <1>1, <1>3
    <2>2. At(q, "docker") => proc[q].ref \in Refs
      BY <1>1 DEF At, Commands
    <2> QED
      BY <1>1, <2>1, <2>2 DEF Handed, Labelled, At, Verb, Bakes, Keeps
  <1> QED
    BY <1>2, <1>3

\* A command that goes on is a command.
LEMMA GotoMoves ==
  ASSUME TypeOK, NEW p \in Procs, NEW label \in Labels, proc[p] # NoCommand, Goto(p, label)
  PROVE  \E c \in Commands : c.pc = label /\ c.ref = proc[p].ref /\ proc' = [proc EXCEPT ![p] = c]
  <1>1. proc[p] \in Commands
    BY DEF TypeOK
  <1>2. [proc[p] EXCEPT !.pc = label] \in Commands
    BY <1>1 DEF Commands
  <1>3. [proc[p] EXCEPT !.pc = label].pc = label /\ [proc[p] EXCEPT !.pc = label].ref = proc[p].ref
    BY <1>1 DEF Commands
  <1> QED
    BY <1>2, <1>3 DEF Goto

\* The two ways in which a step that is not docker's changes the processes.
Moves(p) ==
    \E c \in Commands \cup {NoCommand} : Fits(c) /\ proc' = [proc EXCEPT ![p] = c]

\* The labels that a command goes on to in such a step.
Onward == Labels \ {"docker", "mint", "build"}

\* A step that touches neither the container's mounts nor forgets the file.
LEMMA QuietStep ==
  ASSUME IInv, NEW p \in Procs, Moves(p), cred' \in {cred, "file"},
         pin' \in Refs, local' \in [Refs -> Baked \cup {"absent"}], Keeps, told' \in BOOLEAN,
         foreign' = foreign,
         box' = box \/ (box # NoContainer /\ box' = [box EXCEPT !.missed = TRUE])
  PROVE  IInv'
  <1>1. PICK c \in Commands \cup {NoCommand} :
           Fits(c) /\ proc' = [proc EXCEPT ![p] = c]
    BY DEF Moves
  <1>2. \A q \in Procs : Handed(q)' /\ Labelled(q)'
    BY <1>1, MoveHanded
  <1>3. proc' \in [Procs -> Commands \cup {NoCommand}]
    BY <1>1 DEF IInv, TypeOK
  <1>4. box' \in Containers \cup {NoContainer} /\ MountAgrees'
    <2>1. CASE box' = box
      BY <2>1 DEF IInv, TypeOK, MountAgrees
    <2>2. CASE box # NoContainer /\ box' = [box EXCEPT !.missed = TRUE]
      <3>1. box \in Containers
        BY <2>2 DEF IInv, TypeOK
      <3>2. box' \in Containers /\ box'.mount = box.mount /\ box'.env = box.env
        BY <2>2, <3>1 DEF Containers
      <3> QED
        BY <2>2, <3>2 DEF IInv, MountAgrees
    <2> QED
      BY <2>1, <2>2
  <1>5. TypeOK'
    BY <1>3, <1>4 DEF IInv, TypeOK, NeverForeign
  <1>6. NeverForeign'
    BY DEF IInv, NeverForeign
  <1> QED
    BY <1>2, <1>4, <1>5, <1>6 DEF IInv

LEMMA EndMoves == ASSUME NEW p, End(p) PROVE Moves(p)
  BY DEF End, Moves, Fits

LEMMA RefuseQuiet ==
  ASSUME IInv, NEW p \in Procs, Refuse(p) PROVE Moves(p) /\ told' \in BOOLEAN
  BY EndMoves DEF Refuse, IInv, TypeOK

LEMMA GotoQuiet ==
  ASSUME IInv, NEW p \in Procs, NEW label \in Onward, proc[p] # NoCommand, Goto(p, label)
  PROVE  Moves(p)
  <1>1. \E c \in Commands : c.pc = label /\ proc' = [proc EXCEPT ![p] = c]
    BY GotoMoves DEF IInv, Onward
  <1> QED
    BY <1>1 DEF Moves, Fits, Onward

-----------------------------------------------------------------------------
(* Every action keeps the invariant.                                       *)

LEMMA RepinSafe == ASSUME IInv, NEW r \in Refs, Repin(r) PROVE IInv'
  BY DEF Repin, IInv, TypeOK, MountAgrees, NeverForeign, Handed, Labelled, At, Verb, Bakes

LEMMA BeginSafe == ASSUME IInv, NEW p \in Procs, NEW op \in Ops, Begin(p, op) PROVE IInv'
  <1> DEFINE label == CASE op = "deploy" -> "image"
                        [] op = "activate" -> "mint"
                        [] op = "build" -> "build"
                        [] OTHER -> "guard"
  <1>1. /\ label \in Labels \ {"docker"}
        /\ label = "mint" => op = "activate"
        /\ label = "build" => op = "build"
    BY DEF Labels
  <1> DEFINE c == [ pc |-> label, op |-> op, ref |-> pin, wrote |-> FALSE, target |-> "-", home |-> "-" ]
  <1>2. proc' = [proc EXCEPT ![p] = c]
    BY DEF Begin
  <1> HIDE DEF label
  <1>3. c \in Commands /\ c.pc = label /\ c.op = op
    BY <1>1 DEF IInv, TypeOK, Commands
  <1> HIDE DEF c
  <1>4. Moves(p)
    BY <1>1, <1>2, <1>3 DEF Moves, Fits
  <1> QED
    BY <1>4, QuietStep DEF Begin, IInv, TypeOK, Keeps

LEMMA EnsureImageSafe == ASSUME IInv, NEW p \in Procs, EnsureImage(p) PROVE IInv'
  <1>1. proc[p] # NoCommand /\ "guard" \in Onward
    BY DEF EnsureImage, At, Labels, Onward
  <1>2. Moves(p) /\ told' \in BOOLEAN
    BY <1>1, GotoQuiet, RefuseQuiet DEF EnsureImage, IInv, TypeOK
  <1>3. local' \in [Refs -> Baked \cup {"absent"}] /\ Keeps
    BY DEF EnsureImage, IInv, TypeOK, Keeps, Baked, Contracts
  <1> QED
    BY <1>2, <1>3, QuietStep DEF EnsureImage, IInv, TypeOK, Keeps

LEMMA BuildSafe == ASSUME IInv, NEW p \in Procs, Build(p) PROVE IInv'
  <1>1. Moves(p) /\ told' \in BOOLEAN
    BY EndMoves, RefuseQuiet DEF Build, Succeed, IInv, TypeOK
  <1>2. local' \in [Refs -> Baked \cup {"absent"}] /\ Keeps
    BY DEF Build, IInv, TypeOK, Keeps, Baked, Contracts
  <1> QED
    BY <1>1, <1>2, QuietStep DEF Build, IInv, TypeOK, Keeps

LEMMA ResolveGuardSafe == ASSUME IInv, NEW p \in Procs, ResolveGuard(p) PROVE IInv'
  <1>1. proc[p] # NoCommand /\ {"ps", "hook", "ours"} \subseteq Onward
    BY DEF ResolveGuard, At, Labels, Onward
  <1>2. CASE Refuse(p)
    BY <1>2, RefuseQuiet, QuietStep DEF ResolveGuard, IInv, TypeOK, Keeps
  <1>3. CASE ~Refuse(p)
    <2>1. PICK label \in {"ps", "hook", "ours"} : Goto(p, label)
      BY <1>3 DEF ResolveGuard
    <2>2. Moves(p)
      BY <1>1, <2>1, GotoQuiet
    <2>3. UNCHANGED <<pin, local, cred, box, foreign, told>>
      BY <1>3 DEF ResolveGuard
    <2> QED
      BY <2>2, <2>3, QuietStep DEF IInv, TypeOK, Keeps
  <1> QED
    BY <1>2, <1>3

\* A command whose write is done goes round again.
LEMMA WroteMoves ==
  ASSUME IInv, NEW p \in Procs, proc[p] # NoCommand,
         proc' = [proc EXCEPT ![p].pc = "guard", ![p].wrote = TRUE]
  PROVE  Moves(p)
  <1> DEFINE c == [proc[p] EXCEPT !.pc = "guard", !.wrote = TRUE]
  <1>1. proc[p] \in Commands
    BY DEF IInv, TypeOK
  <1>2. c \in Commands /\ c.pc = "guard"
    BY <1>1 DEF Commands, Labels
  <1>3. proc' = [proc EXCEPT ![p] = c]
    OBVIOUS
  <1> QED
    BY <1>2, <1>3 DEF Moves, Fits

LEMMA DeployHookSafe == ASSUME IInv, NEW p \in Procs, DeployHook(p) PROVE IInv'
  <1>1. Moves(p) /\ told' \in BOOLEAN
    BY WroteMoves, RefuseQuiet DEF DeployHook, At, IInv, TypeOK
  <1>2. local' \in [Refs -> Baked \cup {"absent"}] /\ Keeps
    BY DEF DeployHook, IInv, TypeOK, Keeps, Baked, Contracts
  <1> QED
    BY <1>1, <1>2, QuietStep DEF DeployHook, IInv, TypeOK, Keeps

LEMMA MintSafe == ASSUME IInv, NEW p \in Procs, Mint(p) PROVE IInv'
  <1>1. Moves(p) /\ told' \in BOOLEAN
    <2>1. Exists \in BOOLEAN
      BY DEF Exists
    <2> QED
      BY <2>1, WroteMoves, EndMoves, RefuseQuiet DEF Mint, At, IInv, TypeOK
  <1>2. cred' \in {cred, "file"}
    BY DEF Mint
  <1>3. box' = box \/ (box # NoContainer /\ box' = [box EXCEPT !.missed = TRUE])
    BY DEF Mint, Exists
  <1> QED
    BY <1>1, <1>2, <1>3, QuietStep DEF Mint, IInv, TypeOK, Keeps

LEMMA AskRunningSafe == ASSUME IInv, NEW p \in Procs, AskRunning(p) PROVE IInv'
  <1>1. proc[p] # NoCommand /\ "ours" \in Onward
    BY DEF AskRunning, At, Labels, Onward
  <1>2. Moves(p) /\ told' \in BOOLEAN
    BY <1>1, GotoQuiet, EndMoves, RefuseQuiet DEF AskRunning, Succeed, IInv, TypeOK
  <1> QED
    BY <1>2, QuietStep DEF AskRunning, IInv, TypeOK, Keeps

\* The agent's own container is never refused: its home is where its own
\* HERMES_HOME says.
LEMMA RequireContainerOursSafe ==
  ASSUME IInv, NEW p \in Procs, RequireContainerOurs(p) PROVE IInv'
  <1>1. Ours(p)
    BY DEF IInv, MountAgrees, Ours, Exists
  <1>2. foreign' = foreign
    BY <1>1 DEF RequireContainerOurs
  <1>3. proc[p] # NoCommand /\ {"match", "sample"} \subseteq Onward
    BY DEF RequireContainerOurs, At, Labels, Onward
  <1>4. Moves(p) /\ told' \in BOOLEAN
    <2>1. CASE Refuse(p)
      BY <2>1, RefuseQuiet
    <2>2. CASE ~Refuse(p)
      <3>1. PICK label \in {"match", "sample"} : Goto(p, label)
        BY <1>1, <2>2 DEF RequireContainerOurs
      <3> QED
        BY <1>1, <1>3, <2>2, <3>1, GotoQuiet DEF RequireContainerOurs, IInv, TypeOK
    <2> QED
      BY <2>1, <2>2
  <1> QED
    BY <1>2, <1>4, QuietStep DEF RequireContainerOurs, IInv, TypeOK, Keeps

LEMMA MatchRunningSafe == ASSUME IInv, NEW p \in Procs, MatchRunning(p) PROVE IInv'
  <1>1. CASE Refuse(p)
    BY <1>1, RefuseQuiet, QuietStep DEF MatchRunning, IInv, TypeOK, Keeps
  <1>2. CASE ~Refuse(p)
    <2> DEFINE c == [proc[p] EXCEPT !.pc = "sample", !.home = Bakes(p)]
    <2>1. proc' = [proc EXCEPT ![p] = c] /\ Bakes(p) \in Contracts /\ UNCHANGED told
      BY <1>2 DEF MatchRunning, Readable
    <2>2. proc[p] \in Commands
      BY DEF MatchRunning, At, IInv, TypeOK
    <2>3. c \in Commands /\ c.pc = "sample"
      BY <2>1, <2>2 DEF Commands, Labels
    <2>4. Moves(p)
      BY <2>1, <2>3 DEF Moves, Fits
    <2> QED
      BY <2>1, <2>4, QuietStep DEF MatchRunning, IInv, TypeOK, Keeps
  <1> QED
    BY <1>1, <1>2

\* compose() asks for the credential before it hands over a current target.
LEMMA SampleSafe == ASSUME IInv, NEW p \in Procs, Sample(p) PROVE IInv'
  <1>1. CASE Refuse(p)
    BY <1>1, RefuseQuiet, QuietStep DEF Sample, IInv, TypeOK, Keeps
  <1>2. CASE ~Refuse(p)
    <2>1. /\ Bakes(p) \in Contracts /\ ComposeAllows(p)
          /\ proc' = [proc EXCEPT ![p].pc = "docker", ![p].target = Bakes(p)]
      BY <1>2 DEF Sample, Readable
    <2>2. UNCHANGED <<pin, local, cred, box, foreign, told>>
      BY <1>2 DEF Sample
    <2>3. proc[p] \in Commands
      BY DEF Sample, At, IInv, TypeOK
    <2>4. /\ proc'[p] \in Commands /\ proc'[p].target = Bakes(p)
          /\ proc'[p].op = proc[p].op /\ proc'[p].ref = proc[p].ref
          /\ \A q \in Procs : q # p => proc'[q] = proc[q]
      BY <2>1, <2>3 DEF Commands, Labels, IInv, TypeOK
    <2>5. TypeOK'
      BY <2>1, <2>2, <2>4 DEF IInv, TypeOK
    <2>6. ASSUME NEW q \in Procs PROVE Handed(q)' /\ Labelled(q)'
      <3>1. CASE q = p
        BY <2>1, <2>2, <2>3, <2>4, <3>1
        DEF Handed, Labelled, At, ComposeAllows, Verb, Bakes, Contracts, Creates, Resumes, IInv, TypeOK
      <3>2. CASE q # p
        BY <2>2, <2>4, <3>2 DEF IInv, Handed, Labelled, At, Verb, Bakes
      <3> QED
        BY <3>1, <3>2
    <2> QED
      BY <2>2, <2>5, <2>6 DEF IInv, MountAgrees, NeverForeign
  <1> QED
    BY <1>1, <1>2

LEMMA CreateSafe == ASSUME IInv, NEW p \in Procs, Create(p) PROVE IInv'
  <1>1. Handed(p) /\ proc[p] \in Commands
    BY DEF Create, At, IInv, TypeOK
  <1>2. /\ cred' \in {cred, "file", "directory"}
        /\ cred # "none" => cred' # "none"
    BY DEF Create, BindCredential
  <1>3. \A q \in Procs : Handed(q)' /\ Labelled(q)'
    BY <1>2, MoveHanded DEF Create, End, Fits, Keeps
  <1>4. box' \in Containers /\ box'.mount = box'.env
    <2>1. CASE box' = Created(p) /\ ImageFor(p) # "absent"
      BY <1>1, <2>1 DEF Create, Handed, Created, Containers, ImageFor, Bakes, Commands, IInv, TypeOK
    <2>2. CASE Exists /\ box' \in {box, [box EXCEPT !.status = "running"]}
      <3>1. box \in Containers /\ box.mount = box.env
        BY <2>2 DEF IInv, TypeOK, MountAgrees, Exists
      <3> QED
        BY <2>2, <3>1 DEF Containers
    <2> QED
      BY <2>1, <2>2 DEF Create
  <1>5. proc' \in [Procs -> Commands \cup {NoCommand}] /\ told' \in BOOLEAN
    BY DEF Create, End, IInv, TypeOK
  <1> QED
    BY <1>2, <1>3, <1>4, <1>5
    DEF Create, IInv, TypeOK, MountAgrees, NeverForeign

LEMMA ResumeSafe == ASSUME IInv, NEW p \in Procs, Resume(p) PROVE IInv'
  <1>1. box \in Containers /\ box.mount = box.env
    BY DEF Resume, Exists, IInv, TypeOK, MountAgrees
  <1>2. box' \in Containers /\ box'.mount = box'.env
    BY <1>1 DEF Resume, Containers
  <1>3. \A q \in Procs : Handed(q)' /\ Labelled(q)'
    BY MoveHanded DEF Resume, Succeed, End, Fits, Keeps
  <1>4. proc' \in [Procs -> Commands \cup {NoCommand}]
    BY DEF Resume, Succeed, End, IInv, TypeOK
  <1> QED
    BY <1>2, <1>3, <1>4 DEF Resume, Succeed, IInv, TypeOK, MountAgrees, NeverForeign

LEMMA StopOrRemoveSafe == ASSUME IInv, NEW p \in Procs, StopOrRemove(p) PROVE IInv'
  <1>1. box' \in Containers \cup {NoContainer} /\ MountAgrees'
    <2>1. CASE box' = NoContainer
      BY <2>1 DEF MountAgrees
    <2>2. CASE Exists /\ box' = [box EXCEPT !.status = "stopped"]
      <3>1. box \in Containers /\ box.mount = box.env
        BY <2>2 DEF IInv, TypeOK, MountAgrees, Exists
      <3> QED
        BY <2>2, <3>1 DEF Containers, MountAgrees
    <2> QED
      BY <2>1, <2>2 DEF StopOrRemove
  <1>2. \A q \in Procs : Handed(q)' /\ Labelled(q)'
    BY MoveHanded DEF StopOrRemove, Succeed, End, Fits, Keeps
  <1>3. proc' \in [Procs -> Commands \cup {NoCommand}]
    BY DEF StopOrRemove, Succeed, End, IInv, TypeOK
  <1> QED
    BY <1>1, <1>2, <1>3 DEF StopOrRemove, Succeed, IInv, TypeOK, NeverForeign

LEMMA ExecSafe == ASSUME IInv, NEW p \in Procs, Exec(p) PROVE IInv'
  BY EndMoves, QuietStep DEF Exec, Succeed, IInv, TypeOK, Keeps

LEMMA DockerFailsSafe == ASSUME IInv, NEW p \in Procs, DockerFails(p) PROVE IInv'
  BY RefuseQuiet, QuietStep DEF DockerFails, IInv, TypeOK, Keeps

\* The gateway exits, or Docker starts it again.
Restarts ==
    \E status \in {"running", "restarting"} :
        /\ Exists /\ box' = [box EXCEPT !.status = status]
        /\ UNCHANGED <<pin, local, cred, proc, foreign, told>>

LEMMA RestartsAre == GatewayExits \/ DockerRestarts => Restarts
  BY DEF GatewayExits, DockerRestarts, Restarts, Running

LEMMA RestartsSafe == ASSUME IInv, Restarts PROVE IInv'
  <1>1. box \in Containers /\ box.mount = box.env
    BY DEF Restarts, Exists, IInv, TypeOK, MountAgrees
  <1>2. box' \in Containers /\ box'.mount = box'.env
    BY <1>1 DEF Restarts, Containers
  <1>3. \A q \in Procs : Handed(q)' /\ Labelled(q)'
    BY DEF Restarts, IInv, Handed, Labelled, At, Verb, Bakes
  <1> QED
    BY <1>2, <1>3 DEF Restarts, IInv, TypeOK, MountAgrees, NeverForeign

LEMMA NextIInv == IInv /\ [Next]_vars => IInv'
  <1>1. ASSUME IInv, NEW p \in Procs, Step(p) PROVE IInv'
    BY <1>1, EnsureImageSafe, BuildSafe, ResolveGuardSafe, DeployHookSafe, MintSafe,
       AskRunningSafe, RequireContainerOursSafe, MatchRunningSafe, SampleSafe, CreateSafe,
       ResumeSafe, StopOrRemoveSafe, ExecSafe, DockerFailsSafe DEF Step
  <1>2. ASSUME IInv, UNCHANGED vars PROVE IInv'
    BY <1>2 DEF vars, IInv, TypeOK, MountAgrees, NeverForeign, Handed, Labelled, At, Verb, Bakes
  <1> QED
    BY <1>1, <1>2, RepinSafe, BeginSafe, RestartsAre, RestartsSafe DEF Next

\* The inductive invariant, from which the next two theorems follow.
THEOREM Invariant == Spec => []IInv
  BY InitIInv, NextIInv, PTL DEF Spec

\* However the image moves and whatever runs beside it, a command never takes
\* the agent's own container for another agent's.
THEOREM OwnContainerKnown == Spec => []NeverForeign
  <1>1. IInv => NeverForeign
    BY DEF IInv
  <1> QED
    BY <1>1, Invariant, PTL

\* In no interleaving does a verb that compose() knows to create containers let
\* Docker leave a directory at the credential's path.
THEOREM CredentialPathKept == Spec => PathStaysFile
  <1> DEFINE Bound == cred # "directory" /\ cred' = "directory"
                        => \E p \in Procs : At(p, "docker") /\ Verb(p) \in Unlisted
  <1>1. ASSUME IInv, [Next]_vars PROVE [Bound]_vars
    <2> SUFFICES ASSUME cred # "directory", cred' = "directory"
                 PROVE  \E p \in Procs : At(p, "docker") /\ Verb(p) \in Unlisted
      OBVIOUS
    <2>1. PICK p \in Procs : Create(p)
      BY <1>1 DEF Next, vars, Repin, Begin, GatewayExits, DockerRestarts, Step, EnsureImage,
         Build, ResolveGuard, DeployHook, Mint, AskRunning, RequireContainerOurs, MatchRunning, Sample, Resume, StopOrRemove,
         Exec, DockerFails
    <2>2. proc[p].target = "current" /\ cred = "none"
      BY <2>1 DEF Create, BindCredential
    <2>3. Verb(p) \notin Creates
      BY <1>1, <2>1, <2>2 DEF Create, IInv, Handed
    <2> QED
      BY <2>1, <2>3 DEF Create
  <1> QED
    BY <1>1, Invariant, PTL DEF Spec, PathStaysFile

-----------------------------------------------------------------------------
(* What a step does to the other commands and to the container.            *)

\* The container's contracts stay what they were created with.
Endures ==
    box' # NoContainer =>
        /\ box # NoContainer
        /\ box'.image = box.image /\ box'.env = box.env /\ box'.mount = box.mount

LEMMA OthersMove ==
  ASSUME IInv, NEW p \in Procs, Step(p), ~Sample(p) PROVE Moves(p)
  <1>1. {"guard", "ours", "match", "sample", "ps", "hook"} \subseteq Onward
    BY DEF Labels, Onward
  <1>2. CASE EnsureImage(p) \/ ResolveGuard(p) \/ AskRunning(p)
    BY <1>1, <1>2, GotoQuiet, EndMoves, RefuseQuiet
    DEF EnsureImage, ResolveGuard, AskRunning, Succeed, At
  <1>3. CASE RequireContainerOurs(p)
    BY <1>1, <1>3, GotoQuiet, RefuseQuiet DEF RequireContainerOurs, At
  <1>4. CASE DeployHook(p) \/ Mint(p)
    BY <1>4, WroteMoves, EndMoves, RefuseQuiet DEF DeployHook, Mint, At
  <1>5. CASE MatchRunning(p)
    <2>1. CASE Refuse(p)
      BY <2>1, RefuseQuiet
    <2>2. CASE ~Refuse(p)
      <3> DEFINE c == [proc[p] EXCEPT !.pc = "sample", !.home = Bakes(p)]
      <3>1. proc' = [proc EXCEPT ![p] = c] /\ Bakes(p) \in Contracts
        BY <1>5, <2>2 DEF MatchRunning, Readable
      <3>2. proc[p] \in Commands
        BY <1>5 DEF MatchRunning, At, IInv, TypeOK
      <3>3. c \in Commands /\ c.pc = "sample"
        BY <3>1, <3>2 DEF Commands, Labels
      <3> QED
        BY <3>1, <3>3 DEF Moves, Fits
    <2> QED
      BY <2>1, <2>2
  <1>6. CASE Build(p) \/ Create(p) \/ Resume(p) \/ StopOrRemove(p) \/ Exec(p) \/ DockerFails(p)
    BY <1>6, EndMoves
    DEF Build, Create, Resume, StopOrRemove, Exec, DockerFails, Succeed, Refuse
  <1> QED
    BY <1>2, <1>3, <1>4, <1>5, <1>6 DEF Step

LEMMA StepAlone ==
  ASSUME IInv, NEW p \in Procs, Step(p), NEW q \in Procs \ {p} PROVE proc'[q] = proc[q]
  <1>1. CASE Sample(p)
    BY <1>1 DEF Sample, Refuse, End, IInv, TypeOK
  <1> QED
    BY <1>1, OthersMove DEF Moves, IInv, TypeOK

LEMMA StepEndures ==
  ASSUME IInv, NEW p \in Procs, Step(p), ~Create(p) PROVE Endures
  <1>1. box = NoContainer \/ box \in Containers
    BY DEF IInv, TypeOK
  <1>2. CASE box' = box
    BY <1>2 DEF Endures
  <1>3. CASE Mint(p) \/ Resume(p) \/ StopOrRemove(p)
    BY <1>1, <1>3 DEF Mint, Resume, StopOrRemove, Exists, Containers, Endures
  <1> QED
    BY <1>2, <1>3 DEF Step, EnsureImage, Build, ResolveGuard, DeployHook, AskRunning,
       RequireContainerOurs, MatchRunning, Sample, Exec, DockerFails

\* A step that is no command's, or a command's first.
Outside ==
    \/ \E r \in Refs : Repin(r)
    \/ \E p \in Procs, op \in Ops : Begin(p, op)
    \/ Restarts
    \/ UNCHANGED vars

LEMMA OutsideEndures ==
  ASSUME IInv, Outside
  PROVE  /\ Endures
         /\ local' = local
         /\ \A q \in Procs : proc'[q] = proc[q] \/ ~(At(q, "sample") \/ At(q, "docker"))'
  <1>1. CASE \E p \in Procs, op \in Ops : Begin(p, op)
    <2>1. PICK p \in Procs, op \in Ops : Begin(p, op)
      BY <1>1
    <2>2. proc'[p].pc \notin {"sample", "docker"} /\ \A q \in Procs \ {p} : proc'[q] = proc[q]
      BY <2>1 DEF Begin, IInv, TypeOK
    <2> QED
      BY <2>1, <2>2 DEF Begin, Endures, At
  <1>2. CASE Restarts
    <2>1. PICK status \in {"running", "restarting"} : box' = [box EXCEPT !.status = status]
      BY <1>2 DEF Restarts
    <2>2. box \in Containers /\ local' = local /\ proc' = proc
      BY <1>2 DEF Restarts, Exists, IInv, TypeOK
    <2> QED
      BY <2>1, <2>2, NullAssumption DEF Endures, Containers
  <1> QED
    BY <1>1, <1>2 DEF Outside, Repin, vars, Endures

LEMMA NextSplits == ASSUME [Next]_vars PROVE Outside \/ \E p \in Procs : Step(p)
  BY RestartsAre DEF Next, Outside

-----------------------------------------------------------------------------
(* The overlay that a container is created under.                          *)

LEMMA CreateMatches ==
  ASSUME IInv, NEW p \in Procs, Create(p), Mismatched' PROVE Overtaken(p)
  <1> SUFFICES ASSUME Bakes(p) = proc[p].target PROVE ~Mismatched'
    BY DEF Create, Overtaken
  <1>1. CASE box' = Created(p)
    BY <1>1 DEF Created, ImageFor, Mismatched
  <1>2. CASE /\ Exists /\ box.image = ImageFor(p) /\ box.env = proc[p].target
             /\ box' \in {box, [box EXCEPT !.status = "running"]}
    <2>1. box \in Containers /\ box.mount = box.env /\ box.image = box.env
      BY <1>2 DEF IInv, TypeOK, MountAgrees, Exists, ImageFor
    <2> QED
      BY <1>2, <2>1 DEF Containers, Mismatched
  <1> QED
    BY <1>1, <1>2 DEF Create

LEMMA EnduringMatches == ASSUME Endures, Mismatched' PROVE Mismatched
  BY DEF Endures, Mismatched, Exists

\* A step of the command itself: what it has just read is what is there.
LEMMA OwnNotOvertaken ==
  ASSUME IInv, NEW p \in Procs, Step(p) PROVE ~Overtaken(p)'
  <1>1. CASE Sample(p)
    <2>1. CASE Refuse(p)
      BY <2>1 DEF Refuse, End, Overtaken, At, IInv, TypeOK
    <2>2. CASE ~Refuse(p)
      <3>1. proc' = [proc EXCEPT ![p].pc = "docker", ![p].target = Bakes(p)] /\ local' = local
        BY <1>1, <2>2 DEF Sample
      <3>2. proc[p] \in Commands
        BY <1>1 DEF Sample, At, IInv, TypeOK
      <3>3. proc'[p].target = Bakes(p) /\ proc'[p].ref = proc[p].ref
        BY <3>1, <3>2 DEF Commands, IInv, TypeOK
      <3> QED
        BY <3>1, <3>3 DEF Overtaken, Bakes
    <2> QED
      BY <2>1, <2>2
  <1>2. CASE ~Sample(p)
    BY <1>2, OthersMove DEF Moves, Fits, Overtaken, At, IInv, TypeOK
  <1> QED
    BY <1>1, <1>2

\* What another command does to the image this one goes by.
LEMMA OvertakenBy ==
  ASSUME IInv, NEW p \in Procs, NEW q \in Procs \ {p}, Step(q), Overtaken(p)', ~Overtaken(p)
  PROVE  /\ proc[p].ref \in Tags
         /\ Build(q) \/ DeployHook(q)
         /\ proc[q].ref = proc[p].ref
  <1>1. proc'[p] = proc[p]
    BY StepAlone
  <1>2. At(p, "docker") /\ Handed(p) /\ proc[p] \in Commands
    BY <1>1 DEF Overtaken, At, IInv, TypeOK
  <1>3. proc[p].ref \in Refs /\ local[proc[p].ref] # "absent"
    BY <1>2 DEF Handed, Bakes, Commands
  <1>4. local'[proc[p].ref] # local[proc[p].ref]
    BY <1>1, <1>2 DEF Overtaken, Bakes, At
  <1>5. CASE EnsureImage(q)
    BY <1>3, <1>4, <1>5 DEF EnsureImage, IInv, TypeOK
  <1>6. CASE Build(q) \/ DeployHook(q)
    BY <1>3, <1>4, <1>6 DEF Build, DeployHook, IInv, TypeOK
  <1> QED
    BY <1>4, <1>5, <1>6 DEF Step, ResolveGuard, Mint, AskRunning, RequireContainerOurs,
       MatchRunning, Sample, Create, Resume, StopOrRemove, Exec, DockerFails

\* In every interleaving of commands, builds, pulls and edits of the pin, a
\* container is created under the other contract's overlay only by a command
\* whose tag another command has built since compose() looked at it: never
\* under a digest, and never by a command that runs alone.
THEOREM BootsMatched == Spec => BootsAsMounted
  <1> DEFINE Made == Mismatched' => \/ \E p \in Procs : Create(p) /\ Overtaken(p)
                                    \/ Mismatched /\ \A p \in Procs : ~Create(p)
             Bound == \A p \in Procs : Overtaken(p)' =>
                        \/ Overtaken(p)
                        \/ /\ proc[p].ref \in Tags
                           /\ \E q \in Procs \ {p} : /\ Build(q) \/ DeployHook(q)
                                                    /\ proc[q].ref = proc[p].ref
  <1>1. ASSUME IInv, [Next]_vars PROVE Made
    <2>1. ASSUME NEW p \in Procs, Create(p), Mismatched' PROVE Overtaken(p)
      BY <1>1, <2>1, CreateMatches
    <2>2. CASE \A p \in Procs : ~Create(p)
      <3>1. Endures
        BY <1>1, <2>2, NextSplits, OutsideEndures, StepEndures
      <3> QED
        BY <2>2, <3>1, EnduringMatches
    <2> QED
      BY <2>1, <2>2
  <1>2. ASSUME IInv, [Next]_vars PROVE Bound
    <2> SUFFICES ASSUME NEW p \in Procs, Overtaken(p)', ~Overtaken(p)
                 PROVE  /\ proc[p].ref \in Tags
                        /\ \E q \in Procs \ {p} : /\ Build(q) \/ DeployHook(q)
                                                 /\ proc[q].ref = proc[p].ref
      OBVIOUS
    <2>1. ~Outside
      BY <1>2, OutsideEndures DEF Overtaken, Bakes, At
    <2>2. PICK q \in Procs : Step(q)
      BY <1>2, <2>1, NextSplits
    <2>3. q # p
      BY <1>2, <2>2, OwnNotOvertaken
    <2> QED
      BY <1>2, <2>2, <2>3, OvertakenBy
  <1> HIDE DEF Made, Bound
  <1>3. IInv /\ [Next]_vars => [Made /\ Bound]_vars
    BY <1>1, <1>2
  <1> QED
    BY <1>3, Invariant, PTL DEF Spec, BootsAsMounted, Made, Bound

-----------------------------------------------------------------------------
(* The HOME that exec is given.                                            *)

\* A step of the command itself: what it compared is the container's own.
LEMMA OwnNotMisled ==
  ASSUME IInv, NEW p \in Procs, Step(p), Misled(p)' PROVE Misled(p)
  <1>1. proc[p] # NoCommand /\ proc[p] \in Commands
    BY DEF Step, EnsureImage, Build, ResolveGuard, DeployHook, Mint, AskRunning,
       RequireContainerOurs, MatchRunning, Sample, Create, Resume, StopOrRemove, Exec,
       DockerFails, At, IInv, TypeOK
  <1>2. ~End(p) /\ (At(p, "sample") \/ At(p, "docker"))'
    BY DEF Misled, End, At, IInv, TypeOK
  <1>3. CASE Sample(p)
    <2>1. proc' = [proc EXCEPT ![p].pc = "docker", ![p].target = Bakes(p)]
      BY <1>2, <1>3 DEF Sample, Refuse
    <2>2. proc'[p].op = proc[p].op /\ proc'[p].home = proc[p].home
      BY <1>1, <2>1 DEF Commands, IInv, TypeOK
    <2> QED
      BY <1>3, <2>2 DEF Sample, Misled, Exists
  <1>4. CASE MatchRunning(p)
    <2>1. /\ Exists /\ box.env = Bakes(p) /\ box' = box
          /\ proc' = [proc EXCEPT ![p].pc = "sample", ![p].home = Bakes(p)]
      BY <1>2, <1>4 DEF MatchRunning, Refuse
    <2>2. proc'[p].home = box.mount
      BY <1>1, <2>1 DEF Commands, IInv, TypeOK, MountAgrees, Exists
    <2> QED
      BY <2>1, <2>2 DEF Misled
  <1>5. CASE RequireContainerOurs(p)
    <2>1. Goto(p, "match") \/ (Goto(p, "sample") /\ proc[p].op # "cron-sync")
      BY <1>2, <1>5 DEF RequireContainerOurs, Refuse
    <2>2. proc'[p].op = proc[p].op /\ (proc'[p].pc = "match" \/ proc[p].op # "cron-sync")
      BY <1>1, <2>1 DEF Goto, Commands, IInv, TypeOK
    <2> QED
      BY <1>2, <2>2 DEF Misled, At
  <1>6. CASE EnsureImage(p) \/ ResolveGuard(p) \/ AskRunning(p)
    <2>1. PICK label \in Labels \ {"sample", "docker"} : Goto(p, label)
      BY <1>2, <1>6 DEF EnsureImage, ResolveGuard, AskRunning, Refuse, Succeed, Labels
    <2>2. proc'[p].pc = label
      BY <1>1, <2>1 DEF Goto, Commands, IInv, TypeOK
    <2> QED
      BY <1>2, <2>1, <2>2 DEF At
  <1>7. CASE DeployHook(p) \/ Mint(p)
    <2>1. proc' = [proc EXCEPT ![p].pc = "guard", ![p].wrote = TRUE]
      BY <1>2, <1>7 DEF DeployHook, Mint, Refuse
    <2>2. proc'[p].pc = "guard"
      BY <1>1, <2>1 DEF Commands, IInv, TypeOK
    <2> QED
      BY <1>2, <2>2 DEF At
  <1> QED
    BY <1>2, <1>3, <1>4, <1>5, <1>6, <1>7
    DEF Step, Build, Create, Resume, StopOrRemove, Exec, DockerFails, Succeed, Refuse

\* Another command's step that creates nothing.
LEMMA OtherNotMisled ==
  ASSUME NEW p \in Procs, proc'[p] = proc[p] \/ ~(At(p, "sample") \/ At(p, "docker"))',
         Endures, Misled(p)'
  PROVE  Misled(p)
  BY DEF Endures, Misled, At, Exists

\* In every interleaving the HOME that exec is given is where the container has
\* its own, whatever its image has become, unless another command has created
\* the container anew since the two were compared.
THEOREM ExecsAtHome == Spec => ExecAtHome
  <1> DEFINE Bound == \A p \in Procs : Misled(p)' => \/ Misled(p)
                                                     \/ \E q \in Procs \ {p} : Create(q)
  <1>1. IInv /\ [Next]_vars => [Bound]_vars
    <2> SUFFICES ASSUME IInv, [Next]_vars,
                        NEW p \in Procs, Misled(p)', \A q \in Procs \ {p} : ~Create(q)
                 PROVE  Misled(p)
      OBVIOUS
    <2>1. CASE Outside
      BY <2>1, OutsideEndures, OtherNotMisled
    <2>2. CASE Step(p)
      BY <2>2, OwnNotMisled
    <2>3. ASSUME NEW q \in Procs \ {p}, Step(q) PROVE Misled(p)
      BY <2>3, StepAlone, StepEndures, OtherNotMisled
    <2> QED
      BY <2>1, <2>2, <2>3, NextSplits
  <1> HIDE DEF Bound
  <1> QED
    BY <1>1, Invariant, PTL DEF Spec, ExecAtHome, Bound

-----------------------------------------------------------------------------
(* The credential of the last mint.                                        *)

\* An activate that has minted stays one until it has refused.
Stands(p) ==
    \/ Refuse(p)
    \/ /\ UNCHANGED told
       /\ \E c \in Commands \cup {NoCommand} :
             /\ proc' = [proc EXCEPT ![p] = c]
             /\ proc[p] # NoCommand /\ proc[p].wrote /\ proc[p].op = "activate"
                    => c # NoCommand /\ c.wrote /\ c.op = "activate"

\* As long as the container is not touched, nobody is misled by such a step.
LEMMA StandsRead ==
  ASSUME IInv, NEW p \in Procs, Stands(p), box' = box, Unread'
  PROVE  Unread
  <1>1. Live /\ box.env = "current" /\ box.missed /\ ~told'
    BY DEF Unread, Live, Exists
  <1>2. ASSUME NEW q \in Procs, proc[q] # NoCommand, proc[q].wrote, proc[q].op = "activate"
        PROVE  FALSE
    <2>1. proc'[q] # NoCommand /\ proc'[q].wrote => proc'[q].op # "activate"
      BY DEF Unread
    <2>2. CASE Refuse(p)
      BY <1>1, <1>2, <2>1, <2>2 DEF Refuse, Misses, Live, End, IInv, TypeOK
    <2>3. CASE ~Refuse(p)
      BY <1>2, <2>1, <2>3 DEF Stands, IInv, TypeOK
    <2> QED
      BY <2>2, <2>3
  <1>3. ~told
    BY <1>1 DEF Stands, Refuse, IInv, TypeOK
  <1> QED
    BY <1>1, <1>2, <1>3 DEF Unread

LEMMA GotoStands ==
  ASSUME IInv, NEW p \in Procs, NEW label \in Labels, proc[p] # NoCommand, Goto(p, label),
         UNCHANGED told
  PROVE  Stands(p)
  <1> DEFINE c == [proc[p] EXCEPT !.pc = label]
  <1>1. proc[p] \in Commands
    BY DEF IInv, TypeOK
  <1>2. c \in Commands /\ c.wrote = proc[p].wrote /\ c.op = proc[p].op
    BY <1>1 DEF Commands
  <1>3. c # NoCommand /\ proc' = [proc EXCEPT ![p] = c]
    BY <1>2, NullAssumption DEF Goto
  <1> QED
    BY <1>2, <1>3 DEF Stands

LEMMA EndStands ==
  ASSUME NEW p \in Procs, Succeed(p), proc[p].op # "activate" PROVE Stands(p)
  BY DEF Stands, Succeed, End

\* A command that goes on with a field or two changed.
LEMMA ChangedStands ==
  ASSUME IInv, NEW p \in Procs, proc[p] # NoCommand, UNCHANGED told,
         NEW c \in Commands, c.wrote = proc[p].wrote \/ c.wrote, c.op = proc[p].op,
         proc' = [proc EXCEPT ![p] = c]
  PROVE  Stands(p)
  BY NullAssumption DEF Stands

\* The three ways in which a gateway may be left without the credential.
Excused(p) ==
    \/ Resume(p) /\ proc[p].target = "legacy"
    \/ Create(p) /\ Verb(p) \in Unlisted
    \/ /\ AskRunning(p) /\ proc[p].op = "activate"
       /\ box.status = "restarting"

LEMMA OnwardRead ==
  ASSUME IInv, NEW p \in Procs, Unread',
         \/ EnsureImage(p) \/ Build(p) \/ ResolveGuard(p) \/ DeployHook(p)
         \/ AskRunning(p) \/ RequireContainerOurs(p) \/ MatchRunning(p) \/ Sample(p)
  PROVE  Unread \/ Excused(p)
  <1>1. box' = box
    BY DEF EnsureImage, Build, ResolveGuard, DeployHook, AskRunning, RequireContainerOurs,
       MatchRunning, Sample
  <1> SUFFICES ASSUME ~Refuse(p), ~Excused(p) PROVE Stands(p)
    BY <1>1, StandsRead DEF Stands
  <1>2. proc[p] # NoCommand /\ proc[p] \in Commands
    BY DEF EnsureImage, Build, ResolveGuard, DeployHook, AskRunning, RequireContainerOurs,
       MatchRunning, Sample, At, IInv, TypeOK
  <1>3. {"guard", "ours", "match", "sample", "ps", "hook"} \subseteq Labels
    BY DEF Labels
  <1>4. CASE EnsureImage(p)
    BY <1>2, <1>3, <1>4, GotoStands DEF EnsureImage
  <1>5. CASE Build(p)
    BY <1>5, EndStands DEF Build, IInv, Labelled
  <1>6. CASE ResolveGuard(p)
    BY <1>2, <1>3, <1>6, GotoStands DEF ResolveGuard
  <1>7. CASE DeployHook(p)
    <2> DEFINE c == [proc[p] EXCEPT !.pc = "guard", !.wrote = TRUE]
    <2>1. c \in Commands /\ c.wrote /\ c.op = proc[p].op
      BY <1>2, <1>3 DEF Commands
    <2>2. proc' = [proc EXCEPT ![p] = c] /\ UNCHANGED told
      BY <1>7 DEF DeployHook
    <2> QED
      BY <1>2, <2>1, <2>2, ChangedStands
  <1>8. CASE AskRunning(p)
    <2>1. Live /\ (box.status = "restarting" => proc[p].op # "activate")
      BY <1>1, <1>8 DEF Unread, Live, Exists, Excused
    <2>2. CASE Running
      BY <1>2, <1>3, <1>8, <2>2, GotoStands DEF AskRunning
    <2>3. CASE ~Running
      BY <1>8, <2>1, <2>3, EndStands DEF AskRunning, Live, Running
    <2> QED
      BY <2>2, <2>3
  <1>9. CASE RequireContainerOurs(p)
    BY <1>2, <1>3, <1>9, GotoStands DEF RequireContainerOurs
  <1>10. CASE MatchRunning(p)
    <2> DEFINE c == [proc[p] EXCEPT !.pc = "sample", !.home = Bakes(p)]
    <2>1. /\ proc' = [proc EXCEPT ![p] = c] /\ UNCHANGED told
          /\ Bakes(p) \in Contracts
      BY <1>10 DEF MatchRunning, Readable
    <2>2. c \in Commands /\ c.wrote = proc[p].wrote /\ c.op = proc[p].op
      BY <1>2, <1>3, <2>1 DEF Commands
    <2> QED
      BY <1>2, <2>1, <2>2, ChangedStands
  <1>11. CASE Sample(p)
    <2> DEFINE c == [proc[p] EXCEPT !.pc = "docker", !.target = Bakes(p)]
    <2>1. /\ proc' = [proc EXCEPT ![p] = c] /\ UNCHANGED told
          /\ Bakes(p) \in Contracts
      BY <1>11 DEF Sample, Readable
    <2>2. c \in Commands /\ c.wrote = proc[p].wrote /\ c.op = proc[p].op
      BY <1>2, <2>1 DEF Commands, Labels
    <2> QED
      BY <1>2, <2>1, <2>2, ChangedStands
  <1> QED
    BY <1>4, <1>5, <1>6, <1>7, <1>8, <1>9, <1>10, <1>11

\* An activate that has minted is either still at work, or has told.
LEMMA MintRead == ASSUME IInv, NEW p \in Procs, Mint(p), Unread' PROVE Unread
  <1>1. ~told'
    BY DEF Unread
  <1>2. CASE Refuse(p) /\ box' = box
    BY <1>2, StandsRead DEF Stands
  <1>3. CASE proc' = [proc EXCEPT ![p].pc = "guard", ![p].wrote = TRUE]
    <2>1. proc[p] \in Commands /\ proc[p].op = "activate"
      BY DEF Mint, At, IInv, TypeOK, Labelled
    <2>2. proc'[p] \in Commands /\ proc'[p].wrote /\ proc'[p].op = "activate"
      BY <1>3, <2>1 DEF Commands, Labels, IInv, TypeOK
    <2> QED
      BY <2>2, NullAssumption DEF Unread
  <1>4. CASE End(p) /\ told' = Exists /\ box' = (IF Exists THEN [box EXCEPT !.missed = TRUE] ELSE box)
    BY <1>1, <1>4 DEF Unread, Live, Exists
  <1> QED
    BY <1>2, <1>3, <1>4 DEF Mint

LEMMA DockerRead ==
  ASSUME IInv, NEW p \in Procs, Unread',
         Create(p) \/ Resume(p) \/ StopOrRemove(p) \/ Exec(p) \/ DockerFails(p)
  PROVE  Unread \/ Excused(p)
  <1>1. At(p, "docker") /\ Handed(p) /\ (box = NoContainer \/ box \in Containers)
    BY DEF Create, Resume, StopOrRemove, Exec, DockerFails, IInv, TypeOK
  <1>2. box' # NoContainer /\ box'.status # "stopped" /\ box'.env = "current" /\ box'.missed
    BY DEF Unread, Live, Exists
  <1>3. CASE Create(p)
    <2>1. CASE box' = Created(p)
      BY <1>2, <2>1 DEF Created
    <2>2. CASE /\ Exists /\ box' \in {box, [box EXCEPT !.status = "running"]}
               /\ box.env = proc[p].target
               /\ \/ Verb(p) = "up" /\ proc[p].target = "legacy"
                  \/ Verb(p) \in Unlisted
      <3>1. box.env = "current"
        BY <1>1, <1>2, <2>2 DEF Exists, Containers
      <3> QED
        BY <1>3, <2>2, <3>1 DEF Excused
    <2> QED
      BY <1>3, <2>1, <2>2 DEF Create
  <1>4. CASE Resume(p)
    BY <1>1, <1>4 DEF Resume, Handed, Excused
  <1>5. CASE StopOrRemove(p)
    BY <1>1, <1>2, <1>5 DEF StopOrRemove, Exists, Containers
  <1>6. CASE Exec(p)
    <2>1. proc[p].op # "activate"
      BY <1>6 DEF Exec, Verb, Reloads
    <2> QED
      BY <1>6, <2>1, EndStands, StandsRead DEF Exec
  <1>7. CASE DockerFails(p)
    BY <1>7, StandsRead DEF DockerFails, Stands
  <1> QED
    BY <1>3, <1>4, <1>5, <1>6, <1>7

\* In every interleaving of mints, rebuilds, crashes and verbs a gateway that
\* has not read the credential of the last mint, unknown to anybody, comes about
\* only in the three ways that CredentialRead names.
THEOREM CredentialReadAlways == Spec => CredentialRead
  <1> DEFINE Bound == Unread' => Unread \/ \E p \in Procs : Excused(p)
  <1>1. ASSUME IInv, [Next]_vars PROVE Bound
    <2> SUFFICES ASSUME Unread' PROVE Unread \/ \E p \in Procs : Excused(p)
      OBVIOUS
    <2>1. ASSUME NEW p \in Procs, Step(p) PROVE Unread \/ \E q \in Procs : Excused(q)
      BY <1>1, <2>1, OnwardRead, MintRead, DockerRead DEF Step
    <2>2. ASSUME NEW r \in Refs, Repin(r) PROVE Unread
      BY <2>2 DEF Repin, Unread, Live, Exists
    <2>3. ASSUME NEW p \in Procs, NEW op \in Ops, Begin(p, op) PROVE Unread
      <3>1. \A q \in Procs \ {p} : proc'[q] = proc[q]
        BY <1>1, <2>3 DEF Begin, IInv, TypeOK
      <3> QED
        BY <2>3, <3>1 DEF Begin, Unread, Live, Exists
    <2>4. CASE GatewayExits \/ DockerRestarts
      <3>1. Exists /\ box \in Containers
        BY <1>1, <2>4 DEF GatewayExits, DockerRestarts, Running, Exists, IInv, TypeOK
      <3> QED
        BY <2>4, <3>1 DEF GatewayExits, DockerRestarts, Running, Containers, Unread, Live, Exists
    <2>5. CASE UNCHANGED vars
      BY <2>5 DEF vars, Unread, Live, Exists
    <2> QED
      BY <1>1, <2>1, <2>2, <2>3, <2>4, <2>5 DEF Next
  <1> HIDE DEF Bound
  <1>2. IInv /\ [Next]_vars => [Bound]_vars
    BY <1>1
  <1> QED
    BY <1>2, Invariant, PTL DEF Spec, CredentialRead, Bound, Excused
=============================================================================
