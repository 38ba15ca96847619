--------------------------- MODULE LifecycleProofs --------------------------
(***************************************************************************)
(* The theorems about Lifecycle, for any fleet: any names, repositories,   *)
(* descriptors, homes (symlinked or not), projects and number of           *)
(* processes.  First its types and its main safety property,               *)
(* OneGatewayPerHome; then what a command may do to a container, and what  *)
(* a running gateway may have missed.  The latter rest on Admission and on *)
(* three more facts: a command that has reached Docker has the consent it  *)
(* needs (ConsentHeld), has identified the container it will act on        *)
(* (Identified), and a gateway that missed something is covered: a command *)
(* is still reloading it, or its operator was told.                        *)
(***************************************************************************)
EXTENDS Lifecycle, TLAPS

Facts == /\ NoRepo \notin Repos
         /\ NoCommand \notin Commands
         /\ NoContainer \notin Containers

LEMMA FactsHold == Facts
  BY NoRepoAssumption, NullAssumption DEF Facts

\* Home, Project and Mount stay within the constants.
LEMMA ResolvedTypes ==
  ASSUME NEW n \in Names, NEW r \in Repos
  PROVE  Home(n, r) \in Paths /\ Project(n, r) \in Projects /\ Mount(n, r) \in Paths
  BY DefaultAssumption, DescAssumption DEF Home, Project, Mount, Descriptors

-----------------------------------------------------------------------------
(* Types                                                                   *)

LEMMA InitTyped == Init => TypeOK
  BY DEF Init, TypeOK

\* Going to another label, or ending, keeps the processes typed.
LEMMA GotoTyped ==
  ASSUME TypeOK, NEW p \in Procs, proc[p] # NoCommand, NEW label \in Labels, Goto(p, label)
  PROVE  proc' \in [Procs -> Commands \cup {NoCommand}]
  BY DEF TypeOK, Goto, Commands

LEMMA SucceedTyped ==
  ASSUME TypeOK, NEW p \in Procs, Succeed(p)
  PROVE  proc' \in [Procs -> Commands \cup {NoCommand}] /\ told' \subseteq Names
  BY DEF TypeOK, Succeed

LEMMA RefuseTyped ==
  ASSUME TypeOK, NEW p \in Procs, proc[p] # NoCommand, Refuse(p)
  PROVE  proc' \in [Procs -> Commands \cup {NoCommand}] /\ told' \subseteq Names
  <1>1. proc[p] \in Commands
    BY DEF TypeOK
  <1>2. proc[p].name \in Names
    BY <1>1 DEF Commands
  <1>3. proc' \in [Procs -> Commands \cup {NoCommand}]
    BY DEF TypeOK, Refuse
  <1>4. told' = told \/ told' = told \cup {proc[p].name}
    BY DEF Refuse
  <1> QED
    BY <1>2, <1>3, <1>4 DEF TypeOK

LEMMA AbortTyped ==
  ASSUME TypeOK, NEW p \in Procs, proc[p] # NoCommand, Abort(p)
  PROVE  proc' \in [Procs -> Commands \cup {NoCommand}] /\ told' \subseteq Names
  BY DEF TypeOK, Abort, Commands

LEMMA WroteTyped ==
  ASSUME TypeOK, NEW p \in Procs, proc[p] # NoCommand, Wrote(p)
  PROVE  proc' \in [Procs -> Commands \cup {NoCommand}]
  <1>1. proc[p] \in Commands
    BY DEF TypeOK
  <1> DEFINE c == [proc[p] EXCEPT !.pc = "own", !.wrote = TRUE, !.asked = FALSE]
  <1>2. c \in Commands
    BY <1>1 DEF Commands, Labels
  <1>3. proc' = [proc EXCEPT ![p] = c]
    BY <1>1, Zenon DEF TypeOK, Wrote
  <1> QED
    BY <1>2, <1>3 DEF TypeOK

LEMMA RestartsTyped ==
  ASSUME TypeOK, NEW q \in Projects, Exists(q), Restarts(q)
  PROVE  box' \in [Projects -> Containers \cup {NoContainer}]
  <1>1. box[q] \in Containers
    BY DEF TypeOK, Exists
  <1> DEFINE b == [box[q] EXCEPT !.status = "running", !.missed = @ \ {"home"}]
  <1>2. b \in Containers
    BY <1>1 DEF Containers
  <1>3. box' = [box EXCEPT ![q] = b]
    BY <1>1, Zenon DEF TypeOK, Restarts
  <1> QED
    BY <1>2, <1>3 DEF TypeOK

LEMMA BecomesTyped ==
  ASSUME TypeOK, NEW q \in Projects, Exists(q), Becomes(q, "stopped") \/ Becomes(q, "paused")
           \/ Becomes(q, "running") \/ Becomes(q, "restarting")
  PROVE  box' \in [Projects -> Containers \cup {NoContainer}]
  BY DEF TypeOK, Becomes, Exists, Containers

LEMMA AskedRecord ==
  ASSUME NEW c \in Commands, NEW label \in Labels, NEW a \in BOOLEAN, NEW h \in BOOLEAN
  PROVE  [c EXCEPT !.pc = label, !.acked = a, !.asked = h] \in Commands
  BY DEF Commands

LEMMA AskedTyped ==
  ASSUME TypeOK, NEW p \in Procs, proc[p] # NoCommand, NEW yes \in BOOLEAN,
         NEW label \in Labels,
         proc' = [proc EXCEPT ![p].pc = label,
                              ![p].acked = @ \/ yes,
                              ![p].asked = MyDesc(p).hook]
  PROVE  proc' \in [Procs -> Commands \cup {NoCommand}]
  <1>1. proc[p] \in Commands
    BY DEF TypeOK
  <1>2. proc[p].repo \in Repos
    BY <1>1 DEF Commands
  <1>3. MyDesc(p).hook \in BOOLEAN
    BY <1>2, DescAssumption DEF MyDesc, Descriptors
  <1>4. (proc[p].acked \/ yes) \in BOOLEAN
    OBVIOUS
  <1>5. [proc[p] EXCEPT !.pc = label, !.acked = proc[p].acked \/ yes, !.asked = MyDesc(p).hook]
          \in Commands
    BY <1>1, <1>3, <1>4, AskedRecord, Zenon
  <1>6. proc' = [proc EXCEPT ![p] = [proc[p] EXCEPT !.pc = label,
                   !.acked = proc[p].acked \/ yes, !.asked = MyDesc(p).hook]]
    BY <1>1, Zenon DEF TypeOK
  <1> QED
    BY <1>5, <1>6, Zenon DEF TypeOK

LEMMA MissTyped ==
  ASSUME TypeOK, NEW what \in {"credential", "home"}, NEW boxes \in SUBSET Projects,
         \A q \in boxes : Exists(q), Miss(what, boxes)
  PROVE  box' \in [Projects -> Containers \cup {NoContainer}]
  <1>1. SUFFICES ASSUME NEW q \in Projects
                 PROVE  box'[q] \in Containers \cup {NoContainer}
    BY DEF Miss
  <1>2. CASE q \in boxes
    <2>1. box[q] \in Containers
      BY <1>2 DEF TypeOK, Exists
    <2>2. [box[q] EXCEPT !.missed = @ \cup {what}] \in Containers
      BY <2>1 DEF Containers
    <2> QED
      BY <1>2, <2>2 DEF Miss
  <1>3. CASE q \notin boxes
    BY <1>3 DEF TypeOK, Miss
  <1> QED
    BY <1>2, <1>3

LEMMA RemovedTyped ==
  ASSUME TypeOK, NEW q \in Projects, box' = [box EXCEPT ![q] = NoContainer]
  PROVE  box' \in [Projects -> Containers \cup {NoContainer}]
  BY DEF TypeOK

LEMMA NewContainerTyped ==
  ASSUME TypeOK, NEW p \in Procs, proc[p] # NoCommand, NEW status \in {"running", "stopped"}
  PROVE  NewContainer(p, status) \in Containers
  <1>1. proc[p].name \in Names /\ proc[p].repo \in Repos
    BY DEF TypeOK, Commands
  <1> QED
    BY <1>1, ResolvedTypes DEF NewContainer, Containers

\* One case per action of Next.
LEMMA NextTyped ==
  ASSUME TypeOK, [Next]_vars
  PROVE  TypeOK'
  <1> USE FactsHold
  <1>1. ASSUME NEW n \in Names, NEW r \in Repos, Register(n, r)  PROVE TypeOK'
    BY <1>1 DEF TypeOK, Register, Registries
  <1>2. ASSUME NEW n \in Names, Unregister(n)  PROVE TypeOK'
    BY <1>2 DEF TypeOK, Unregister, Registries
  <1>3. ASSUME NEW r \in Repos, Break(r) \/ Repair(r)  PROVE TypeOK'
    BY <1>3 DEF TypeOK, Break, Repair
  <1>4. ASSUME NEW p \in Procs, NEW op \in Ops, NEW n \in Names, Begin(p, op, n)
        PROVE  TypeOK'
    <2>1. reg[n] \in Repos
      BY <1>4 DEF TypeOK, Begin, Resolves, Registries
    <2>2. PICK ack \in BOOLEAN : proc' = [proc EXCEPT ![p] =
              [ pc |-> "own", op |-> op, name |-> n, repo |-> reg[n],
                wrote |-> FALSE, acked |-> ack, asked |-> FALSE ]]
      BY <1>4 DEF Begin
    <2> DEFINE c == [ pc |-> "own", op |-> op, name |-> n, repo |-> reg[n],
                      wrote |-> FALSE, acked |-> ack, asked |-> FALSE ]
    <2>3. c \in Commands
      BY <2>1 DEF Commands, Labels
    <2>4. proc' \in [Procs -> Commands \cup {NoCommand}]
      BY <2>2, <2>3 DEF TypeOK
    <2> QED
      BY <1>4, <2>4 DEF TypeOK, Begin
  <1>5. ASSUME NEW p \in Procs, proc[p] # NoCommand,
               UNCHANGED <<reg, broken, cred, box>>,
               \/ Refuse(p)
               \/ Succeed(p)
               \/ \E label \in Labels : Goto(p, label) /\ UNCHANGED told
               \/ \E label \in Labels, yes \in BOOLEAN :
                    /\ proc' = [proc EXCEPT ![p].pc = label, ![p].acked = @ \/ yes,
                                            ![p].asked = MyDesc(p).hook]
                    /\ UNCHANGED told
        PROVE  TypeOK'
    <2>1. CASE Refuse(p)
      BY <1>5, <2>1, RefuseTyped DEF TypeOK
    <2>2. CASE Succeed(p)
      BY <1>5, <2>2, SucceedTyped DEF TypeOK
    <2>3. CASE \E label \in Labels : Goto(p, label) /\ UNCHANGED told
      BY <1>5, <2>3, GotoTyped DEF TypeOK
    <2>4. CASE \E label \in Labels, yes \in BOOLEAN :
                 /\ proc' = [proc EXCEPT ![p].pc = label, ![p].acked = @ \/ yes,
                                         ![p].asked = MyDesc(p).hook]
                 /\ UNCHANGED told
      BY <1>5, <2>4, AskedTyped DEF TypeOK
    <2> QED
      BY <1>5, <2>1, <2>2, <2>3, <2>4
  <1>6. ASSUME NEW p \in Procs, RequireOwnHome(p)  PROVE TypeOK'
    BY <1>5, <1>6 DEF RequireOwnHome, At, Labels
  <1>7. ASSUME NEW p \in Procs, ResolveGuard(p)  PROVE TypeOK'
    BY <1>5, <1>7 DEF ResolveGuard, At, Labels
  <1>8. ASSUME NEW p \in Procs, AskFirst(p)  PROVE TypeOK'
    BY <1>5, <1>8 DEF AskFirst, At, Labels
  <1>9. ASSUME NEW p \in Procs, RequireRunning(p)  PROVE TypeOK'
    BY <1>5, <1>9 DEF RequireRunning, At, Labels
  <1>10. ASSUME NEW p \in Procs, ReloadIfRunning(p)  PROVE TypeOK'
    BY <1>5, <1>10 DEF ReloadIfRunning, At, Labels
  <1>11. ASSUME NEW p \in Procs, Transition(p)  PROVE TypeOK'
    BY <1>5, <1>11 DEF Transition, At, Labels
  <1>12. ASSUME NEW p \in Procs, Fail(p)  PROVE TypeOK'
    BY <1>5, <1>12 DEF Fail
  <1>13. ASSUME NEW p \in Procs, Mint(p)  PROVE TypeOK'
    <2> DEFINE n == proc[p].name
    <2>1. proc[p] # NoCommand /\ n \in Names
      BY <1>13 DEF Mint, At, TypeOK, Commands
    <2>2. ASSUME Miss("credential", CredentialOf(n))
          PROVE  box' \in [Projects -> Containers \cup {NoContainer}]
      BY <2>2, MissTyped DEF CredentialOf
    <2>3. CASE /\ cred' = [cred EXCEPT ![n] = "live"]
               /\ Miss("credential", CredentialOf(n))
               /\ Wrote(p) /\ UNCHANGED told
      BY <1>13, <2>1, <2>2, <2>3, WroteTyped DEF TypeOK, Mint
    <2>4. CASE /\ cred' = [cred EXCEPT ![n] = "dead"]
               /\ Miss("credential", CredentialOf(n))
               /\ Abort(p)
      BY <1>13, <2>1, <2>2, <2>4, AbortTyped DEF TypeOK, Mint
    <2>5. CASE Refuse(p) /\ UNCHANGED <<cred, box>>
      BY <1>13, <2>1, <2>5, RefuseTyped DEF TypeOK, Mint
    <2> QED
      BY <1>13, <2>3, <2>4, <2>5 DEF Mint
  <1>14. ASSUME NEW p \in Procs, WriteDotenv(p) \/ SignIn(p) \/ Install(p)  PROVE TypeOK'
    <2>1. proc[p] # NoCommand
      BY <1>14 DEF WriteDotenv, SignIn, Install, At
    <2>2. CASE Miss("home", HomeIn(MyHome(p)))
      <3>1. box' \in [Projects -> Containers \cup {NoContainer}]
        BY <2>2, MissTyped DEF HomeIn
      <3>2. CASE Wrote(p) /\ UNCHANGED told
        BY <1>14, <2>1, <3>1, <3>2, WroteTyped DEF TypeOK, WriteDotenv, SignIn, Install
      <3>3. CASE Abort(p)
        BY <1>14, <2>1, <3>1, <3>3, AbortTyped DEF TypeOK, WriteDotenv, SignIn, Install
      <3>4. CASE Refuse(p) /\ UNCHANGED box
        BY <1>14, <2>1, <3>4, RefuseTyped DEF TypeOK, WriteDotenv, SignIn, Install
      <3> QED
        BY <1>14, <3>2, <3>3, <3>4 DEF WriteDotenv, SignIn, Install
    <2>3. CASE Refuse(p) /\ UNCHANGED box
      BY <1>14, <2>1, <2>3, RefuseTyped DEF TypeOK, WriteDotenv, SignIn, Install
    <2> QED
      BY <1>14, <2>2, <2>3 DEF WriteDotenv, SignIn, Install
  <1>15. ASSUME NEW p \in Procs, Docker(p)  PROVE TypeOK'
    <2> DEFINE q == MyBox(p)
    <2>1. proc[p] # NoCommand
      BY <1>15 DEF Docker, At
    <2>2. q \in Projects
      BY <2>1, ResolvedTypes DEF TypeOK, Commands, MyBox
    <2>3. UNCHANGED <<reg, broken, cred>>
      BY <1>15 DEF Docker
    <2>4. CASE UNCHANGED box /\ (Refuse(p) \/ Succeed(p))
      BY <2>1, <2>3, <2>4, RefuseTyped, SucceedTyped DEF TypeOK
    <2>5. CASE Recreate(p)
      BY <2>1, <2>2, <2>3, <2>5, RemovedTyped, GotoTyped DEF TypeOK, Recreate, Labels
    <2>6. CASE Down(p)
      BY <2>1, <2>2, <2>3, <2>6, RemovedTyped, SucceedTyped DEF TypeOK, Down
    <2>7. CASE Exists(q) /\ Restarts(q) /\ Succeed(p)
      BY <2>1, <2>2, <2>3, <2>7, RestartsTyped, SucceedTyped DEF TypeOK
    <2>8. CASE /\ Exists(q) /\ Succeed(p)
               /\ Becomes(q, "stopped") \/ Becomes(q, "paused") \/ Becomes(q, "running")
      BY <2>1, <2>2, <2>3, <2>8, BecomesTyped, SucceedTyped DEF TypeOK
    <2>9. CASE KeepUp(p)
      BY <2>4, <2>7, <2>9 DEF KeepUp, Keeps
    <2>10. CASE ChangeState(p)
      BY <2>4, <2>7, <2>8, <2>10 DEF ChangeState, Holds
    <2> QED
      BY <1>15, <2>4, <2>5, <2>6, <2>9, <2>10 DEF Docker
  <1>16. ASSUME NEW p \in Procs, Boot(p)  PROVE TypeOK'
    <2> DEFINE q == MyBox(p)
    <2>1. proc[p] # NoCommand
      BY <1>16 DEF Boot, At
    <2>2. q \in Projects /\ proc[p].name \in Names
      BY <2>1, ResolvedTypes DEF TypeOK, Commands, MyBox
    <2>3. CASE \E status \in {"running", "stopped"} :
                 box' = [box EXCEPT ![q] = NewContainer(p, status)]
      <3>1. box' \in [Projects -> Containers \cup {NoContainer}]
        BY <2>1, <2>2, <2>3, NewContainerTyped DEF TypeOK
      <3> QED
        BY <1>16, <2>1, <2>2, <3>1, RefuseTyped DEF TypeOK, Boot
    <2>4. CASE UNCHANGED box /\ Refuse(p)
      BY <1>16, <2>1, <2>4, RefuseTyped DEF TypeOK, Boot
    <2> QED
      BY <1>16, <2>3, <2>4 DEF Boot
  <1>17. ASSUME NEW q \in Projects, Crash(q)  PROVE TypeOK'
    BY <1>17, BecomesTyped DEF TypeOK, Crash, Holds
  <1>18. ASSUME NEW q \in Projects, DockerResumes(q)  PROVE TypeOK'
    BY <1>18, RestartsTyped DEF TypeOK, DockerResumes, Holds
  <1>19. CASE UNCHANGED vars
    BY <1>19 DEF TypeOK, vars
  <1> QED
    BY <1>1, <1>2, <1>3, <1>4, <1>6, <1>7, <1>8, <1>9, <1>10, <1>11, <1>12, <1>13,
       <1>14, <1>15, <1>16, <1>17, <1>18, <1>19 DEF Next, Step

\* Every reachable state of the fleet is typed: the registry, the containers,
\* the commands in flight and what the operator was told.
THEOREM Typed == Spec => []TypeOK
  BY InitTyped, NextTyped, PTL DEF Spec

-----------------------------------------------------------------------------
(* Admission is inductive                                                  *)

Late == {"ps", "seam", "docker", "boot"}

\* A step after which no command knows or may do more than before, and no
\* container is new: labels move on within what was already admitted.
ProcsKept ==
    \A p \in Procs : proc'[p] # NoCommand =>
        /\ proc[p] # NoCommand
        /\ proc'[p].name = proc[p].name /\ proc'[p].repo = proc[p].repo
        /\ proc'[p].pc # "own" => proc[p].pc # "own"
        /\ proc'[p].pc \in Late => proc[p].pc \in Late

BoxesKept ==
    \A q \in Projects : box'[q] # NoContainer =>
        /\ box[q] # NoContainer
        /\ box'[q].owner = box[q].owner /\ box'[q].repo = box[q].repo
        /\ box'[q].mount = box[q].mount

LEMMA InitAdmission == Init => Admission
  BY DEF Init, Admission, Claimed, Exists

\* Such a step claims no home that was not claimed.
LEMMA ClaimsKept ==
  ASSUME ProcsKept, BoxesKept, NEW n \in Names, Claimed(n)'
  PROVE  Claimed(n)
  BY DEF ProcsKept, BoxesKept, Claimed, Exists

LEMMA KeptAdmission ==
  ASSUME Admission, ProcsKept, BoxesKept, UNCHANGED reg
  PROVE  Admission'
  <1>1. \A p \in Procs : proc'[p] # NoCommand =>
          /\ reg'[proc'[p].name] = proc'[p].repo
          /\ proc'[p].pc \in Late => ComposeAgrees(proc'[p].name, proc'[p].repo)
    BY DEF Admission, ProcsKept, Late
  <1>2. \A q \in Projects : Exists(q)' =>
          /\ reg'[box'[q].owner] = box'[q].repo
          /\ q = Project(box'[q].owner, box'[q].repo)
          /\ box'[q].mount = Home(box'[q].owner, box'[q].repo)
    BY DEF Admission, BoxesKept, Exists
  <1>3. \A n, m \in Names :
          Claimed(n)' /\ Claimed(m)' /\ n # m => HomeDir(n, reg'[n]) # HomeDir(m, reg'[m])
    BY ClaimsKept DEF Admission
  <1> QED
    BY <1>1, <1>2, <1>3, Zenon DEF Admission, Late

LEMMA EndKeeps ==
  ASSUME TypeOK, NEW p \in Procs, proc' = [proc EXCEPT ![p] = NoCommand]
  PROVE  ProcsKept
  BY DEF TypeOK, ProcsKept

LEMMA GotoKeeps ==
  ASSUME TypeOK, NEW p \in Procs, proc[p] # NoCommand, NEW label \in Labels, Goto(p, label),
         proc[p].pc # "own", label \in Late => proc[p].pc \in Late
  PROVE  ProcsKept
  BY DEF TypeOK, Goto, ProcsKept, Commands

LEMMA WroteKeeps ==
  ASSUME TypeOK, NEW p \in Procs, proc[p] # NoCommand, Wrote(p)
  PROVE  ProcsKept
  BY DEF TypeOK, Wrote, ProcsKept, Commands, Late

LEMMA AskedKeeps ==
  ASSUME TypeOK, NEW p \in Procs, proc[p] # NoCommand, NEW yes \in BOOLEAN,
         NEW label \in Labels,
         proc' = [proc EXCEPT ![p].pc = label,
                              ![p].acked = @ \/ yes,
                              ![p].asked = MyDesc(p).hook],
         proc[p].pc # "own", label \in Late => proc[p].pc \in Late
  PROVE  ProcsKept
  BY DEF TypeOK, ProcsKept, Commands

LEMMA BoxLemma ==
  ASSUME TypeOK, NEW q \in Projects,
         \/ UNCHANGED box
         \/ box' = [box EXCEPT ![q] = NoContainer]
         \/ Exists(q) /\ Restarts(q)
         \/ \E status \in {"running", "paused", "restarting", "stopped"} :
              Exists(q) /\ Becomes(q, status)
  PROVE  BoxesKept
  BY DEF TypeOK, BoxesKept, Exists, Restarts, Becomes, Containers

LEMMA MissKeeps ==
  ASSUME TypeOK, NEW what \in {"credential", "home"}, NEW boxes \in SUBSET Projects,
         \A q \in boxes : Exists(q), Miss(what, boxes)
  PROVE  BoxesKept
  BY DEF TypeOK, BoxesKept, Exists, Miss, Containers

\* A name that runs a command or owns a container has its row.
LEMMA RowsHold ==
  ASSUME TypeOK, Admission
  PROVE  /\ \A p \in Procs : proc[p] # NoCommand =>
               proc[p].name \in Names /\ proc[p].repo \in Repos /\ reg[proc[p].name] \in Repos
         /\ \A q \in Projects : Exists(q) => box[q].owner \in Names /\ reg[box[q].owner] \in Repos
         /\ \A n \in Names : Claimed(n) => reg[n] \in Repos
  <1>1. \A p \in Procs : proc[p] # NoCommand =>
          proc[p].name \in Names /\ proc[p].repo \in Repos /\ reg[proc[p].name] = proc[p].repo
    BY DEF TypeOK, Commands, Admission
  <1>2. \A q \in Projects : Exists(q) =>
          box[q].owner \in Names /\ box[q].repo \in Repos /\ reg[box[q].owner] = box[q].repo
    BY DEF TypeOK, Containers, Admission, Exists
  <1> QED
    BY <1>1, <1>2 DEF Claimed

\* Editing the row of a name that has none, or that is retired, touches nobody.
LEMMA EditAdmission ==
  ASSUME TypeOK, Admission, NEW n \in Names, NEW r \in Repos \cup {NoRepo},
         reg[n] # NoRepo => Retired(n), reg' = [reg EXCEPT ![n] = r],
         UNCHANGED <<box, proc>>
  PROVE  Admission'
  <1>1. \A p \in Procs : proc[p] # NoCommand => proc[p].name # n
    BY FactsHold, RowsHold DEF Facts, Retired
  <1>2. \A q \in Projects : Exists(q) => box[q].owner # n
    BY FactsHold, RowsHold DEF Facts, Retired
  <1>3. \A m \in Names : m # n => reg'[m] = reg[m]
    BY DEF TypeOK, Registries
  <1>4. \A m \in Names : Claimed(m)' => Claimed(m) /\ m # n
    BY <1>1, <1>2 DEF Claimed, Exists
  <1>5. \A p \in Procs : proc'[p] # NoCommand =>
          /\ reg'[proc'[p].name] = proc'[p].repo
          /\ proc'[p].pc \in Late => ComposeAgrees(proc'[p].name, proc'[p].repo)
    BY <1>1, <1>3, RowsHold DEF Admission, Late
  <1>6. \A q \in Projects : Exists(q)' =>
          /\ reg'[box'[q].owner] = box'[q].repo
          /\ q = Project(box'[q].owner, box'[q].repo)
          /\ box'[q].mount = Home(box'[q].owner, box'[q].repo)
    BY <1>2, <1>3, RowsHold DEF Admission, Exists
  <1>7. \A m1, m2 \in Names :
          Claimed(m1)' /\ Claimed(m2)' /\ m1 # m2 => HomeDir(m1, reg'[m1]) # HomeDir(m2, reg'[m2])
    BY <1>3, <1>4 DEF Admission
  <1> QED
    BY <1>5, <1>6, <1>7, Zenon DEF Admission, Late

\* require_own_home lets a command through: nobody who was let through before
\* has its directory.
LEMMA OwnHomeAdmission ==
  ASSUME TypeOK, Admission, NEW p \in Procs, At(p, "own"), NEW label \in {"write", "guard"},
         OwnHome(reg, broken, proc[p].name, proc[p].repo), Goto(p, label),
         UNCHANGED <<reg, box>>
  PROVE  Admission'
  <1> DEFINE n == proc[p].name
  <1>1. proc[p] # NoCommand /\ n \in Names /\ reg[n] = proc[p].repo
    BY RowsHold DEF At, Admission
  <1>2. \A s \in Procs : proc'[s] # NoCommand =>
          /\ proc[s] # NoCommand
          /\ proc'[s].name = proc[s].name /\ proc'[s].repo = proc[s].repo
          /\ s # p => proc'[s] = proc[s]
          /\ s = p => proc'[s].pc = label
    BY <1>1 DEF TypeOK, Goto, Commands
  <1>3. \A m \in Names : Claimed(m)' => Claimed(m) \/ m = n
    BY <1>2 DEF Claimed, Exists
  <1>4. \A m \in Names : m # n /\ Claimed(m) => HomeDir(m, reg[m]) # HomeDir(n, reg[n])
    BY <1>1, RowsHold, FactsHold DEF OwnHome, NobodyElseClaims, Facts
  <1>5. \A s \in Procs : proc'[s] # NoCommand =>
          /\ reg'[proc'[s].name] = proc'[s].repo
          /\ proc'[s].pc \in Late => ComposeAgrees(proc'[s].name, proc'[s].repo)
    BY <1>2 DEF Admission, Late
  <1>6. \A q \in Projects : Exists(q)' =>
          /\ reg'[box'[q].owner] = box'[q].repo
          /\ q = Project(box'[q].owner, box'[q].repo)
          /\ box'[q].mount = Home(box'[q].owner, box'[q].repo)
    BY DEF Admission, Exists
  <1>7. \A m1, m2 \in Names :
          Claimed(m1)' /\ Claimed(m2)' /\ m1 # m2 => HomeDir(m1, reg'[m1]) # HomeDir(m2, reg'[m2])
    BY <1>3, <1>4 DEF Admission
  <1> QED
    BY <1>5, <1>6, <1>7, Zenon DEF Admission, Late

\* resolve_guard lets a command through: what it would mount is its home.
LEMMA GuardAdmission ==
  ASSUME TypeOK, Admission, NEW p \in Procs, At(p, "guard"), NEW label \in Labels,
         ComposeAgrees(proc[p].name, proc[p].repo), Goto(p, label), UNCHANGED <<reg, box>>
  PROVE  Admission'
  <1>1. proc[p] # NoCommand /\ proc[p].pc # "own"
    BY DEF At
  <1>2. \A s \in Procs : proc'[s] # NoCommand =>
          /\ proc[s] # NoCommand
          /\ proc'[s].name = proc[s].name /\ proc'[s].repo = proc[s].repo
          /\ s # p => proc'[s] = proc[s]
          /\ proc'[s].pc # "own" => proc[s].pc # "own"
    BY <1>1 DEF TypeOK, Goto, Commands
  <1>3. \A m \in Names : Claimed(m)' => Claimed(m)
    BY <1>2 DEF Claimed, Exists
  <1>4. \A s \in Procs : proc'[s] # NoCommand =>
          /\ reg'[proc'[s].name] = proc'[s].repo
          /\ proc'[s].pc \in Late => ComposeAgrees(proc'[s].name, proc'[s].repo)
    BY <1>2 DEF Admission, Late
  <1>5. \A q \in Projects : Exists(q)' =>
          /\ reg'[box'[q].owner] = box'[q].repo
          /\ q = Project(box'[q].owner, box'[q].repo)
          /\ box'[q].mount = Home(box'[q].owner, box'[q].repo)
    BY DEF Admission, Exists
  <1>6. \A m1, m2 \in Names :
          Claimed(m1)' /\ Claimed(m2)' /\ m1 # m2 => HomeDir(m1, reg'[m1]) # HomeDir(m2, reg'[m2])
    BY <1>3 DEF Admission
  <1> QED
    BY <1>4, <1>5, <1>6, Zenon DEF Admission, Late

\* A command that begins has claimed nothing yet.
LEMMA BeginAdmission ==
  ASSUME TypeOK, Admission, NEW p \in Procs, NEW op \in Ops, NEW n \in Names, Begin(p, op, n)
  PROVE  Admission'
  <1>1. \A s \in Procs : s # p => proc'[s] = proc[s]
    BY DEF Begin, TypeOK
  <1>2. proc'[p] # NoCommand => proc'[p].pc = "own" /\ proc'[p].name = n /\ proc'[p].repo = reg[n]
    BY DEF Begin, TypeOK
  <1>3. UNCHANGED <<reg, box>>
    BY DEF Begin
  <1>4. \A m \in Names : Claimed(m)' => Claimed(m)
    BY <1>1, <1>2, <1>3 DEF Claimed, Exists
  <1>5. \A s \in Procs : proc'[s] # NoCommand =>
          /\ reg'[proc'[s].name] = proc'[s].repo
          /\ proc'[s].pc \in Late => ComposeAgrees(proc'[s].name, proc'[s].repo)
    BY <1>1, <1>2, <1>3 DEF Admission, Late
  <1>6. \A q \in Projects : Exists(q)' =>
          /\ reg'[box'[q].owner] = box'[q].repo
          /\ q = Project(box'[q].owner, box'[q].repo)
          /\ box'[q].mount = Home(box'[q].owner, box'[q].repo)
    BY <1>3 DEF Admission, Exists
  <1>7. \A m1, m2 \in Names :
          Claimed(m1)' /\ Claimed(m2)' /\ m1 # m2 => HomeDir(m1, reg'[m1]) # HomeDir(m2, reg'[m2])
    BY <1>3, <1>4 DEF Admission
  <1> QED
    BY <1>5, <1>6, <1>7, Zenon DEF Admission, Late

\* The container a command creates belongs to the name it was admitted under.
LEMMA BootAdmission ==
  ASSUME TypeOK, Admission, NEW p \in Procs, At(p, "boot"),
         NEW status \in {"running", "stopped"},
         box' = [box EXCEPT ![MyBox(p)] = NewContainer(p, status)],
         proc' = [proc EXCEPT ![p] = NoCommand], UNCHANGED reg
  PROVE  Admission'
  <1> DEFINE n == proc[p].name
             r == proc[p].repo
             q == MyBox(p)
  <1>1. proc[p] # NoCommand /\ n \in Names /\ r \in Repos /\ reg[n] = r /\ Claimed(n)
    BY RowsHold DEF At, Admission, Claimed
  <1>2. q \in Projects /\ q = Project(n, r)
    BY <1>1, ResolvedTypes DEF MyBox
  <1>3. Mount(n, r) = Home(n, r)
    BY <1>1 DEF Admission, ComposeAgrees, At
  <1>4. /\ box'[q].owner = n /\ box'[q].repo = r /\ box'[q].mount = Home(n, r)
        /\ \A k \in Projects : k # q => box'[k] = box[k]
    BY <1>2, <1>3 DEF NewContainer, TypeOK
  <1>5. \A s \in Procs : proc'[s] # NoCommand => proc'[s] = proc[s]
    BY DEF TypeOK
  <1>6. \A m \in Names : Claimed(m)' => Claimed(m)
    BY <1>1, <1>4, <1>5 DEF Claimed, Exists
  <1>7. \A s \in Procs : proc'[s] # NoCommand =>
          /\ reg'[proc'[s].name] = proc'[s].repo
          /\ proc'[s].pc \in Late => ComposeAgrees(proc'[s].name, proc'[s].repo)
    BY <1>5 DEF Admission, Late
  <1>8. \A k \in Projects : Exists(k)' =>
          /\ reg'[box'[k].owner] = box'[k].repo
          /\ k = Project(box'[k].owner, box'[k].repo)
          /\ box'[k].mount = Home(box'[k].owner, box'[k].repo)
    BY <1>1, <1>2, <1>4 DEF Admission, Exists
  <1>9. \A m1, m2 \in Names :
          Claimed(m1)' /\ Claimed(m2)' /\ m1 # m2 => HomeDir(m1, reg'[m1]) # HomeDir(m2, reg'[m2])
    BY <1>6 DEF Admission
  <1> QED
    BY <1>7, <1>8, <1>9, Zenon DEF Admission, Late

\* One case per action of Next.
LEMMA NextAdmission ==
  ASSUME TypeOK, Admission, [Next]_vars
  PROVE  Admission'
  <1>1. ASSUME NEW n \in Names, NEW r \in Repos, Register(n, r)  PROVE Admission'
    BY <1>1, EditAdmission DEF Register
  <1>2. ASSUME NEW n \in Names, Unregister(n)  PROVE Admission'
    BY <1>2, EditAdmission DEF Unregister
  <1>3. ASSUME UNCHANGED <<reg, box, proc>>  PROVE Admission'
    <2>1. ProcsKept /\ BoxesKept
      BY <1>3 DEF ProcsKept, BoxesKept
    <2> QED
      BY <1>3, <2>1, KeptAdmission
  <1>4. ASSUME NEW p \in Procs, NEW op \in Ops, NEW n \in Names, Begin(p, op, n)
        PROVE  Admission'
    BY <1>4, BeginAdmission
  <1>5. ASSUME NEW p \in Procs, proc[p] # NoCommand, BoxesKept, UNCHANGED reg,
               Refuse(p) \/ Succeed(p)
        PROVE  Admission'
    BY <1>5, EndKeeps, KeptAdmission DEF Refuse, Succeed
  <1>6. ASSUME UNCHANGED box  PROVE BoxesKept
    BY <1>6 DEF BoxesKept
  <1>7. ASSUME NEW p \in Procs, RequireOwnHome(p)  PROVE Admission'
    BY <1>5, <1>6, <1>7, OwnHomeAdmission DEF RequireOwnHome, At
  <1>8. ASSUME NEW p \in Procs, ResolveGuard(p)  PROVE Admission'
    BY <1>5, <1>6, <1>8, GuardAdmission DEF ResolveGuard, At, Labels
  <1>9. ASSUME NEW p \in Procs, AskFirst(p)  PROVE Admission'
    BY <1>5, <1>6, <1>9, AskedKeeps, KeptAdmission DEF AskFirst, At, Labels, Late
  <1>10. ASSUME NEW p \in Procs, RequireRunning(p)  PROVE Admission'
    BY <1>5, <1>6, <1>10, GotoKeeps, KeptAdmission DEF RequireRunning, At, Labels, Late
  <1>11. ASSUME NEW p \in Procs, ReloadIfRunning(p)  PROVE Admission'
    BY <1>5, <1>6, <1>11, GotoKeeps, KeptAdmission DEF ReloadIfRunning, At, Labels, Late
  <1>12. ASSUME NEW p \in Procs, Transition(p)  PROVE Admission'
    BY <1>5, <1>6, <1>12, AskedKeeps, KeptAdmission DEF Transition, At, Labels, Late
  <1>13. ASSUME NEW p \in Procs, Fail(p)  PROVE Admission'
    BY <1>5, <1>6, <1>13 DEF Fail
  <1>14. ASSUME NEW p \in Procs, Mint(p)  PROVE Admission'
    <2>1. proc[p] # NoCommand /\ UNCHANGED reg
      BY <1>14 DEF Mint, At
    <2>2. BoxesKept
      BY <1>14, <1>6, MissKeeps DEF Mint, CredentialOf
    <2>3. CASE Wrote(p)
      BY <2>1, <2>2, <2>3, WroteKeeps, KeptAdmission
    <2>4. CASE proc' = [proc EXCEPT ![p] = NoCommand]
      BY <2>1, <2>2, <2>4, EndKeeps, KeptAdmission
    <2> QED
      BY <1>14, <2>3, <2>4 DEF Mint, Refuse, Abort
  <1>15. ASSUME NEW p \in Procs, WriteDotenv(p) \/ SignIn(p) \/ Install(p)
         PROVE Admission'
    <2>1. proc[p] # NoCommand /\ UNCHANGED reg
      BY <1>15 DEF WriteDotenv, SignIn, Install, At
    <2>2. BoxesKept
      BY <1>15, <1>6, MissKeeps DEF WriteDotenv, SignIn, Install, HomeIn
    <2>3. CASE Wrote(p)
      BY <2>1, <2>2, <2>3, WroteKeeps, KeptAdmission
    <2>4. CASE Abort(p)
      BY <2>1, <2>2, <2>4, EndKeeps, KeptAdmission DEF Abort
    <2> QED
      BY <1>5, <1>15, <2>1, <2>2, <2>3, <2>4 DEF WriteDotenv, SignIn, Install
  <1>16. ASSUME NEW p \in Procs, Docker(p)  PROVE Admission'
    <2> DEFINE q == MyBox(p)
    <2>1. proc[p] # NoCommand /\ proc[p].pc = "docker" /\ UNCHANGED reg
      BY <1>16 DEF Docker, At
    <2>2. q \in Projects
      BY <2>1, ResolvedTypes DEF TypeOK, Commands, MyBox
    <2>3. CASE Recreate(p)
      <3>1. BoxesKept
        BY <2>2, <2>3, BoxLemma DEF Recreate
      <3>2. ProcsKept
        BY <2>1, <2>3, GotoKeeps DEF Recreate, Labels, Late
      <3> QED
        BY <2>1, <3>1, <3>2, KeptAdmission
    <2>4. CASE Down(p)
      BY <1>5, <2>1, <2>2, <2>4, BoxLemma DEF Down
    <2>5. CASE KeepUp(p)
      BY <1>5, <2>1, <2>2, <2>5, BoxLemma DEF KeepUp, Keeps
    <2>6. CASE ChangeState(p)
      BY <1>5, <2>1, <2>2, <2>6, BoxLemma DEF ChangeState, Holds
    <2>7. CASE UNCHANGED box /\ Refuse(p)
      BY <1>5, <1>6, <2>1, <2>7
    <2> QED
      BY <1>16, <2>3, <2>4, <2>5, <2>6, <2>7 DEF Docker
  <1>17. ASSUME NEW p \in Procs, Boot(p)  PROVE Admission'
    BY <1>5, <1>6, <1>17, BootAdmission DEF Boot, Refuse, At
  <1>18. ASSUME NEW q \in Projects, Crash(q) \/ DockerResumes(q)  PROVE Admission'
    <2>1. BoxesKept
      BY <1>18, BoxLemma DEF Crash, DockerResumes, Holds
    <2>2. ProcsKept /\ UNCHANGED reg
      BY <1>18 DEF Crash, DockerResumes, ProcsKept
    <2> QED
      BY <2>1, <2>2, KeptAdmission
  <1>19. ASSUME NEW r \in Repos, Break(r) \/ Repair(r)  PROVE Admission'
    BY <1>3, <1>19 DEF Break, Repair
  <1>20. CASE UNCHANGED vars
    BY <1>3, <1>20 DEF vars
  <1> QED
    BY <1>1, <1>2, <1>4, <1>7, <1>8, <1>9, <1>10, <1>11, <1>12, <1>13, <1>14, <1>15,
       <1>16, <1>17, <1>18, <1>19, <1>20 DEF Next, Step

\* What admission promises the gateways.
LEMMA AdmissionExcludes ==
  ASSUME TypeOK, Admission
  PROVE  OneGatewayPerHome
  <1>1. SUFFICES ASSUME NEW q1 \in Projects, NEW q2 \in Projects, Exists(q1), Exists(q2),
                        Dir[box[q1].mount] = Dir[box[q2].mount]
                 PROVE  q1 = q2
    BY DEF OneGatewayPerHome, Gateway, Holds
  <1>2. /\ box[q1].owner \in Names /\ box[q2].owner \in Names
        /\ Claimed(box[q1].owner) /\ Claimed(box[q2].owner)
    BY <1>1, RowsHold DEF Claimed
  <1>3. box[q1].owner = box[q2].owner
    BY <1>1, <1>2 DEF Admission, HomeDir
  <1> QED
    BY <1>1, <1>3 DEF Admission

\* The rows a command or a container was admitted under stay, and no two names
\* that were let through require_own_home ever share a directory.
THEOREM Admitted == Spec => []Admission
  BY InitTyped, NextTyped, InitAdmission, NextAdmission, PTL DEF Spec

\* No interleaving of commands, registry edits and broken repositories starts
\* a second gateway against a home, provided the operator takes a name's
\* container down and lets its commands end before its row is changed.
THEOREM HomesExclusive == Spec => []OneGatewayPerHome
  BY Typed, Admitted, AdmissionExcludes, PTL

-----------------------------------------------------------------------------
(* Containers, and what a gateway may have missed.                          *)

Consent(p) ==
    /\ MyDesc(p).live => proc[p].acked
    /\ MyDesc(p).hook => proc[p].asked

\* Where a command stands that has been asked and may act on it; deploy has no
\* other way to its write than through the question.
ConsentHeld ==
    \A p \in Procs :
        /\ At(p, "docker") => Consent(p)
        /\ At(p, "write") /\ proc[p].op = "deploy" => Consent(p)
        /\ At(p, "running") => proc[p].op # "deploy"

Identified == \A p \in Procs : At(p, "docker") => Ours(p)

\* Commands run one at a time, or no two names can share a Compose project.
Apart ==
    \/ \A p, s \in Procs : p = s
    \/ \A n, m \in Names, r, s \in Repos : Project(n, r) = Project(m, s) => n = m

-----------------------------------------------------------------------------
(* Whoever acts on a container stands at Docker                            *)

LEMMA EndConsent ==
  ASSUME TypeOK, ConsentHeld, NEW p \in Procs, proc' = [proc EXCEPT ![p] = NoCommand]
  PROVE  ConsentHeld'
  BY DEF TypeOK, ConsentHeld, Consent, At, MyDesc

LEMMA GotoConsent ==
  ASSUME TypeOK, ConsentHeld, NEW p \in Procs, proc[p] # NoCommand, NEW label \in Labels,
         Goto(p, label), label # "docker", label \in {"write", "running"} => proc[p].op # "deploy"
  PROVE  ConsentHeld'
  BY DEF TypeOK, ConsentHeld, Consent, At, MyDesc, Goto, Commands

LEMMA WroteConsent ==
  ASSUME TypeOK, ConsentHeld, NEW p \in Procs, proc[p] # NoCommand, Wrote(p)
  PROVE  ConsentHeld'
  BY DEF TypeOK, ConsentHeld, Consent, At, MyDesc, Wrote, Commands

\* What AskFirst and Transition record when they let a command go on.
Asked(p, label, yes) ==
    proc' = [proc EXCEPT ![p].pc = label,
                         ![p].acked = @ \/ yes,
                         ![p].asked = MyDesc(p).hook]

LEMMA AskedKnown ==
  ASSUME TypeOK, NEW p \in Procs, proc[p] # NoCommand, NEW yes \in BOOLEAN,
         NEW label \in Labels,
         Asked(p, label, yes)
  PROVE  /\ proc'[p].pc = label /\ proc'[p].acked = (proc[p].acked \/ yes)
         /\ proc'[p].asked = MyDesc(p).hook
         /\ proc'[p].op = proc[p].op /\ proc'[p].name = proc[p].name
         /\ proc'[p].repo = proc[p].repo /\ proc'[p].wrote = proc[p].wrote
         /\ \A s \in Procs : s # p => proc'[s] = proc[s]
  <1>1. proc[p] \in Commands
    BY DEF TypeOK
  <1>2. MyDesc(p).hook \in BOOLEAN
    BY <1>1, DescAssumption DEF MyDesc, Descriptors, Commands
  <1> DEFINE a == proc[p].acked \/ yes
             h == MyDesc(p).hook
  <1>3. a \in BOOLEAN
    BY SMT
  <1>4. h \in BOOLEAN
    BY <1>2, Zenon
  <1> HIDE DEF a, h
  <1>5. proc'[p] = [proc[p] EXCEPT !.pc = label, !.acked = a, !.asked = h]
    BY Zenon DEF TypeOK, Asked, a, h
  <1>6. /\ proc'[p].pc = label /\ proc'[p].acked = a /\ proc'[p].asked = h
        /\ proc'[p].op = proc[p].op /\ proc'[p].name = proc[p].name
        /\ proc'[p].repo = proc[p].repo /\ proc'[p].wrote = proc[p].wrote
    BY <1>1, <1>5, SMTT(30) DEF Commands
  <1>7. \A s \in Procs : s # p => proc'[s] = proc[s]
    BY Zenon DEF TypeOK, Asked
  <1> QED
    BY <1>6, <1>7, Zenon DEF a, h

LEMMA AskedStays ==
  ASSUME TypeOK, NEW p \in Procs, proc[p] # NoCommand, NEW yes \in BOOLEAN,
         NEW label \in Labels, Asked(p, label, yes)
  PROVE  proc'[p] # NoCommand
  <1>1. proc[p] \in Commands
    BY DEF TypeOK
  <1>2. MyDesc(p).hook \in BOOLEAN
    BY <1>1, DescAssumption DEF MyDesc, Descriptors, Commands
  <1>3. (proc[p].acked \/ yes) \in BOOLEAN
    OBVIOUS
  <1>4. [proc[p] EXCEPT !.pc = label, !.acked = proc[p].acked \/ yes, !.asked = MyDesc(p).hook]
          \in Commands
    BY <1>1, <1>2, <1>3, AskedRecord, Zenon
  <1>5. proc'[p] = [proc[p] EXCEPT !.pc = label, !.acked = proc[p].acked \/ yes,
                                   !.asked = MyDesc(p).hook]
    BY Zenon DEF TypeOK, Asked
  <1> QED
    BY <1>4, <1>5, FactsHold, Zenon DEF Facts

\* confirm_transition said yes and the hook did not object.
LEMMA AskedConsent ==
  ASSUME TypeOK, ConsentHeld, NEW p \in Procs, proc[p] # NoCommand, NEW yes \in BOOLEAN,
         NEW label \in Labels, label # "running", Confirmed(p, yes),
         Asked(p, label, yes)
  PROVE  ConsentHeld'
  <1>1. /\ proc'[p].pc = label /\ proc'[p].repo = proc[p].repo
        /\ proc'[p].acked = (proc[p].acked \/ yes)
        /\ proc'[p].asked = MyDesc(p).hook
    <2>1. proc'[p].pc = label /\ proc'[p].repo = proc[p].repo
      BY AskedKnown, Zenon
    <2>2. proc'[p].acked = (proc[p].acked \/ yes)
      BY AskedKnown, Zenon
    <2>3. proc'[p].asked = MyDesc(p).hook
      BY AskedKnown, Zenon
    <2> QED
      BY <2>1, <2>2, <2>3, Zenon
  <1>2. Consent(p)'
    BY <1>1, Zenon DEF Consent, Confirmed, MyDesc
  <1>3. \A s \in Procs : s # p => proc'[s] = proc[s]
    BY AskedKnown, Zenon
  <1>4. ASSUME NEW s \in Procs, s # p
        PROVE  /\ At(s, "docker")' => Consent(s)'
               /\ At(s, "write")' /\ proc'[s].op = "deploy" => Consent(s)'
               /\ At(s, "running")' => proc'[s].op # "deploy"
    BY <1>3, <1>4, Zenon DEF ConsentHeld, Consent, At, MyDesc
  <1>5. ~At(p, "running")'
    BY <1>1 DEF At
  <1> QED
    BY <1>2, <1>4, <1>5, Zenon DEF ConsentHeld

LEMMA InitConsent == Init => ConsentHeld
  BY DEF Init, ConsentHeld, At

\* One case per action of Next.
LEMMA NextConsent ==
  ASSUME TypeOK, ConsentHeld, [Next]_vars
  PROVE  ConsentHeld'
  <1>1. ASSUME UNCHANGED proc  PROVE ConsentHeld'
    BY <1>1 DEF ConsentHeld, Consent, At, MyDesc
  <1>2. ASSUME NEW p \in Procs, Refuse(p) \/ Succeed(p) \/ Abort(p)  PROVE ConsentHeld'
    BY <1>2, EndConsent DEF Refuse, Succeed, Abort
  <1>3. ASSUME NEW p \in Procs, NEW op \in Ops, NEW n \in Names, Begin(p, op, n)
        PROVE  ConsentHeld'
    <2>1. \A s \in Procs : s # p => proc'[s] = proc[s]
      BY <1>3 DEF Begin, TypeOK
    <2>2. proc'[p].pc = "own"
      BY <1>3 DEF Begin, TypeOK
    <2> QED
      BY <2>1, <2>2 DEF ConsentHeld, Consent, At, MyDesc
  <1>4. ASSUME NEW p \in Procs, RequireOwnHome(p)  PROVE ConsentHeld'
    BY <1>2, <1>4, GotoConsent DEF RequireOwnHome, At, Labels
  <1>5. ASSUME NEW p \in Procs, ResolveGuard(p)  PROVE ConsentHeld'
    BY <1>2, <1>5, GotoConsent DEF ResolveGuard, At, Labels
  <1>6. ASSUME NEW p \in Procs, AskFirst(p)  PROVE ConsentHeld'
    BY <1>2, <1>6, AskedConsent DEF AskFirst, Asked, At, Labels
  <1>7. ASSUME NEW p \in Procs, RequireRunning(p)  PROVE ConsentHeld'
    <2>1. proc[p].op # "deploy"
      BY <1>7 DEF RequireRunning, ConsentHeld
    <2> QED
      BY <1>2, <1>7, <2>1, GotoConsent DEF RequireRunning, At, Labels
  <1>8. ASSUME NEW p \in Procs, ReloadIfRunning(p)  PROVE ConsentHeld'
    BY <1>2, <1>8, GotoConsent DEF ReloadIfRunning, At, Labels
  <1>9. ASSUME NEW p \in Procs, Transition(p)  PROVE ConsentHeld'
    BY <1>2, <1>9, AskedConsent DEF Transition, Asked, At, Labels
  <1>10. ASSUME NEW p \in Procs, Fail(p)  PROVE ConsentHeld'
    BY <1>2, <1>10 DEF Fail
  <1>11. ASSUME NEW p \in Procs, Mint(p) \/ WriteDotenv(p) \/ SignIn(p) \/ Install(p)
         PROVE  ConsentHeld'
    BY <1>2, <1>11, WroteConsent DEF Mint, WriteDotenv, SignIn, Install, At
  <1>12. ASSUME NEW p \in Procs, Docker(p)  PROVE ConsentHeld'
    BY <1>2, <1>12, GotoConsent
       DEF Docker, At, Labels, Recreate, KeepUp, Down, ChangeState
  <1>13. ASSUME NEW p \in Procs, Boot(p)  PROVE ConsentHeld'
    BY <1>13, EndConsent DEF Boot, Refuse
  <1>14. CASE UNCHANGED proc
    BY <1>1, <1>14
  <1> QED
    BY <1>3, <1>4, <1>5, <1>6, <1>7, <1>8, <1>9, <1>10, <1>11, <1>12, <1>13, <1>14
       DEF Next, Step, Register, Unregister, Break, Repair, Crash, DockerResumes, vars

\* Only its own step moves a command.
OnlyMoves(p) == \A s \in Procs : s # p => proc'[s] = proc[s]

LEMMA StepMoves ==
  ASSUME TypeOK, NEW p \in Procs, Step(p) \/ Fail(p)
  PROVE  OnlyMoves(p)
  <1>1. ASSUME \/ Refuse(p) \/ Succeed(p) \/ Abort(p) \/ Wrote(p)
               \/ \E label \in Labels : Goto(p, label)
        PROVE  OnlyMoves(p)
    BY <1>1 DEF TypeOK, Refuse, Succeed, Abort, Wrote, Goto, OnlyMoves
  <1>2. ASSUME NEW label \in Labels, NEW yes \in BOOLEAN, Asked(p, label, yes)
        PROVE  OnlyMoves(p)
    BY <1>2, Zenon DEF TypeOK, Asked, OnlyMoves
  <1>3. CASE RequireOwnHome(p) \/ ResolveGuard(p) \/ RequireRunning(p) \/ ReloadIfRunning(p)
    BY <1>1, <1>3
       DEF RequireOwnHome, ResolveGuard, RequireRunning, ReloadIfRunning, Labels
  <1>4. CASE AskFirst(p) \/ Transition(p)
    BY <1>1, <1>2, <1>4 DEF AskFirst, Transition, Asked, Labels
  <1>5. CASE Mint(p) \/ WriteDotenv(p) \/ SignIn(p) \/ Install(p) \/ Fail(p)
    BY <1>1, <1>5 DEF Mint, WriteDotenv, SignIn, Install, Fail
  <1>6. CASE Docker(p)
    BY <1>1, <1>6 DEF Docker, Recreate, KeepUp, Down, ChangeState, Labels
  <1>7. CASE Boot(p)
    <2>1. proc' = [proc EXCEPT ![p] = NoCommand]
      BY <1>7 DEF Boot, Refuse
    <2> QED
      BY <2>1 DEF TypeOK, OnlyMoves
  <1> QED
    BY <1>3, <1>4, <1>5, <1>6, <1>7 DEF Step

\* What Docker does for a command, it does to the container of its project.
LEMMA DockerTouches ==
  ASSUME TypeOK, NEW p \in Procs, Docker(p), NEW q \in Projects, box'[q] # box[q]
  PROVE  q = MyBox(p)
  BY DEF Docker, Recreate, KeepUp, Down, ChangeState, Becomes, Restarts, TypeOK

LEMMA DisturberAtDocker ==
  ASSUME TypeOK, [Next]_vars, NEW p \in Procs, NEW q \in Projects, Disturbs(p, q)
  PROVE  At(p, "docker") /\ q = MyBox(p)
  <1>1. /\ proc'[p] # proc[p] /\ box[q] # NoContainer
        /\ box'[q] = NoContainer \/ box'[q].status # box[q].status
    BY DEF Disturbs, Exists
  <1>2. PICK s \in Procs : Step(s) \/ Fail(s)
    <2>1. ASSUME NEW s \in Procs, NEW op \in Ops, NEW n \in Names, Begin(s, op, n)
          PROVE  FALSE
      BY <1>1, <2>1 DEF Begin
    <2> QED
      BY <1>1, <2>1
         DEF Next, Register, Unregister, Break, Repair, Crash, DockerResumes, vars
  <1>3. s = p
    BY <1>1, <1>2, StepMoves DEF OnlyMoves
  <1>4. ASSUME UNCHANGED box  PROVE FALSE
    BY <1>1, <1>4
  <1>5. ASSUME NEW what \in {"credential", "home"}, NEW boxes, Miss(what, boxes)
        PROVE  FALSE
    <2>1. box[q] \in Containers
      BY <1>1 DEF TypeOK
    <2>2. CASE q \in boxes
      <3>1. box'[q] = [box[q] EXCEPT !.missed = @ \cup {what}]
        BY <1>5, <2>2 DEF Miss
      <3>2. box'[q] \in Containers /\ box'[q].status = box[q].status
        BY <2>1, <3>1 DEF Containers
      <3> QED
        BY <1>1, <3>2, FactsHold DEF Facts
    <2>3. CASE q \notin boxes
      BY <1>1, <1>5, <2>3 DEF Miss
    <2> QED
      BY <2>2, <2>3
  <1>6. CASE \/ RequireOwnHome(p) \/ ResolveGuard(p) \/ AskFirst(p) \/ RequireRunning(p)
             \/ ReloadIfRunning(p) \/ Transition(p) \/ Fail(p)
    BY <1>4, <1>6 DEF RequireOwnHome, ResolveGuard, AskFirst, RequireRunning,
                      ReloadIfRunning, Transition, Fail
  <1>7. CASE Mint(p) \/ WriteDotenv(p) \/ SignIn(p) \/ Install(p)
    BY <1>4, <1>5, <1>7 DEF Mint, WriteDotenv, SignIn, Install
  <1>8. CASE Boot(p)
    <2>1. UNCHANGED box \/ (~Exists(MyBox(p))
            /\ \E status \in {"running", "stopped"} :
                 box' = [box EXCEPT ![MyBox(p)] = NewContainer(p, status)])
      BY <1>8 DEF Boot
    <2>2. MyBox(p) # q => UNCHANGED box[q]
      BY <2>1 DEF TypeOK
    <2> QED
      BY <1>1, <2>1, <2>2 DEF Exists
  <1>9. CASE Docker(p)
    BY <1>1, <1>9, DockerTouches DEF Docker
  <1> QED
    BY <1>2, <1>3, <1>6, <1>7, <1>8, <1>9 DEF Step

-----------------------------------------------------------------------------
(* Consent                                                                 *)

\* Nobody stops, starts or replaces the container of a live or guarded agent,
\* and no deploy writes its home, without the acknowledgement and the hook's
\* leave, both given after whatever this command wrote last.
THEOREM AlwaysConsented == Spec => Consented
  <1>1. ASSUME TypeOK, ConsentHeld, [Next]_vars, NEW p \in Procs,
               \/ \E q \in Projects : Disturbs(p, q)
               \/ At(p, "write") /\ proc[p].op = "deploy" /\ Wrote(p)
        PROVE  Consent(p)
    BY <1>1, DisturberAtDocker DEF ConsentHeld
  <1>2. TypeOK /\ ConsentHeld /\ [Next]_vars =>
          [\A p \in Procs :
             (\/ \E q \in Projects : Disturbs(p, q)
              \/ At(p, "write") /\ proc[p].op = "deploy" /\ Wrote(p))
             => /\ MyDesc(p).live => proc[p].acked
                /\ MyDesc(p).hook => proc[p].asked]_vars
    BY <1>1, Zenon DEF Consent
  <1>3. Spec => []ConsentHeld
    BY Typed, InitConsent, NextConsent, PTL DEF Spec
  <1> QED
    BY <1>2, <1>3, Typed, PTL DEF Spec, Consented

-----------------------------------------------------------------------------
(* A command knows the container it acts on                                *)

\* When no two names share a project, the container of one's project is one's
\* own whatever other commands do.
LEMMA SeparateIdentified ==
  ASSUME TypeOK, Admission,
         \A n, m \in Names, r, s \in Repos : Project(n, r) = Project(m, s) => n = m
  PROVE  Identified
  <1>1. SUFFICES ASSUME NEW p \in Procs, At(p, "docker"), Exists(MyBox(p))
                 PROVE  Dir[box[MyBox(p)].mount] = MyHome(p)
    BY DEF Identified, Ours
  <1> DEFINE q == MyBox(p)
  <1>2. proc[p].name \in Names /\ proc[p].repo \in Repos /\ reg[proc[p].name] = proc[p].repo
    BY <1>1, RowsHold DEF At, Admission
  <1>3. q \in Projects /\ q = Project(proc[p].name, proc[p].repo)
    BY <1>2, ResolvedTypes DEF MyBox
  <1>4. /\ box[q].owner \in Names /\ box[q].repo \in Repos
        /\ reg[box[q].owner] = box[q].repo
        /\ q = Project(box[q].owner, box[q].repo)
        /\ box[q].mount = Home(box[q].owner, box[q].repo)
    BY <1>1, <1>3 DEF TypeOK, Containers, Admission, Exists
  <1>5. box[q].owner = proc[p].name
    BY <1>2, <1>3, <1>4
  <1> QED
    BY <1>2, <1>4, <1>5 DEF MyHome, HomeDir

LEMMA InitIdentified == Init => Identified
  BY DEF Init, Identified, At

\* The only way to Docker leads through require_container_ours.
LEMMA ArrivesIdentified ==
  ASSUME TypeOK, NEW p \in Procs, Step(p) \/ Fail(p), At(p, "docker")'
  PROVE  Ours(p)'
  <1>1. ASSUME \/ Refuse(p) \/ Succeed(p) \/ Abort(p) \/ Wrote(p)
               \/ \E label \in Labels : label # "docker" /\ Goto(p, label)
               \/ \E label \in Labels, yes \in BOOLEAN : label # "docker" /\ Asked(p, label, yes)
               \/ proc' = [proc EXCEPT ![p] = NoCommand],
               proc[p] # NoCommand
        PROVE  FALSE
    <2>1. proc'[p] = NoCommand \/ proc'[p].pc # "docker"
      <3>1. CASE Refuse(p) \/ Succeed(p) \/ Abort(p) \/ proc' = [proc EXCEPT ![p] = NoCommand]
        BY <3>1 DEF Refuse, Succeed, Abort, TypeOK
      <3>2. CASE Wrote(p)
        BY <1>1, <3>2 DEF Wrote, TypeOK, Commands
      <3>3. CASE \E label \in Labels : label # "docker" /\ Goto(p, label)
        BY <1>1, <3>3 DEF Goto, TypeOK, Commands
      <3>4. CASE \E label \in Labels, yes \in BOOLEAN : label # "docker" /\ Asked(p, label, yes)
        BY <1>1, <3>4, AskedKnown
      <3> QED
        BY <1>1, <3>1, <3>2, <3>3, <3>4
    <2> QED
      BY <2>1 DEF At
  <1>2. proc[p] # NoCommand
    BY DEF Step, Fail, RequireOwnHome, ResolveGuard, AskFirst, RequireRunning, Mint, WriteDotenv,
           SignIn, Install, ReloadIfRunning, Transition, Docker, Boot, At
  <1>3. Transition(p)
    <2>1. CASE RequireOwnHome(p) \/ ResolveGuard(p) \/ RequireRunning(p) \/ ReloadIfRunning(p)
      BY <1>1, <1>2, <2>1
         DEF RequireOwnHome, ResolveGuard, RequireRunning, ReloadIfRunning, Labels
    <2>2. CASE AskFirst(p)
      BY <1>1, <1>2, <2>2 DEF AskFirst, Asked, Labels
    <2>3. CASE Mint(p) \/ WriteDotenv(p) \/ SignIn(p) \/ Install(p) \/ Fail(p)
      BY <1>1, <1>2, <2>3 DEF Mint, WriteDotenv, SignIn, Install, Fail
    <2>4. CASE Docker(p)
      BY <1>1, <1>2, <2>4 DEF Docker, Recreate, KeepUp, Down, ChangeState, Labels
    <2>5. CASE Boot(p)
      <3>1. proc' = [proc EXCEPT ![p] = NoCommand]
        BY <2>5 DEF Boot, Refuse
      <3> QED
        BY <1>1, <1>2, <3>1
    <2> QED
      BY <2>1, <2>2, <2>3, <2>4, <2>5 DEF Step
  <1>4. Ours(p) /\ \E yes \in BOOLEAN : Asked(p, "docker", yes)
    BY <1>1, <1>2, <1>3 DEF Transition, Asked
  <1>5. UNCHANGED box /\ proc'[p].name = proc[p].name /\ proc'[p].repo = proc[p].repo
    BY <1>2, <1>3, <1>4, AskedKnown DEF Transition, Labels
  <1> QED
    BY <1>4, <1>5 DEF Ours, MyBox, MyHome, Exists

\* With one command at a time nothing moves between the check and Docker but
\* gateways that exit and come back, which changes no mount.
LEMMA AloneIdentified ==
  ASSUME TypeOK, Identified, [Next]_vars, \A p, s \in Procs : p = s
  PROVE  Identified'
  <1>1. SUFFICES ASSUME NEW p \in Procs, At(p, "docker")'  PROVE Ours(p)'
    BY DEF Identified
  <1>2. CASE Step(p) \/ Fail(p)
    BY <1>1, <1>2, ArrivesIdentified
  <1>3. CASE \E op \in Ops, n \in Names : Begin(p, op, n)
    <2>1. proc'[p].pc = "own"
      BY <1>3 DEF Begin, TypeOK
    <2> QED
      BY <1>1, <2>1 DEF At
  <1>4. CASE UNCHANGED proc /\ BoxesKept
    <2>1. Ours(p) /\ MyBox(p)' = MyBox(p) /\ MyHome(p)' = MyHome(p)
      BY <1>1, <1>4 DEF Identified, At, MyBox, MyHome
    <2>2. MyBox(p) \in Projects
      BY <1>1, <1>4, ResolvedTypes DEF At, MyBox, TypeOK, Commands
    <2> QED
      BY <1>4, <2>1, <2>2 DEF Ours, BoxesKept, Exists
  <1>5. ASSUME UNCHANGED <<box, proc>>  PROVE Ours(p)'
    BY <1>4, <1>5 DEF BoxesKept
  <1>6. ASSUME NEW q \in Projects, Crash(q) \/ DockerResumes(q)  PROVE Ours(p)'
    BY <1>4, <1>6, BoxLemma DEF Crash, DockerResumes, Holds
  <1> QED
    BY <1>2, <1>3, <1>5, <1>6 DEF Next, Register, Unregister, Break, Repair, vars

\* compose acts only on a container that require_container_ours has let pass.
THEOREM AlwaysIdentified == ASSUME Apart PROVE Spec => []Identified
  <1>1. CASE \A p, s \in Procs : p = s
    <2>1. TypeOK /\ Identified /\ [Next]_vars => Identified'
      BY <1>1, AloneIdentified
    <2> QED
      BY <2>1, InitIdentified, Typed, PTL DEF Spec
  <1>2. CASE \A n, m \in Names, r, s \in Repos : Project(n, r) = Project(m, s) => n = m
    <2>1. TypeOK /\ Admission => Identified
      BY <1>2, SeparateIdentified
    <2> QED
      BY <2>1, Typed, Admitted, PTL
  <1> QED
    BY <1>1, <1>2 DEF Apart

\* Whatever stops, starts or removes a container does so to one that mounts
\* the home of the agent it was run for.
THEOREM ActsOnItsOwn == ASSUME Apart PROVE Spec => OnlyOwnContainer
  <1>1. ASSUME TypeOK, Identified, [Next]_vars, NEW p \in Procs, NEW q \in Projects,
               Disturbs(p, q)
        PROVE  Dir[box[q].mount] = MyHome(p)
    BY <1>1, DisturberAtDocker DEF Identified, Ours, Disturbs
  <1>2. TypeOK /\ Identified /\ [Next]_vars =>
          [\A p \in Procs, q \in Projects :
             Disturbs(p, q) => Dir[box[q].mount] = MyHome(p)]_vars
    BY <1>1, Zenon
  <1> QED
    BY <1>2, Typed, AlwaysIdentified, PTL DEF Spec, OnlyOwnContainer

-----------------------------------------------------------------------------
(* What a running gateway has missed                                       *)

Covered(n) == Reloading(n) \/ n \in told

\* CredentialFresh and HomeFresh are this, for "credential" and for "home".
Fresh(what) == \A q \in Projects : Unread(q, what) => Covered(box[q].owner)

\* A revoked credential is on file only after an activate that said so.
DeadTold == \A n \in Names : cred[n] = "dead" => n \in told

\* Nothing waits between two crashes.
Settled == \A q \in Projects : Exists(q) => box[q].status # "restarting"

LEMMA InitFresh == ASSUME NEW what, Init PROVE Fresh(what) /\ DeadTold /\ Settled
  BY DEF Init, Fresh, DeadTold, Settled, Unread, Holds, Exists

\* A command that ends with an error leaves nobody uncovered.
LEMMA RefuseCovers ==
  ASSUME TypeOK, NEW p \in Procs, proc[p] # NoCommand, Refuse(p) \/ Abort(p), NEW n \in Names,
         Covered(n)
  PROVE  Covered(n)'
  <1>1. CASE n \in told
    BY <1>1 DEF Refuse, Abort, Covered
  <1>2. CASE Reloading(n)
    <2>1. PICK s \in Procs : proc[s] # NoCommand /\ proc[s].name = n /\ proc[s].wrote
      BY <1>2 DEF Reloading
    <2>2. CASE s = p
      BY <2>1, <2>2 DEF Refuse, Abort, Covered
    <2>3. CASE s # p
      BY <2>1, <2>3 DEF Refuse, Abort, Covered, Reloading, TypeOK
    <2> QED
      BY <2>2, <2>3
  <1> QED
    BY <1>1, <1>2 DEF Covered

\* Nor does one that has nothing to reload.
LEMMA SucceedCovers ==
  ASSUME TypeOK, NEW p \in Procs, Succeed(p), NEW n \in Names, Covered(n),
         proc[p] # NoCommand => ~proc[p].wrote \/ proc[p].name # n
  PROVE  Covered(n)'
  BY DEF TypeOK, Succeed, Covered, Reloading

\* Nor does one that goes on.
LEMMA MoveCovers ==
  ASSUME TypeOK, NEW p \in Procs, UNCHANGED told, NEW n \in Names, Covered(n),
         OnlyMoves(p), proc[p] # NoCommand, proc'[p] # NoCommand,
         proc'[p].name = proc[p].name, proc[p].wrote => proc'[p].wrote
  PROVE  Covered(n)'
  BY DEF OnlyMoves, Covered, Reloading

\* A step after which no gateway has missed more and nobody is uncovered.
LEMMA GentleStep ==
  ASSUME TypeOK, NEW what, Fresh(what),
         \A q \in Projects : Unread(q, what)' => Unread(q, what) /\ box'[q].owner = box[q].owner,
         \A n \in Names : Covered(n) => Covered(n)'
  PROVE  Fresh(what)'
  BY DEF Fresh, Unread, Holds, Exists, TypeOK, Containers

LEMMA GotoMoves ==
  ASSUME TypeOK, NEW p \in Procs, proc[p] # NoCommand, UNCHANGED told,
         \/ Wrote(p)
         \/ \E label \in Labels : Goto(p, label)
         \/ \E label \in Labels, yes \in BOOLEAN : Asked(p, label, yes),
         NEW n \in Names, Covered(n)
  PROVE  Covered(n)'
  <1>1. proc[p] \in Commands
    BY DEF TypeOK
  <1>2. CASE Wrote(p) \/ \E label \in Labels : Goto(p, label)
    <2>1. /\ OnlyMoves(p) /\ proc'[p].name = proc[p].name
          /\ proc[p].wrote => proc'[p].wrote
          /\ proc'[p] \in Commands
      BY <1>1, <1>2 DEF Wrote, Goto, TypeOK, Commands, OnlyMoves, Labels
    <2> QED
      BY <2>1, MoveCovers, FactsHold DEF Facts
  <1>3. ASSUME NEW label \in Labels, NEW yes \in BOOLEAN, Asked(p, label, yes)
        PROVE  Covered(n)'
    <2>1. /\ OnlyMoves(p) /\ proc'[p].name = proc[p].name /\ proc'[p].wrote = proc[p].wrote
          /\ proc'[p] # NoCommand
      BY <1>3, AskedKnown, AskedStays DEF OnlyMoves
    <2> QED
      BY <2>1, MoveCovers
  <1> QED
    BY <1>2, <1>3

\* A name has its container under one project only.
LEMMA OwnProject ==
  ASSUME TypeOK, Admission, NEW p \in Procs, proc[p] # NoCommand, NEW q \in Projects, Exists(q),
         box[q].owner = proc[p].name
  PROVE  q = MyBox(p)
  BY DEF Admission, MyBox

\* Two containers, or a container and a command past require_own_home, that
\* share a directory are one agent's.
LEMMA OwnDirectory ==
  ASSUME TypeOK, Admission, NEW p \in Procs, proc[p] # NoCommand, proc[p].pc # "own",
         NEW q \in Projects, Exists(q), Dir[box[q].mount] = MyHome(p)
  PROVE  box[q].owner = proc[p].name /\ box[q].repo = proc[p].repo
  <1>1. /\ proc[p].name \in Names /\ Claimed(proc[p].name)
        /\ reg[proc[p].name] = proc[p].repo
    BY RowsHold DEF Claimed, Admission
  <1>2. /\ box[q].owner \in Names /\ Claimed(box[q].owner)
        /\ reg[box[q].owner] = box[q].repo /\ box[q].mount = Home(box[q].owner, box[q].repo)
    BY RowsHold DEF Claimed, Admission
  <1>3. HomeDir(box[q].owner, reg[box[q].owner]) = HomeDir(proc[p].name, reg[proc[p].name])
    BY <1>1, <1>2 DEF HomeDir, MyHome
  <1>4. box[q].owner = proc[p].name
    BY <1>1, <1>2, <1>3 DEF Admission
  <1> QED
    BY <1>1, <1>2, <1>4

LEMMA SameBoxes ==
  ASSUME TypeOK, NEW what, Fresh(what), UNCHANGED box,
         \A n \in Names : Covered(n) => Covered(n)'
  PROVE  Fresh(what)'
  <1>1. \A q \in Projects : Unread(q, what)' => Unread(q, what) /\ box'[q].owner = box[q].owner
    BY DEF Unread, Holds, Exists
  <1> QED
    BY <1>1, GentleStep

\* A write: whoever missed it is covered.
LEMMA MissFresh ==
  ASSUME TypeOK, NEW what, Fresh(what), NEW w \in {"credential", "home"},
         NEW boxes \in SUBSET Projects, \A q \in boxes : Exists(q), Miss(w, boxes),
         \A n \in Names : Covered(n) \/ (\E q \in boxes : box[q].owner = n) => Covered(n)'
  PROVE  Fresh(what)'
  <1>1. SUFFICES ASSUME NEW q \in Projects, Unread(q, what)',
                        NEW n \in Names, n = box'[q].owner
                 PROVE  Covered(n)'
    <2>1. \A q \in Projects : Unread(q, what)' => box'[q].owner \in Names
      <3>1. box' \in [Projects -> Containers \cup {NoContainer}]
        BY MissTyped
      <3> QED
        BY <3>1 DEF Unread, Holds, Exists, Containers
    <2> QED
      BY <2>1 DEF Fresh
  <1>2. CASE q \in boxes
    <2>1. box[q] \in Containers
      BY <1>2 DEF TypeOK, Exists
    <2>2. box'[q].owner = box[q].owner
      BY <1>2, <2>1 DEF Miss, Containers
    <2> QED
      BY <1>1, <1>2, <2>2
  <1>3. CASE q \notin boxes
    <2>1. box'[q] = box[q]
      BY <1>3 DEF Miss
    <2>2. Unread(q, what)
      BY <1>1, <2>1 DEF Unread, Holds, Exists
    <2>3. Covered(n)
      BY <1>1, <2>1, <2>2 DEF Fresh
    <2> QED
      BY <2>3
  <1> QED
    BY <1>2, <1>3

\* The write of a command that goes on to reload, or fails aloud.
LEMMA WriterCovers ==
  ASSUME TypeOK, NEW p \in Procs, proc[p] # NoCommand, (Wrote(p) /\ UNCHANGED told) \/ Abort(p),
         NEW n \in Names, Covered(n) \/ n = proc[p].name
  PROVE  Covered(n)'
  <1>1. CASE Wrote(p) /\ UNCHANGED told
    <2>1. proc[p] \in Commands
      BY DEF TypeOK
    <2>2. proc'[p] \in Commands /\ proc'[p].name = proc[p].name /\ proc'[p].wrote
      BY <1>1, <2>1 DEF Wrote, TypeOK, Commands, Labels
    <2>3. CASE n = proc[p].name
      BY <2>2, <2>3, FactsHold DEF Covered, Reloading, Facts
    <2>4. CASE Covered(n)
      BY <1>1, <2>4, GotoMoves
    <2> QED
      BY <2>3, <2>4
  <1>2. CASE Abort(p)
    <2>1. CASE n = proc[p].name
      BY <1>2, <2>1 DEF Abort, Covered
    <2>2. CASE Covered(n)
      BY <1>2, <2>2, RefuseCovers
    <2> QED
      BY <2>1, <2>2
  <1> QED
    BY <1>1, <1>2

LEMMA MintFresh ==
  ASSUME TypeOK, NEW what, Fresh(what), DeadTold, NEW p \in Procs, Mint(p)
  PROVE  Fresh(what)' /\ DeadTold'
  <1> DEFINE n == proc[p].name
  <1>1. proc[p] # NoCommand /\ n \in Names
    BY DEF Mint, At, TypeOK, Commands
  <1>2. ASSUME Miss("credential", CredentialOf(n)),
               (Wrote(p) /\ UNCHANGED told) \/ Abort(p)
        PROVE  Fresh(what)'
    <2>1. /\ CredentialOf(n) \in SUBSET Projects
          /\ \A q \in CredentialOf(n) : Exists(q) /\ box[q].owner = n
      BY DEF CredentialOf
    <2>2. \A m \in Names : Covered(m) \/ m = n => Covered(m)'
      BY <1>1, <1>2, WriterCovers
    <2> QED
      BY <1>2, <2>1, <2>2, MissFresh
  <1>3. ASSUME Refuse(p), UNCHANGED box  PROVE Fresh(what)'
    BY <1>1, <1>3, RefuseCovers, SameBoxes
  <1>4. Fresh(what)'
    BY <1>2, <1>3 DEF Mint
  <1>5. told \subseteq told'
    BY DEF Mint, Abort, Refuse
  <1>6. DeadTold'
    <2>1. CASE cred' = [cred EXCEPT ![n] = "live"] \/ UNCHANGED cred
      BY <1>5, <2>1 DEF DeadTold, TypeOK
    <2>2. CASE cred' = [cred EXCEPT ![n] = "dead"] /\ Abort(p)
      BY <1>5, <2>2 DEF DeadTold, TypeOK, Abort
    <2> QED
      BY <2>1, <2>2 DEF Mint
  <1> QED
    BY <1>4, <1>6

LEMMA HomeWriteFresh ==
  ASSUME TypeOK, Admission, NEW what, Fresh(what), NEW p \in Procs,
         WriteDotenv(p) \/ SignIn(p) \/ Install(p)
  PROVE  Fresh(what)'
  <1>1. proc[p] # NoCommand /\ proc[p].pc # "own"
    BY DEF WriteDotenv, SignIn, Install, At
  <1>2. CASE Miss("home", HomeIn(MyHome(p))) /\ ((Wrote(p) /\ UNCHANGED told) \/ Abort(p))
    <2>1. \A q \in HomeIn(MyHome(p)) : box[q].owner = proc[p].name
      BY <1>1, OwnDirectory DEF HomeIn
    <2> QED
      BY <1>1, <1>2, <2>1, WriterCovers, MissFresh DEF HomeIn
  <1>3. CASE Refuse(p) /\ UNCHANGED box
    BY <1>1, <1>3, RefuseCovers, GentleStep DEF Unread, Holds, Exists
  <1> QED
    BY <1>2, <1>3 DEF WriteDotenv, SignIn, Install

\* A command may leave without a reload when its container does not run.
LEMMA ReloadFresh ==
  ASSUME TypeOK, Admission, NEW what, Fresh(what), NEW p \in Procs, ReloadIfRunning(p)
  PROVE  Fresh(what)'
  <1>1. proc[p] # NoCommand /\ UNCHANGED box
    BY DEF ReloadIfRunning, At
  <1>2. CASE Goto(p, "seam") /\ UNCHANGED told
    BY <1>1, <1>2, GotoMoves, GentleStep DEF Unread, Holds, Exists, Labels
  <1>3. CASE ~Holds(MyBox(p), {"running"}) /\ Succeed(p)
    <2>1. SUFFICES ASSUME NEW q \in Projects, Unread(q, what),
                          NEW n \in Names, n = box[q].owner
                   PROVE  Covered(n)'
      BY <1>1, RowsHold DEF Fresh, Unread, Holds, Exists
    <2>2. Exists(q) /\ q # MyBox(p)
      BY <1>3, <2>1 DEF Unread, Holds
    <2>3. n # proc[p].name
      BY <1>1, <2>1, <2>2, OwnProject
    <2> QED
      BY <1>3, <2>1, <2>3, SucceedCovers DEF Fresh
  <1> QED
    BY <1>2, <1>3 DEF ReloadIfRunning

\* Docker changes one container, which is then gone, at rest, or of the legacy
\* contract, and the verbs that end there are those of a command that wrote
\* nothing.
LEMMA DockerFresh ==
  ASSUME TypeOK, Admission, Identified, NEW what, Fresh(what), NEW p \in Procs, Docker(p)
  PROVE  Fresh(what)'
  <1>1. /\ proc[p] # NoCommand /\ proc[p].pc = "docker" /\ At(p, "docker")
        /\ proc[p] \in Commands
    BY DEF Docker, At, TypeOK
  <1>2. PICK k \in Projects : k = MyBox(p)
    BY <1>1, ResolvedTypes DEF MyBox, Commands
  <1>3. Exists(k) => box[k].repo = proc[p].repo
    BY <1>1, <1>2, OwnDirectory DEF Identified, Ours
  <1>4. ASSUME \A n \in Names : Covered(n) => Covered(n)',
               \A q \in Projects : q # k => box'[q] = box[q],
               \/ box'[k] = NoContainer
               \/ Exists(k) /\ box'[k].repo = box[k].repo /\ ~Current(p)
               \/ box'[k].status # "running"
        PROVE  Fresh(what)'
    <2>1. ~Unread(k, what)'
      BY <1>3, <1>4 DEF Unread, Holds, Exists, Current, MyDesc
    <2>2. \A q \in Projects :
            Unread(q, what)' => Unread(q, what) /\ box'[q].owner = box[q].owner
      BY <1>4, <2>1 DEF Unread, Holds, Exists
    <2> QED
      BY <1>4, <2>2, GentleStep
  <1>5. \A q \in Projects : q # k => box'[q] = box[q]
    BY <1>2, DockerTouches
  <1>6. ASSUME NEW n \in Names, Covered(n), Refuse(p)  PROVE Covered(n)'
    BY <1>1, <1>6, RefuseCovers
  <1>7. ASSUME NEW n \in Names, Covered(n), Succeed(p), Verb(p) # "restart"
        PROVE  Covered(n)'
    BY <1>7, SucceedCovers DEF Verb
  <1>8. CASE UNCHANGED box /\ Refuse(p)
    BY <1>6, <1>8, SameBoxes
  <1>9. CASE Recreate(p)
    <2>1. \A n \in Names : Covered(n) => Covered(n)'
      BY <1>1, <1>9, GotoMoves DEF Recreate, Labels
    <2>2. box'[k] = NoContainer
      BY <1>2, <1>9 DEF Recreate, TypeOK
    <2> QED
      BY <1>4, <1>5, <2>1, <2>2
  <1>10. CASE Down(p)
    <2>1. \A n \in Names : Covered(n) => Covered(n)'
      BY <1>7, <1>10 DEF Down
    <2>2. box'[k] = NoContainer
      BY <1>2, <1>10 DEF Down, TypeOK
    <2> QED
      BY <1>4, <1>5, <2>1, <2>2
  <1>11. ASSUME Exists(k), Becomes(k, "stopped") \/ Becomes(k, "paused") \/ Becomes(k, "running")
                           \/ Restarts(k)
         PROVE  /\ box'[k].repo = box[k].repo
                /\ (Becomes(k, "stopped") \/ Becomes(k, "paused")) => box'[k].status # "running"
    <2>1. box[k] \in Containers
      BY <1>2, <1>11 DEF TypeOK, Exists
    <2> QED
      BY <1>2, <1>11, <2>1 DEF Becomes, Restarts, TypeOK, Containers
  <1>12. CASE KeepUp(p)
    <2>1. Exists(k) /\ ~Current(p) /\ Verb(p) # "restart"
      BY <1>2, <1>12 DEF KeepUp, Keeps
    <2>2. \A n \in Names : Covered(n) => Covered(n)'
      BY <1>6, <1>7, <1>12, <2>1 DEF KeepUp
    <2>3. box'[k].repo = box[k].repo
      BY <1>2, <1>11, <1>12, <2>1 DEF KeepUp
    <2> QED
      BY <1>4, <1>5, <2>1, <2>2, <2>3
  <1>13. CASE ChangeState(p) /\ ComposeAllows(p)
    <2>1. Verb(p) # "restart"
      BY <1>13 DEF ChangeState, Resumes
    <2>2. CASE Exists(k) /\ Succeed(p) /\ (Becomes(k, "stopped") \/ Becomes(k, "paused"))
      BY <1>4, <1>5, <1>7, <1>11, <2>1, <2>2
    <2>3. CASE /\ Exists(k) /\ Succeed(p) /\ Verb(p) \in Resumes
               /\ Becomes(k, "running") \/ Restarts(k)
      <3>1. ~Current(p)
        BY <1>13, <2>3 DEF ComposeAllows
      <3> QED
        BY <1>4, <1>5, <1>7, <1>11, <2>1, <2>3, <3>1
    <2>4. \/ UNCHANGED box /\ Refuse(p)
          \/ /\ Exists(k) /\ Succeed(p)
             /\ \/ Becomes(k, "stopped") \/ Becomes(k, "paused")
                \/ Verb(p) \in Resumes /\ (Becomes(k, "running") \/ Restarts(k))
      BY <1>2, <1>13 DEF ChangeState, Holds
    <2> QED
      BY <1>8, <2>2, <2>3, <2>4
  <1> QED
    BY <1>8, <1>9, <1>10, <1>12, <1>13 DEF Docker

\* A new gateway has read what is there; a revoked credential on file is one
\* the operator knows of.
LEMMA BootFresh ==
  ASSUME TypeOK, Admission, DeadTold, NEW what, Fresh(what), NEW p \in Procs, Boot(p)
  PROVE  Fresh(what)' /\ DeadTold'
  <1>1. proc[p] # NoCommand /\ proc[p] \in Commands
    BY DEF Boot, At, TypeOK
  <1>2. PICK k \in Projects : k = MyBox(p)
    BY <1>1, ResolvedTypes DEF MyBox, Commands
  <1>3. PICK n \in Names : n = proc[p].name
    BY <1>1 DEF Commands
  <1>4. CASE UNCHANGED box /\ Refuse(p)
    <2>1. Fresh(what)'
      BY <1>1, <1>4, RefuseCovers, SameBoxes
    <2> QED
      BY <1>4, <2>1 DEF Boot, Refuse, DeadTold
  <1>5. ASSUME NEW status \in {"running", "stopped"}, ~Exists(k),
               box' = [box EXCEPT ![k] = NewContainer(p, status)]
        PROVE  /\ box'[k].owner = n /\ box'[k].status = status
               /\ what \in box'[k].missed => cred[n] = "dead"
               /\ \A q \in Projects : q # k => box'[q] = box[q]
               /\ \A q \in Projects : q # k /\ Exists(q) => box[q].owner # n
    BY <1>1, <1>2, <1>3, <1>5, OwnProject DEF NewContainer, TypeOK
  <1>6. CASE /\ ~Exists(k) /\ box' = [box EXCEPT ![k] = NewContainer(p, "running")]
             /\ proc' = [proc EXCEPT ![p] = NoCommand]
             /\ told' = (IF cred[n] = "dead" THEN told ELSE told \ {n})
    <2>1. SUFFICES ASSUME NEW q \in Projects, Unread(q, what)', NEW m \in Names, m = box'[q].owner
                   PROVE  Covered(m)'
      <3>1. box' \in [Projects -> Containers \cup {NoContainer}]
        BY <1>1, <1>2, <1>6, NewContainerTyped DEF TypeOK
      <3>2. \A q \in Projects : Unread(q, what)' => box'[q].owner \in Names
        BY <3>1 DEF Unread, Holds, Exists, Containers
      <3>3. DeadTold'
        BY <1>6 DEF Boot, DeadTold
      <3> QED
        BY <3>2, <3>3 DEF Fresh
    <2>2. CASE q = k
      <3>1. cred[n] = "dead" /\ m = n
        BY <1>5, <1>6, <2>1, <2>2 DEF Unread
      <3> QED
        BY <1>6, <3>1 DEF DeadTold, Covered
    <2>3. CASE q # k
      <3>1. box'[q] = box[q]
        BY <1>5, <1>6, <2>3
      <3>2. Unread(q, what) /\ m = box[q].owner
        BY <2>1, <3>1 DEF Unread, Holds, Exists
      <3>3. m # n
        BY <1>5, <1>6, <2>3, <3>2 DEF Unread, Holds
      <3>4. CASE m \in told
        BY <1>6, <3>3, <3>4 DEF Covered
      <3>5. CASE Reloading(m)
        <4>1. PICK s \in Procs : proc[s] # NoCommand /\ proc[s].name = m /\ proc[s].wrote
          BY <3>5 DEF Reloading
        <4>2. proc'[s] = proc[s]
          BY <1>3, <1>6, <3>3, <4>1 DEF TypeOK
        <4> QED
          BY <4>1, <4>2 DEF Covered, Reloading
      <3> QED
        BY <3>2, <3>4, <3>5 DEF Fresh, Covered
    <2> QED
      BY <2>2, <2>3
  <1>7. CASE /\ ~Exists(k) /\ box' = [box EXCEPT ![k] = NewContainer(p, "stopped")]
             /\ Refuse(p)
    <2>1. \A q \in Projects :
            Unread(q, what)' => Unread(q, what) /\ box'[q].owner = box[q].owner
      BY <1>5, <1>7 DEF Unread, Holds, Exists
    <2>2. Fresh(what)'
      BY <1>1, <1>7, <2>1, RefuseCovers, GentleStep
    <2> QED
      BY <1>7, <2>2 DEF Boot, Refuse, DeadTold
  <1> QED
    BY <1>2, <1>3, <1>4, <1>6, <1>7 DEF Boot

\* Nothing but Mint changes a credential file, and nothing but Boot takes back
\* what an operator was told.
LEMMA OtherDeadTold ==
  ASSUME TypeOK, DeadTold, UNCHANGED cred, told \subseteq told'
  PROVE  DeadTold'
  BY DEF DeadTold

\* One case per action of Next.
LEMMA NextFresh ==
  ASSUME TypeOK, Admission, Identified, DeadTold, NEW what \in {"credential", "home"},
         Fresh(what), what = "credential" => Settled, [Next]_vars
  PROVE  Fresh(what)' /\ DeadTold'
  <1>1. ASSUME UNCHANGED <<box, proc, told, cred>>  PROVE Fresh(what)' /\ DeadTold'
    BY <1>1 DEF Fresh, Unread, Holds, Exists, Covered, Reloading, DeadTold
  <1>2. ASSUME UNCHANGED <<box, cred>>, NEW p \in Procs, proc[p] # NoCommand,
               \/ Refuse(p)
               \/ UNCHANGED told /\ \E label \in Labels : Goto(p, label)
               \/ UNCHANGED told /\ \E label \in Labels, yes \in BOOLEAN : Asked(p, label, yes)
        PROVE  Fresh(what)' /\ DeadTold'
    <2>1. \A n \in Names : Covered(n) => Covered(n)'
      BY <1>2, RefuseCovers, GotoMoves
    <2>2. told \subseteq told'
      BY <1>2 DEF Refuse
    <2> QED
      BY <1>2, <2>1, <2>2, SameBoxes, OtherDeadTold
  <1>3. ASSUME NEW p \in Procs, NEW op \in Ops, NEW n \in Names, Begin(p, op, n)
        PROVE  Fresh(what)' /\ DeadTold'
    <2>1. /\ \A s \in Procs : proc[s] # NoCommand => proc'[s] = proc[s]
          /\ UNCHANGED <<box, cred, told>>
      BY <1>3 DEF Begin, TypeOK
    <2>2. \A m \in Names : Covered(m) => Covered(m)'
      BY <2>1 DEF Covered, Reloading
    <2> QED
      BY <2>1, <2>2, SameBoxes, OtherDeadTold
  <1>4. ASSUME NEW p \in Procs, RequireOwnHome(p) \/ ResolveGuard(p) \/ RequireRunning(p)
        PROVE  Fresh(what)' /\ DeadTold'
    BY <1>2, <1>4 DEF RequireOwnHome, ResolveGuard, RequireRunning, At, Labels
  <1>5. ASSUME NEW p \in Procs, AskFirst(p) \/ Transition(p)
        PROVE  Fresh(what)' /\ DeadTold'
    BY <1>2, <1>5 DEF AskFirst, Transition, Asked, At, Labels
  <1>6. ASSUME NEW p \in Procs, Mint(p)  PROVE Fresh(what)' /\ DeadTold'
    BY <1>6, MintFresh
  <1>7. ASSUME NEW p \in Procs, WriteDotenv(p) \/ SignIn(p) \/ Install(p)
        PROVE  Fresh(what)' /\ DeadTold'
    <2>1. UNCHANGED cred /\ told \subseteq told'
      BY <1>7 DEF WriteDotenv, SignIn, Install, Abort, Refuse
    <2> QED
      BY <1>7, <2>1, HomeWriteFresh, OtherDeadTold
  <1>8. ASSUME NEW p \in Procs, ReloadIfRunning(p)  PROVE Fresh(what)' /\ DeadTold'
    <2>1. UNCHANGED cred /\ told \subseteq told'
      BY <1>8 DEF ReloadIfRunning, Succeed
    <2> QED
      BY <1>8, <2>1, ReloadFresh, OtherDeadTold
  <1>9. ASSUME NEW p \in Procs, Docker(p)  PROVE Fresh(what)' /\ DeadTold'
    <2>1. UNCHANGED cred /\ told \subseteq told'
      BY <1>9 DEF Docker, Recreate, KeepUp, Down, ChangeState, Refuse, Succeed
    <2> QED
      BY <1>9, <2>1, DockerFresh, OtherDeadTold
  <1>10. ASSUME NEW p \in Procs, Boot(p)  PROVE Fresh(what)' /\ DeadTold'
    BY <1>10, BootFresh
  <1>11. ASSUME NEW p \in Procs, Fail(p)  PROVE Fresh(what)' /\ DeadTold'
    BY <1>2, <1>11 DEF Fail
  <1>12. ASSUME NEW k \in Projects, Crash(k) \/ DockerResumes(k)
         PROVE  Fresh(what)' /\ DeadTold'
    <2>1. /\ Exists(k) /\ box[k] \in Containers /\ UNCHANGED <<proc, told, cred>>
          /\ \A q \in Projects : q # k => box'[q] = box[q]
      BY <1>12 DEF Crash, DockerResumes, Holds, Exists, Becomes, Restarts, TypeOK
    <2>2. ~Unread(k, what)'
      <3>1. CASE Crash(k)
        BY <2>1, <3>1 DEF Crash, Becomes, TypeOK, Containers, Unread, Holds
      <3>2. CASE DockerResumes(k)
        <4>1. what = "home"
          BY <2>1, <3>2 DEF Settled, DockerResumes, Holds
        <4>2. "home" \notin box'[k].missed
          BY <2>1, <3>2 DEF DockerResumes, Restarts, TypeOK, Containers
        <4> QED
          BY <4>1, <4>2 DEF Unread
      <3> QED
        BY <1>12, <3>1, <3>2
    <2>3. \A q \in Projects :
            Unread(q, what)' => Unread(q, what) /\ box'[q].owner = box[q].owner
      BY <2>1, <2>2 DEF Unread, Holds, Exists
    <2>4. \A n \in Names : Covered(n) => Covered(n)'
      BY <2>1 DEF Covered, Reloading
    <2> QED
      BY <2>1, <2>3, <2>4, GentleStep, OtherDeadTold
  <1> QED
    BY <1>1, <1>3, <1>4, <1>5, <1>6, <1>7, <1>8, <1>9, <1>10, <1>11, <1>12
       DEF Next, Step, Register, Unregister, Break, Repair, vars

\* Only a crash leaves a container restarting.
LEMMA NextSettled ==
  ASSUME TypeOK, Settled, Crashing = {}, [Next]_vars
  PROVE  Settled'
  <1>1. SUFFICES ASSUME NEW q \in Projects, Exists(q)'
                 PROVE  box'[q].status # "restarting"
    BY DEF Settled
  <1>2. ASSUME box'[q] = box[q]  PROVE box'[q].status # "restarting"
    BY <1>1, <1>2 DEF Settled, Exists
  <1>3. ASSUME NEW w, NEW boxes, Miss(w, boxes), \A k \in boxes : Exists(k)
        PROVE  box'[q].status # "restarting"
    <2>1. CASE q \in boxes
      <3>1. box[q] \in Containers /\ box[q].status # "restarting"
        BY <1>3, <2>1 DEF TypeOK, Exists, Settled
      <3> QED
        BY <1>3, <2>1, <3>1 DEF Miss, Containers
    <2> QED
      BY <1>2, <1>3, <2>1 DEF Miss
  <1>4. ASSUME NEW p \in Procs, Mint(p) \/ WriteDotenv(p) \/ SignIn(p) \/ Install(p)
        PROVE  box'[q].status # "restarting"
    BY <1>2, <1>3, <1>4 DEF Mint, WriteDotenv, SignIn, Install, CredentialOf, HomeIn
  <1>5. ASSUME NEW k \in Projects, Restarts(k) \/ Becomes(k, "stopped") \/ Becomes(k, "paused")
                                    \/ Becomes(k, "running"), Exists(k)
        PROVE  box'[q].status # "restarting"
    <2>1. CASE q # k
      BY <1>2, <1>5, <2>1 DEF Restarts, Becomes, TypeOK
    <2>2. CASE q = k
      <3>1. box[q] \in Containers
        BY <1>5, <2>2 DEF TypeOK, Exists
      <3> QED
        BY <1>5, <2>2, <3>1 DEF Restarts, Becomes, TypeOK, Containers
    <2> QED
      BY <2>1, <2>2
  <1>6. ASSUME NEW p \in Procs, Docker(p)  PROVE box'[q].status # "restarting"
    <2>1. PICK k \in Projects : k = MyBox(p)
      BY <1>6, ResolvedTypes DEF Docker, At, TypeOK, MyBox, Commands
    <2>2. CASE UNCHANGED box
      BY <1>2, <2>2
    <2>3. CASE Recreate(p) \/ Down(p)
      <3>1. box' = [box EXCEPT ![k] = NoContainer]
        BY <2>1, <2>3 DEF Recreate, Down
      <3> QED
        BY <1>1, <1>2, <3>1 DEF TypeOK, Exists
    <2>4. CASE KeepUp(p)
      BY <1>5, <2>1, <2>2, <2>4 DEF KeepUp, Keeps
    <2>5. CASE ChangeState(p)
      BY <1>5, <2>1, <2>2, <2>5 DEF ChangeState, Holds
    <2> QED
      BY <1>6, <2>2, <2>3, <2>4, <2>5 DEF Docker
  <1>7. ASSUME NEW p \in Procs, Boot(p)  PROVE box'[q].status # "restarting"
    BY <1>2, <1>7 DEF Boot, NewContainer, TypeOK
  <1>8. ASSUME NEW k \in Projects, DockerResumes(k)  PROVE box'[q].status # "restarting"
    BY <1>5, <1>8 DEF DockerResumes, Holds
  <1>9. ASSUME UNCHANGED box  PROVE box'[q].status # "restarting"
    BY <1>2, <1>9
  <1> QED
    BY <1>4, <1>6, <1>7, <1>8, <1>9
       DEF Next, Step, Register, Unregister, Break, Repair, Begin, Crash, Fail, RequireOwnHome,
           ResolveGuard, AskFirst, RequireRunning, ReloadIfRunning, Transition, vars

-----------------------------------------------------------------------------
\* No gateway keeps a revoked credential unless the command that minted the
\* new one is still at work or told its operator that it failed, provided no
\* gateway is caught between two crashes.
THEOREM CredentialsFresh == ASSUME Apart, Crashing = {} PROVE Spec => []CredentialFresh
  <1>1. Init => Fresh("credential") /\ DeadTold /\ Settled
    BY InitFresh
  <1>2. TypeOK /\ Settled /\ [Next]_vars => Settled'
    BY NextSettled
  <1>3. TypeOK /\ Admission /\ Identified /\ Settled /\ Fresh("credential") /\ DeadTold
          /\ [Next]_vars => Fresh("credential")' /\ DeadTold'
    BY NextFresh
  <1>4. Fresh("credential") => CredentialFresh
    BY DEF Fresh, CredentialFresh, Covered
  <1> QED
    BY <1>1, <1>2, <1>3, <1>4, Typed, Admitted, AlwaysIdentified, PTL DEF Spec

\* The same for the home, crashes included: a gateway that comes back reads it.
THEOREM HomesFresh == ASSUME Apart PROVE Spec => []HomeFresh
  <1>1. Init => Fresh("home") /\ DeadTold
    BY InitFresh
  <1>2. TypeOK /\ Admission /\ Identified /\ Fresh("home") /\ DeadTold /\ [Next]_vars
          => Fresh("home")' /\ DeadTold'
    BY NextFresh
  <1>3. Fresh("home") => HomeFresh
    BY DEF Fresh, HomeFresh, Covered
  <1> QED
    BY <1>1, <1>2, <1>3, Typed, Admitted, AlwaysIdentified, PTL DEF Spec
=============================================================================
