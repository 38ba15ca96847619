---------------------------- MODULE BackupsProofs -----------------------------
(***************************************************************************)
(* The theorems about Backups: for every set of homes, every retention and *)
(* any number of commands that overlap, are killed or fail, first runs     *)
(* agree, what stays is worth restoring, and retention never takes the     *)
(* last night that succeeded.                                              *)
(***************************************************************************)
EXTENDS Backups, FiniteSetTheorems, SequenceTheorems, TLAPS

\* The runs directory appears with its marker, and whoever goes on has seen it.
Published ==
    /\ runsDir # "bare"
    /\ \A p \in Procs : proc[p] # Idle =>
          /\ proc[p].pc = "rename" => staged[p] = "marked"
          /\ proc[p].pc \in {"unstage", "check"} => runsDir # "none"

Bad(r, s) == runs[r].archives[s] \in {"partial", "lacking"}

\* A run at work: at most one archive is unfinished, the one whose turn it is,
\* and as long as nothing failed, what is not archived yet has yet its turn.
AtWork(p) ==
    /\ proc[p].run \in 1..made /\ proc[p].run \notin DOMAIN green
    /\ runs[proc[p].run] # NoRun /\ ~runs[proc[p].run].killed
    /\ proc[p].since <= runs[proc[p].run].mtime /\ runs[proc[p].run].mtime <= day
    /\ proc[p].pc = "list" => \A s \in Subjects : runs[proc[p].run].archives[s] = "none"
    /\ proc[p].pc = "judge" => proc[p].todo # {}
    /\ \A s \in Subjects : Bad(proc[p].run, s) => proc[p].todo # {} /\ s = Turn(p)
    /\ ~proc[p].failed => \A s \in runs[proc[p].run].jobs :
          \/ runs[proc[p].run].archives[s] = "whole"
          \/ \E i \in proc[p].todo : s = Jobs[i]

\* A run at work is its command's alone, and nobody removes it.
Alone ==
    \A p, q \in Procs :
        Archiving(p) /\ (Archiving(q) \/ At(q, "rmtree")) /\ proc[p].run = proc[q].run => p = q

Working == \A p \in Procs : Archiving(p) => AtWork(p)

\* A night that succeeded has its run as it was, or is of age and not the last.
Spent(r) == green[r] + Days <= day /\ \E n \in DOMAIN green : green[n] > green[r]

Night(r) ==
    /\ runs[r] # NoRun => ~runs[r].killed
    /\ \/ Complete(r) /\ runs[r].mtime = green[r]
       \/ Spent(r)

Nights == \A r \in DOMAIN green : Night(r)

\* No command is as old as what may be pruned.  One that prunes has had a night
\* of its own, which it will spare, and removes only what is spent.
Allowed(p) ==
    /\ proc[p].since <= day /\ day < proc[p].since + Days
    /\ proc[p].pc = "prune" => \E n \in DOMAIN green : green[n] >= proc[p].since
    /\ proc[p].pc \in {"each", "rmtree"} =>
          \E n \in DOMAIN green : green[n] + Days > proc[p].since
    /\ proc[p].pc = "rmtree" =>
          /\ proc[p].run \in 1..made
          /\ proc[p].run \in DOMAIN green => Spent(proc[p].run)

Commanded == \A p \in Procs : proc[p] # Idle => Allowed(p)

HonestRun(r) ==
    \A s \in Subjects :
        runs[r] # NoRun /\ Bad(r, s)
            => runs[r].killed \/ \E p \in Procs : Archiving(p) /\ proc[p].run = r

HonestRuns == \A r \in Ids : HonestRun(r)

IInv ==
    /\ TypeOK /\ Published
    /\ Alone /\ Working
    /\ Nights /\ Commanded
    /\ HonestRuns

-----------------------------------------------------------------------------
(* Two facts about numbers, which need induction: in set form, it follows  *)
(* from the pigeonhole principle.                                          *)

LEMMA Induction ==
  ASSUME NEW T, 0 \in T, \A n \in T \cap Nat : n + 1 \in T
  PROVE  Nat \subseteq T
  <1> SUFFICES ASSUME NEW n \in Nat, n \notin T PROVE FALSE
    OBVIOUS
  <1> DEFINE D == {i \in 0..n : i \in T}
             up == [i \in D |-> i + 1]
  <1>1. IsFiniteSet(D)
    <2>1. IsFiniteSet(0..n)
      BY FS_Interval
    <2> QED
      BY <2>1, FS_Subset
  <1>2. 0 \in D
    OBVIOUS
  <1>3. up \in [D -> D \ {0}]
    OBVIOUS
  <1>4. \A x, y \in D : x # y => up[x] # up[y]
    OBVIOUS
  <1> HIDE DEF D, up
  <1>5. IsFiniteSet(D \ {0}) /\ Cardinality(D \ {0}) = Cardinality(D) - 1
    BY <1>1, <1>2, FS_RemoveElement
  <1>6. Cardinality(D) \in Nat
    BY <1>1, FS_CardinalityType
  <1>7. Cardinality(D \ {0}) < Cardinality(D)
    BY <1>5, <1>6
  <1> QED
    BY <1>1, <1>3, <1>4, <1>5, <1>7, FS_PigeonHole

\* What is yet to be done has a first.
LEMMA FirstIs ==
  ASSUME NEW todo \in SUBSET Nat, todo # {}
  PROVE  First(todo) \in todo
  <1> SUFFICES ASSUME \A i \in todo : \E j \in todo : ~(i <= j) PROVE FALSE
    BY DEF First
  <1> DEFINE T == {n \in Nat : \A i \in todo : n <= i}
  <1>1. 0 \in T
    OBVIOUS
  <1>2. \A n \in T \cap Nat : n + 1 \in T
    <2> SUFFICES ASSUME NEW n \in Nat, n \in T, NEW i \in todo PROVE n + 1 <= i
      OBVIOUS
    <2>1. n <= i /\ \A j \in todo : n <= j
      OBVIOUS
    <2>2. PICK j \in todo : ~(i <= j)
      OBVIOUS
    <2> QED
      BY <2>1, <2>2
  <1> HIDE DEF T
  <1>3. Nat \subseteq T
    BY <1>1, <1>2, Induction
  <1> USE DEF T
  <1>4. PICK i \in todo : TRUE
    OBVIOUS
  <1> QED
    BY <1>3, <1>4

\* A list of jobs is a list of places in it.
LEMMA JobsTyped ==
  /\ DOMAIN Jobs \subseteq Nat
  /\ \A i \in DOMAIN Jobs : Jobs[i] \in Subjects
  <1>1. Jobs \in Seq(STRING)
    BY HomesAssumption, AppendProperties DEF Jobs
  <1>2. DOMAIN Jobs = 1..Len(Jobs) /\ Len(Jobs) \in Nat
    BY <1>1, LenProperties
  <1> QED
    BY <1>2 DEF Subjects

LEMMA TurnTyped ==
  ASSUME TypeOK, NEW p \in Procs, proc[p] # Idle, proc[p].todo # {}
  PROVE  First(proc[p].todo) \in proc[p].todo /\ Turn(p) \in Subjects
  <1>1. proc[p].todo \in SUBSET DOMAIN Jobs
    BY DEF TypeOK, Commands
  <1> QED
    BY <1>1, JobsTyped, FirstIs DEF Turn

LEMMA RunTyped ==
  ASSUME IInv, NEW p \in Procs, Archiving(p)
  PROVE  /\ proc[p] \in Commands /\ AtWork(p)
         /\ proc[p].run \in Ids /\ proc[p].run \in 1..made /\ runs[proc[p].run] \in Runs
         /\ made \in Nat /\ made <= MaxRuns
  <1>1. AtWork(p) /\ proc[p] \in Commands /\ made \in 0..MaxRuns /\ MaxRuns \in Nat
    BY DaysAssumption DEF IInv, Working, TypeOK, Archiving
  <1>2. proc[p].run \in 1..made /\ proc[p].run \in Ids
    BY <1>1 DEF AtWork, Ids
  <1>3. runs[proc[p].run] \in Runs
    BY <1>1, <1>2 DEF AtWork, IInv, TypeOK
  <1> QED
    BY <1>1, <1>2, <1>3

-----------------------------------------------------------------------------
(* What a step leaves of the invariant where it touches nothing.  Of the   *)
(* nights that succeeded one only ever hears more.                         *)

Grows == DOMAIN green \subseteq DOMAIN green' /\ \A n \in DOMAIN green : green'[n] = green[n]

LEMMA WorkKept ==
  ASSUME IInv, NEW q \in Procs, Archiving(q), proc'[q] = proc[q],
         runs'[proc[q].run] = runs[proc[q].run], proc[q].run \notin DOMAIN green',
         made' \in Nat, made <= made', day' \in Nat, day <= day'
  PROVE  AtWork(q)'
  <1>1. AtWork(q) /\ made \in Nat /\ day \in Nat /\ runs[proc[q].run].mtime \in Nat
    BY RunTyped, DaysAssumption DEF IInv, TypeOK, Runs
  <1>2. proc[q].run \in 1..made' /\ runs'[proc[q].run].mtime <= day'
    BY <1>1 DEF AtWork
  <1> QED
    BY <1>1, <1>2 DEF AtWork, Bad, Turn

LEMMA AllowedKept ==
  ASSUME IInv, NEW q \in Procs, proc[q] # Idle, proc'[q] = proc[q], day' = day, Grows,
         made' \in Nat, made <= made',
         At(q, "rmtree") /\ proc[q].run \in DOMAIN green' => proc[q].run \in DOMAIN green
  PROVE  Allowed(q)'
  <1>1. Allowed(q) /\ made \in Nat
    BY DaysAssumption DEF IInv, Commanded, TypeOK
  <1>2. \A n \in DOMAIN green : n \in DOMAIN green' /\ green'[n] = green[n]
    BY DEF Grows
  <1>3. proc[q].pc = "rmtree" => proc[q].run \in 1..made'
    BY <1>1 DEF Allowed
  <1>4. proc[q].pc = "rmtree" /\ proc[q].run \in DOMAIN green' => Spent(proc[q].run)'
    BY <1>1, <1>2 DEF Allowed, At, Spent
  <1>5. proc[q].pc = "prune" => \E n \in DOMAIN green' : green'[n] >= proc[q].since
    BY <1>1, <1>2 DEF Allowed
  <1>6. proc[q].pc \in {"each", "rmtree"} =>
            \E n \in DOMAIN green' : green'[n] + Days > proc[q].since
    BY <1>1, <1>2 DEF Allowed
  <1>7. proc[q].since <= day' /\ day' < proc[q].since + Days
    BY <1>1 DEF Allowed
  <1> QED
    BY <1>3, <1>4, <1>5, <1>6, <1>7 DEF Allowed

LEMMA NightKept ==
  ASSUME IInv, NEW r \in DOMAIN green, runs'[r] = runs[r], day' \in Nat, day <= day', Grows
  PROVE  Night(r)'
  <1>1. Night(r) /\ day \in Nat /\ green[r] \in Nat
    BY DaysAssumption DEF IInv, Nights, TypeOK
  <1>2. \A n \in DOMAIN green : n \in DOMAIN green' /\ green'[n] = green[n]
    BY DEF Grows
  <1>3. Spent(r) => Spent(r)'
    BY <1>1, <1>2, DaysAssumption DEF Spent
  <1>4. Complete(r) /\ runs[r].mtime = green[r] => Complete(r)' /\ runs'[r].mtime = green'[r]
    BY <1>2 DEF Complete
  <1> QED
    BY <1>1, <1>3, <1>4 DEF Night

LEMMA HonestKept ==
  ASSUME IInv, NEW r \in Ids, runs'[r] = runs[r],
         \A p \in Procs : Archiving(p) /\ proc[p].run = r =>
             Archiving(p)' /\ proc'[p].run = r
  PROVE  HonestRun(r)'
  <1>1. HonestRun(r)
    BY DEF IInv, HonestRuns
  <1> SUFFICES ASSUME NEW s \in Subjects, runs'[r] # NoRun, Bad(r, s)'
               PROVE  runs'[r].killed \/ \E p \in Procs : Archiving(p)' /\ proc'[p].run = r
    BY DEF HonestRun
  <1>2. runs[r].killed \/ \E p \in Procs : Archiving(p) /\ proc[p].run = r
    BY <1>1 DEF HonestRun, Bad
  <1> QED
    BY <1>2

\* A step of the commands P, of which there is one or none, that touches the
\* run x, or none: what has to be looked at.
Moved(P, x) ==
    /\ P \subseteq Procs /\ \A p, q \in P : p = q
    /\ \A q \in Procs \ P : proc'[q] = proc[q]
    /\ \A r \in Ids \ {x} : runs'[r] = runs[r]
    /\ day' = day /\ made <= made' /\ Grows /\ DOMAIN green' \subseteq DOMAIN green \cup {x}
    /\ \A q \in Procs \ P : Archiving(q) => proc[q].run # x
    /\ \A q \in Procs \ P : At(q, "rmtree") /\ proc[q].run = x /\ x \in DOMAIN green'
                                  => x \in DOMAIN green
    /\ \A p \in P : proc'[p] # Idle => Allowed(p)'
    /\ \A p \in P : Archiving(p)' =>
          /\ AtWork(p)' /\ proc'[p].run = x
          /\ \A q \in Procs \ P : At(q, "rmtree") => proc[q].run # x
    /\ \A p \in P : Archiving(p) => proc[p].run = x
    /\ \A p \in P : At(p, "rmtree")' =>
          \A q \in Procs \ P : Archiving(q) => proc[q].run # proc'[p].run
    /\ x \in Ids => HonestRun(x)'
    /\ x \in DOMAIN green' => Night(x)'

LEMMA Assemble ==
  ASSUME IInv, TypeOK', Published', NEW P, NEW x, Moved(P, x)
  PROVE  IInv'
  <1> USE DEF Moved
  <1>1. /\ made \in Nat /\ made' \in Nat /\ day \in Nat /\ day' \in Nat
        /\ DOMAIN green \subseteq Ids /\ DOMAIN green' \subseteq Ids
    BY DaysAssumption DEF IInv, TypeOK, Ids
  <1>2. \A q \in Procs \ P : (Archiving(q)' <=> Archiving(q)) /\ (At(q, "rmtree")' <=> At(q, "rmtree"))
    BY DEF Archiving, At
  <1>3. Alone'
    <2> SUFFICES ASSUME NEW p \in Procs, NEW q \in Procs, Archiving(p)',
                        Archiving(q)' \/ At(q, "rmtree")', proc'[p].run = proc'[q].run
                 PROVE  p = q
      BY DEF Alone
    <2>1. CASE p \in P /\ q \in P
      BY <2>1
    <2>2. CASE p \in P /\ q \notin P
      BY <1>2, <2>2
    <2>3. CASE p \notin P /\ q \in P
      BY <1>2, <2>3
    <2>4. CASE p \notin P /\ q \notin P
      BY <1>2, <2>4 DEF IInv, Alone
    <2> QED
      BY <2>1, <2>2, <2>3, <2>4
  <1>4. Working'
    <2> SUFFICES ASSUME NEW q \in Procs, Archiving(q)' PROVE AtWork(q)'
      BY DEF Working
    <2>1. CASE q \in P
      BY <2>1
    <2>2. CASE q \notin P
      <3>1. Archiving(q) /\ proc'[q] = proc[q] /\ AtWork(q) /\ proc[q].run # x
        BY <1>2, <2>2 DEF IInv, Working
      <3>2. proc[q].run \in Ids /\ proc[q].run \notin DOMAIN green
        BY <1>1, <3>1, DaysAssumption DEF AtWork, IInv, TypeOK, Ids
      <3> QED
        BY <1>1, <3>1, <3>2, WorkKept
    <2> QED
      BY <2>1, <2>2
  <1>5. Nights'
    <2> SUFFICES ASSUME NEW r \in DOMAIN green' PROVE Night(r)'
      BY DEF Nights
    <2>1. CASE r = x
      BY <2>1
    <2>2. CASE r # x
      BY <1>1, <2>2, NightKept
    <2> QED
      BY <2>1, <2>2
  <1>6. Commanded'
    <2> SUFFICES ASSUME NEW q \in Procs, proc'[q] # Idle PROVE Allowed(q)'
      BY DEF Commanded
    <2>1. CASE q \in P
      BY <2>1
    <2>2. CASE q \notin P
      BY <1>1, <2>2, AllowedKept
    <2> QED
      BY <2>1, <2>2
  <1>7. HonestRuns'
    <2> SUFFICES ASSUME NEW r \in Ids PROVE HonestRun(r)'
      BY DEF HonestRuns
    <2>1. CASE r = x
      BY <2>1
    <2>2. CASE r # x
      BY <1>2, <2>2, HonestKept
    <2> QED
      BY <2>1, <2>2
  <1> QED
    BY <1>3, <1>4, <1>5, <1>6, <1>7 DEF IInv

\* A step that leaves all runs alone, of a command that is at none.
LEMMA QuietStep ==
  ASSUME IInv, NEW p \in Procs, ~Archiving(p), NEW c \in Commands \cup {Idle},
         proc' = [proc EXCEPT ![p] = c], UNCHANGED <<day, present, runs, made, green>>,
         runsDir' \in {"none", "marked", "foreign", "symlink"},
         staged' \in [Procs -> {"none", "bare", "marked"}],
         c # Idle => /\ Allowed(p)'
                     /\ c.pc \notin {"list", "tar", "judge"}
                     /\ c.pc = "rename" => staged'[p] = "marked"
                     /\ c.pc \in {"unstage", "check"} => runsDir' # "none"
                     /\ c.pc = "rmtree" => \A q \in Procs : Archiving(q) => proc[q].run # c.run,
         \A q \in Procs \ {p} : staged'[q] = staged[q],
         runsDir = "none" \/ runsDir' # "none"
  PROVE  IInv'
  <1>1. proc'[p] = c /\ \A q \in Procs \ {p} : proc'[q] = proc[q]
    BY DEF IInv, TypeOK
  <1>2. TypeOK'
    BY DEF IInv, TypeOK
  <1>3. Published'
    BY <1>1 DEF IInv, Published
  <1>4. ~Archiving(p)' /\ (At(p, "rmtree")' => c # Idle /\ c.pc = "rmtree")
    BY <1>1 DEF Archiving, At
  <1>5. Grows /\ made <= made' /\ 0 \notin Ids /\ 0 \notin DOMAIN green'
    <2>1. made \in Nat /\ DOMAIN green \subseteq 1..made
      BY DaysAssumption DEF IInv, TypeOK
    <2>2. Grows
      BY DEF Grows
    <2> QED
      BY <2>1, <2>2, DaysAssumption DEF Ids
  <1>6. \A q \in Procs : Archiving(q) => proc[q].run # 0
    BY DEF IInv, Working, AtWork
  <1>7. Moved({p}, 0)
    BY <1>1, <1>4, <1>5, <1>6 DEF Moved
  <1> QED
    BY <1>2, <1>3, <1>7, Assemble

Early == {"look", "stage", "touch", "rename", "unstage", "check", "mkdir"}

\* On the way to its run a command keeps its age.
LEMMA EarlyStep ==
  ASSUME IInv, NEW p \in Procs, proc[p] # Idle, proc[p].pc \in Early, NEW label \in Early,
         Goto(p, label) \/ End(p), UNCHANGED <<day, present, runs, made, green>>,
         runsDir' \in {"none", "marked", "foreign", "symlink"},
         staged' \in [Procs -> {"none", "bare", "marked"}],
         Goto(p, label) => /\ label = "rename" => staged'[p] = "marked"
                           /\ label \in {"unstage", "check"} => runsDir' # "none",
         \A q \in Procs \ {p} : staged'[q] = staged[q],
         runsDir = "none" \/ runsDir' # "none"
  PROVE  IInv'
  <1>1. proc[p] \in Commands /\ ~Archiving(p)
    BY DEF IInv, TypeOK, Archiving, Early
  <1>2. CASE End(p)
    BY <1>1, <1>2, QuietStep DEF End
  <1>3. CASE Goto(p, label)
    <2> DEFINE c == [proc[p] EXCEPT !.pc = label]
    <2>1. c \in Commands /\ c.pc = label /\ c.since = proc[p].since /\ proc' = [proc EXCEPT ![p] = c]
      BY <1>1, <1>3 DEF Commands, Early, Goto
    <2>2. proc'[p] = c
      BY <2>1 DEF IInv, TypeOK
    <2> HIDE DEF c
    <2>3. Allowed(p)'
      BY <2>1, <2>2 DEF Allowed, IInv, Commanded, Early
    <2> QED
      BY <1>1, <1>3, <2>1, <2>3, QuietStep DEF Early
  <1> QED
    BY <1>2, <1>3

\* The directory that is there is not half made.
LEMMA DirectoryTyped ==
  ASSUME IInv
  PROVE  /\ runsDir \in {"none", "marked", "foreign", "symlink"}
         /\ staged \in [Procs -> {"none", "bare", "marked"}]
  BY DEF IInv, TypeOK, Published

-----------------------------------------------------------------------------
(* Every action keeps the invariant: the runs directory.                   *)

LEMMA BackupSafe == ASSUME IInv, NEW p \in Procs, Backup(p) PROVE IInv'
  <1> DEFINE c == [ pc |-> "look", run |-> 0, todo |-> {}, old |-> {},
                    failed |-> FALSE, since |-> day ]
  <1>1. c \in Commands /\ proc' = [proc EXCEPT ![p] = c]
    BY DEF Backup, IInv, TypeOK, Commands
  <1>2. proc'[p] = c
    BY <1>1 DEF IInv, TypeOK
  <1>3. Allowed(p)'
    BY <1>2, DaysAssumption DEF Allowed, Backup, IInv, TypeOK
  <1> QED
    BY <1>1, <1>2, <1>3, QuietStep, DirectoryTyped DEF Backup, Archiving

LEMMA LookSafe == ASSUME IInv, NEW p \in Procs, Look(p) PROVE IInv'
  BY EarlyStep, DirectoryTyped DEF Look, At, Early

LEMMA StageSafe == ASSUME IInv, NEW p \in Procs, Stage(p) PROVE IInv'
  BY EarlyStep, DirectoryTyped DEF Stage, At, Early

LEMMA TouchSafe == ASSUME IInv, NEW p \in Procs, Touch(p) PROVE IInv'
  BY EarlyStep, DirectoryTyped DEF Touch, At, Early

LEMMA RenameSafe == ASSUME IInv, NEW p \in Procs, Rename(p) PROVE IInv'
  <1>1. staged[p] = "marked"
    BY DEF Rename, At, IInv, Published
  <1> QED
    BY <1>1, EarlyStep, DirectoryTyped DEF Rename, At, Early

LEMMA UnstageSafe == ASSUME IInv, NEW p \in Procs, Unstage(p) PROVE IInv'
  <1>1. runsDir # "none"
    BY DEF Unstage, At, IInv, Published
  <1> QED
    BY <1>1, EarlyStep, DirectoryTyped DEF Unstage, At, Early

LEMMA CheckSafe == ASSUME IInv, NEW p \in Procs, Check(p) PROVE IInv'
  BY EarlyStep, DirectoryTyped DEF Check, At, Early

-----------------------------------------------------------------------------
(* One run.                                                                *)

\* A command goes on with its run x: it is at c then, and its run like `run'.
Continues(p, x, c, run) ==
    /\ p \in Procs /\ Archiving(p) /\ x = proc[p].run
    /\ c \in Commands /\ c.pc \in {"tar", "judge"} /\ c.run = x /\ c.since = proc[p].since
    /\ proc' = [proc EXCEPT ![p] = c]
    /\ run \in Runs /\ runs' = [runs EXCEPT ![x] = run]
    /\ ~run.killed /\ run.mtime \in {runs[x].mtime, day}
    /\ UNCHANGED <<day, present, runsDir, staged, made, green>>
    /\ c.pc = "judge" => c.todo # {}
    /\ \A s \in Subjects : run.archives[s] \in {"partial", "lacking"}
                               => c.todo # {} /\ s = Jobs[First(c.todo)]
    /\ ~c.failed => \A s \in run.jobs : \/ run.archives[s] = "whole"
                                         \/ \E i \in c.todo : s = Jobs[i]

LEMMA ArchiverStep ==
  ASSUME IInv, NEW p, NEW x, NEW c, NEW run, Continues(p, x, c, run)
  PROVE  IInv'
  <1> USE DEF Continues
  <1>1. /\ proc[p] \in Commands /\ AtWork(p) /\ Allowed(p)
        /\ x \in Ids /\ x \in 1..made /\ x \notin DOMAIN green /\ runs[x] \in Runs
    BY RunTyped DEF IInv, Commanded, Archiving, AtWork
  <1>2. proc'[p] = c /\ \A q \in Procs \ {p} : proc'[q] = proc[q]
    BY DEF IInv, TypeOK
  <1>3. runs'[x] = run /\ \A r \in Ids \ {x} : runs'[r] = runs[r]
    BY <1>1 DEF IInv, TypeOK
  <1>4. TypeOK'
    BY <1>1, <1>3 DEF IInv, TypeOK
  <1>5. Published'
    BY <1>2 DEF IInv, Published
  <1>6. c # Idle /\ run # NoRun
    BY StartAssumption
  <1>7. Archiving(p)' /\ ~At(p, "rmtree")'
    BY <1>2, <1>6 DEF Archiving, At
  <1>8. Allowed(p)'
    BY <1>1, <1>2 DEF Allowed
  <1>9. c.since <= run.mtime /\ run.mtime <= day
    BY <1>1, DaysAssumption DEF Allowed, AtWork, IInv, TypeOK
  <1>10. AtWork(p)'
    <2>1. proc'[p].run = x /\ runs'[proc'[p].run] = run
      BY <1>2, <1>3
    <2>2. Turn(p)' = Jobs[First(c.todo)]
      BY <1>2 DEF Turn
    <2> QED
      BY <1>1, <1>2, <1>6, <1>9, <2>1, <2>2 DEF AtWork, Bad
  <1>11. HonestRun(x)'
    BY <1>2, <1>7 DEF HonestRun
  <1>12. \A q \in Procs \ {p} : Archiving(q) \/ At(q, "rmtree") => proc[q].run # x
    BY DEF IInv, Alone
  <1>13. Grows /\ made <= made'
    BY DaysAssumption DEF Grows, IInv, TypeOK
  <1>14. Moved({p}, x)
    BY <1>1, <1>2, <1>3, <1>7, <1>8, <1>10, <1>11, <1>12, <1>13 DEF Moved
  <1> QED
    BY <1>4, <1>5, <1>14, Assemble

LEMMA MkRunSafe == ASSUME IInv, NEW p \in Procs, MkRun(p) PROVE IInv'
  <1>0. PICK x : x = made + 1
    OBVIOUS
  <1> DEFINE c == [proc[p] EXCEPT !.pc = "list", !.run = x]
             run == [ mtime |-> day, jobs |-> {}, killed |-> FALSE,
                      archives |-> [s \in Subjects |-> "none"] ]
  <1>1. /\ proc[p] # Idle /\ proc[p] \in Commands /\ Allowed(p) /\ made \in Nat /\ x \in Ids
        /\ DOMAIN green \subseteq 1..made /\ made' = x /\ ~Archiving(p)
    BY <1>0, DaysAssumption DEF MkRun, At, IInv, TypeOK, Commanded, Ids, Archiving
  <1>2. c \in Commands /\ c.pc = "list" /\ c.run = x /\ c.since = proc[p].since
    BY <1>1 DEF Commands
  <1>3. run \in Runs
    BY DEF Runs, Archives, IInv, TypeOK
  <1>4. run.mtime = day /\ ~run.killed /\ run.jobs = {} /\ \A s \in Subjects : run.archives[s] = "none"
    OBVIOUS
  <1>5. proc' = [proc EXCEPT ![p] = c] /\ runs' = [runs EXCEPT ![x] = run]
    BY <1>0, <1>1 DEF MkRun
  <1> HIDE DEF c, run
  <1>6. proc'[p] = c /\ \A q \in Procs \ {p} : proc'[q] = proc[q]
    BY <1>5 DEF IInv, TypeOK
  <1>7. runs'[x] = run /\ \A r \in Ids \ {x} : runs'[r] = runs[r]
    BY <1>1, <1>5 DEF IInv, TypeOK
  <1>8. c # Idle /\ run # NoRun
    BY <1>2, <1>3, StartAssumption
  <1>9. UNCHANGED <<day, present, runsDir, staged, green>>
    BY DEF MkRun
  <1>10. TypeOK'
    <2>1. made' \in 0..MaxRuns /\ DOMAIN green \subseteq 1..made' /\ \A r \in Ids : r > made' => r > made /\ r # x
      BY <1>0, <1>1, DaysAssumption DEF Ids
    <2>2. runs' \in [Ids -> Runs \cup {NoRun}] /\ proc' \in [Procs -> Commands \cup {Idle}]
      BY <1>2, <1>3, <1>5 DEF IInv, TypeOK
    <2>3. \A r \in Ids : r > made' => runs'[r] = NoRun
      BY <1>7, <2>1 DEF IInv, TypeOK
    <2> QED
      BY <1>9, <2>1, <2>2, <2>3 DEF IInv, TypeOK
  <1>11. Published'
    BY <1>2, <1>6, <1>9 DEF IInv, Published
  <1>12. Archiving(p)' /\ ~At(p, "rmtree")'
    BY <1>2, <1>6, <1>8 DEF Archiving, At
  <1>13. Allowed(p)'
    BY <1>1, <1>2, <1>6, <1>9 DEF Allowed
  <1>14. AtWork(p)'
    <2>1. proc'[p].run = x /\ runs'[proc'[p].run] = run /\ proc'[p].pc = "list"
      BY <1>2, <1>6, <1>7
    <2>2. x \in 1..made' /\ x \notin DOMAIN green'
      BY <1>0, <1>1, <1>9
    <2>3. proc'[p].since <= run.mtime /\ run.mtime <= day'
      BY <1>1, <1>2, <1>4, <1>6, <1>9, DaysAssumption DEF Allowed, IInv, TypeOK
    <2> QED
      BY <1>4, <1>8, <2>1, <2>2, <2>3 DEF AtWork, Bad
  <1>15. HonestRun(x)'
    BY <1>4, <1>7 DEF HonestRun, Bad
  <1>16. \A q \in Procs : Archiving(q) \/ At(q, "rmtree") => proc[q].run # x
    <2>1. \A q \in Procs : Archiving(q) \/ At(q, "rmtree") => proc[q].run \in 1..made
      BY DEF IInv, Working, AtWork, Commanded, Allowed, At
    <2> QED
      BY <1>0, <1>1, <2>1
  <1>17. Grows /\ made <= made' /\ x \notin DOMAIN green'
    BY <1>0, <1>1, <1>9 DEF Grows
  <1>18. Moved({p}, x)
    BY <1>1, <1>6, <1>2, <1>7, <1>9, <1>12, <1>13, <1>14, <1>15, <1>16, <1>17 DEF Moved
  <1> QED
    BY <1>10, <1>11, <1>18, Assemble

\* A run ends with nothing unfinished.
LEMMA EndClean ==
  ASSUME IInv, NEW p \in Procs, Archiving(p), \A s \in Subjects : ~Bad(proc[p].run, s), End(p),
         UNCHANGED <<day, present, runsDir, staged, runs, made, green>>
  PROVE  IInv'
  <1>1. PICK x : x = proc[p].run
    OBVIOUS
  <1>2. AtWork(p) /\ x \in Ids /\ x \notin DOMAIN green
    BY <1>1, RunTyped DEF AtWork
  <1>3. proc'[p] = Idle /\ \A q \in Procs \ {p} : proc'[q] = proc[q]
    BY DEF End, IInv, TypeOK
  <1>4. TypeOK'
    BY DEF End, IInv, TypeOK
  <1>5. Published'
    BY <1>3 DEF IInv, Published
  <1>6. HonestRun(x)'
    BY <1>1 DEF HonestRun, Bad
  <1>7. \A q \in Procs \ {p} : Archiving(q) \/ At(q, "rmtree") => proc[q].run # x
    BY <1>1, <1>2 DEF IInv, Alone
  <1>8. Grows /\ made <= made'
    BY DaysAssumption DEF Grows, IInv, TypeOK
  <1>9. ~Archiving(p)' /\ ~At(p, "rmtree")'
    BY <1>3 DEF Archiving, At
  <1>10. Moved({p}, x)
    BY <1>1, <1>2, <1>3, <1>6, <1>7, <1>8, <1>9 DEF Moved
  <1> QED
    BY <1>4, <1>5, <1>10, Assemble

LEMMA ListSafe == ASSUME IInv, NEW p \in Procs, List(p) PROVE IInv'
  <1>1. CASE \E i \in DOMAIN Homes : Homes[i] \in present
    <2>1. PICK x : x = proc[p].run
      OBVIOUS
    <2> DEFINE todo == {i \in DOMAIN Jobs : Jobs[i] \in present}
               c == [proc[p] EXCEPT !.pc = "tar", !.todo = todo]
               run == [runs[x] EXCEPT !.jobs = present]
    <2>2. /\ Archiving(p) /\ AtWork(p) /\ proc[p] \in Commands /\ runs[x] \in Runs
          /\ present \in SUBSET Subjects
      BY <2>1, RunTyped DEF List, At, Archiving, IInv, TypeOK
    <2>3. c \in Commands /\ c.pc = "tar" /\ c.run = x /\ c.since = proc[p].since /\ c.todo = todo
      BY <2>1, <2>2 DEF Commands
    <2>4. /\ run \in Runs /\ run.killed = runs[x].killed /\ run.mtime = runs[x].mtime
          /\ run.jobs = present /\ run.archives = runs[x].archives
      BY <2>2 DEF Runs
    <2>5. proc' = [proc EXCEPT ![p] = c] /\ runs' = [runs EXCEPT ![x] = run]
      BY <1>1, <2>1 DEF List
    <2>6. \A s \in present : \E i \in todo : s = Jobs[i]
      BY <2>2 DEF Subjects
    <2> HIDE DEF c, run, todo
    <2>7. \A s \in Subjects : run.archives[s] = "none"
      BY <2>1, <2>2, <2>4 DEF AtWork, List, At
    <2>8. ~run.killed
      BY <2>1, <2>2, <2>4 DEF AtWork
    <2>9. UNCHANGED <<day, present, runsDir, staged, made, green>>
      BY DEF List
    <2>10. \A s \in run.jobs : \E i \in c.todo : s = Jobs[i]
      BY <2>3, <2>4, <2>6
    <2>11. Continues(p, x, c, run)
      BY <2>1, <2>2, <2>3, <2>4, <2>5, <2>7, <2>8, <2>9, <2>10 DEF Continues
    <2> QED
      BY <2>11, ArchiverStep
  <1>2. CASE ~\E i \in DOMAIN Homes : Homes[i] \in present
    <2>1. Archiving(p) /\ \A s \in Subjects : ~Bad(proc[p].run, s)
      BY RunTyped DEF List, At, Archiving, AtWork, Bad
    <2> QED
      BY <1>2, <2>1, EndClean DEF List
  <1> QED
    BY <1>1, <1>2

\* The archive is made, filled or removed; only the filling keeps the mtime.
Write(r, s, what) == Fill(r, s, what) \/ Enter(r, s, what)

\* What a write of the archive whose turn it is makes of the run.
LEMMA WriteTyped ==
  ASSUME IInv, NEW p \in Procs, Archiving(p), NEW x, x = proc[p].run,
         proc[p].todo # {}, NEW what \in {"none", "partial", "lacking", "whole"},
         Write(x, Turn(p), what)
  PROVE  \E run \in Runs :
            /\ runs' = [runs EXCEPT ![x] = run]
            /\ ~run.killed /\ run.mtime \in {runs[x].mtime, day} /\ run.jobs = runs[x].jobs
            /\ \A s \in Subjects : run.archives[s] = IF s = Turn(p) THEN what ELSE runs[x].archives[s]
  <1>1. AtWork(p) /\ runs[x] \in Runs /\ Turn(p) \in Subjects /\ day \in 0..MaxDay
    BY RunTyped, TurnTyped DEF Archiving, IInv, TypeOK
  <1> DEFINE filled == [runs[x] EXCEPT !.archives = [@ EXCEPT ![Turn(p)] = what]]
             run == IF Fill(x, Turn(p), what) THEN filled ELSE [filled EXCEPT !.mtime = day]
  <1>2. /\ run \in Runs /\ run.killed = runs[x].killed /\ run.mtime \in {runs[x].mtime, day}
        /\ run.jobs = runs[x].jobs
        /\ \A s \in Subjects : run.archives[s] = IF s = Turn(p) THEN what ELSE runs[x].archives[s]
    BY <1>1 DEF Runs, Archives
  <1>3. runs' = [runs EXCEPT ![x] = run]
    BY DEF Write, Fill, Enter
  <1> QED
    BY <1>1, <1>2, <1>3 DEF AtWork

LEMMA TarStartSafe == ASSUME IInv, NEW p \in Procs, TarStart(p) PROVE IInv'
  <1>1. PICK x : x = proc[p].run
    OBVIOUS
  <1>2. Archiving(p) /\ AtWork(p) /\ proc[p] \in Commands /\ proc[p].pc = "tar" /\ proc[p].todo # {}
    BY RunTyped DEF TarStart, At, Archiving
  <1>3. PICK run \in Runs :
            /\ runs' = [runs EXCEPT ![x] = run]
            /\ ~run.killed /\ run.mtime \in {runs[x].mtime, day} /\ run.jobs = runs[x].jobs
            /\ \A s \in Subjects : run.archives[s] = IF s = Turn(p) THEN "partial" ELSE runs[x].archives[s]
    BY <1>1, <1>2, WriteTyped DEF TarStart, Write
  <1>4. \A s \in Subjects : run.archives[s] \in {"partial", "lacking"} => s = Turn(p)
    BY <1>1, <1>2, <1>3 DEF AtWork, Bad
  <1>5. ~proc[p].failed => \A s \in run.jobs : \/ run.archives[s] = "whole"
                                                \/ \E i \in proc[p].todo : s = Jobs[i]
    <2> SUFFICES ASSUME ~proc[p].failed, NEW s \in run.jobs
                 PROVE  run.archives[s] = "whole" \/ \E i \in proc[p].todo : s = Jobs[i]
      OBVIOUS
    <2>1. s \in Subjects /\ s \in runs[x].jobs
      BY <1>3 DEF Runs
    <2>2. runs[x].archives[s] = "whole" \/ \E i \in proc[p].todo : s = Jobs[i]
      BY <1>1, <1>2, <2>1 DEF AtWork
    <2>3. s = Turn(p) => \E i \in proc[p].todo : s = Jobs[i]
      BY <1>2, TurnTyped DEF Turn, IInv, Archiving
    <2> QED
      BY <1>3, <2>1, <2>2, <2>3
  <1>6. proc' = [proc EXCEPT ![p] = proc[p]] /\ UNCHANGED <<day, present, runsDir, staged, made, green>>
    BY DEF TarStart, IInv, TypeOK
  <1>7. Continues(p, x, proc[p], run)
    BY <1>1, <1>2, <1>3, <1>4, <1>5, <1>6 DEF Turn, Continues
  <1> QED
    BY <1>7, ArchiverStep

LEMMA TarFailsSafe == ASSUME IInv, NEW p \in Procs, TarFails(p) PROVE IInv'
  <1>1. PICK x : x = proc[p].run
    OBVIOUS
  <1> DEFINE c == [proc[p] EXCEPT !.pc = "judge"]
  <1>2. Archiving(p) /\ AtWork(p) /\ proc[p] \in Commands /\ proc[p].pc = "tar" /\ proc[p].todo # {}
    BY RunTyped DEF TarFails, At, Archiving
  <1>3. PICK what \in {"partial", "lacking"} : Write(x, Turn(p), what)
    BY <1>1 DEF TarFails, Write
  <1>4. PICK run \in Runs :
            /\ runs' = [runs EXCEPT ![x] = run]
            /\ ~run.killed /\ run.mtime \in {runs[x].mtime, day} /\ run.jobs = runs[x].jobs
            /\ \A s \in Subjects : run.archives[s] = IF s = Turn(p) THEN what ELSE runs[x].archives[s]
    BY <1>1, <1>2, <1>3, WriteTyped
  <1>5. \A s \in Subjects : run.archives[s] \in {"partial", "lacking"} => s = Turn(p)
    BY <1>1, <1>2, <1>4 DEF AtWork, Bad
  <1>6. ~proc[p].failed => \A s \in run.jobs : \/ run.archives[s] = "whole"
                                                \/ \E i \in proc[p].todo : s = Jobs[i]
    <2> SUFFICES ASSUME ~proc[p].failed, NEW s \in run.jobs
                 PROVE  run.archives[s] = "whole" \/ \E i \in proc[p].todo : s = Jobs[i]
      OBVIOUS
    <2>1. s \in Subjects /\ s \in runs[x].jobs
      BY <1>4 DEF Runs
    <2>2. runs[x].archives[s] = "whole" \/ \E i \in proc[p].todo : s = Jobs[i]
      BY <1>1, <1>2, <2>1 DEF AtWork
    <2>3. s = Turn(p) => \E i \in proc[p].todo : s = Jobs[i]
      BY <1>2, TurnTyped DEF Turn, IInv, Archiving
    <2> QED
      BY <1>4, <2>1, <2>2, <2>3
  <1>7. /\ c \in Commands /\ c.pc = "judge" /\ c.run = x /\ c.since = proc[p].since
        /\ c.todo = proc[p].todo /\ c.failed = proc[p].failed
    BY <1>1, <1>2 DEF Commands
  <1>8. proc' = [proc EXCEPT ![p] = c] /\ UNCHANGED <<day, present, runsDir, staged, made, green>>
    BY DEF TarFails, Goto
  <1> HIDE DEF c
  <1>9. Continues(p, x, c, run)
    BY <1>1, <1>2, <1>4, <1>5, <1>6, <1>7, <1>8 DEF Turn, Continues
  <1> QED
    BY <1>9, ArchiverStep

\* The next job has its turn: the archive is whole, or has gone and the night
\* has failed.
LEMMA TurnPasses ==
  ASSUME IInv, NEW p \in Procs, Archiving(p), NEW x, x = proc[p].run, proc[p].todo # {},
         NEW failed \in BOOLEAN, NEW what \in {"none", "whole"}, Write(x, Turn(p), what),
         what = "none" => failed, proc[p].failed => failed,
         proc' = [proc EXCEPT ![p].pc = "tar", ![p].todo = Done(@), ![p].failed = failed],
         UNCHANGED <<day, present, runsDir, staged, green, made>>
  PROVE  IInv'
  <1> DEFINE c == [proc[p] EXCEPT !.pc = "tar", !.todo = Done(proc[p].todo), !.failed = failed]
  <1>1. AtWork(p) /\ proc[p] \in Commands
    BY RunTyped
  <1>2. PICK run \in Runs :
            /\ runs' = [runs EXCEPT ![x] = run]
            /\ ~run.killed /\ run.mtime \in {runs[x].mtime, day} /\ run.jobs = runs[x].jobs
            /\ \A s \in Subjects : run.archives[s] = IF s = Turn(p) THEN what ELSE runs[x].archives[s]
    BY WriteTyped
  <1>3. \A s \in Subjects : run.archives[s] \notin {"partial", "lacking"}
    BY <1>1, <1>2 DEF AtWork, Bad
  <1>4. ~failed => \A s \in run.jobs : \/ run.archives[s] = "whole"
                                        \/ \E i \in Done(proc[p].todo) : s = Jobs[i]
    <2> SUFFICES ASSUME ~failed, NEW s \in run.jobs
                 PROVE  run.archives[s] = "whole" \/ \E i \in Done(proc[p].todo) : s = Jobs[i]
      OBVIOUS
    <2>1. s \in Subjects /\ s \in runs[x].jobs
      BY <1>2 DEF Runs
    <2>2. runs[x].archives[s] = "whole" \/ \E i \in proc[p].todo : s = Jobs[i]
      BY <1>1, <2>1 DEF AtWork
    <2> QED
      BY <1>2, <2>1, <2>2 DEF Turn, Done
  <1>5. /\ c \in Commands /\ c.pc = "tar" /\ c.run = x /\ c.since = proc[p].since
        /\ c.todo = Done(proc[p].todo) /\ c.failed = failed
    BY <1>1 DEF Commands, Done
  <1>6. proc' = [proc EXCEPT ![p] = c]
    OBVIOUS
  <1> HIDE DEF c
  <1>7. Continues(p, x, c, run)
    BY <1>2, <1>3, <1>4, <1>5, <1>6 DEF Continues
  <1> QED
    BY <1>7, ArchiverStep

LEMMA TarDoneSafe == ASSUME IInv, NEW p \in Procs, TarDone(p) PROVE IInv'
  <1>1. PICK x : x = proc[p].run
    OBVIOUS
  <1>2. Archiving(p) /\ proc[p] \in Commands
    BY RunTyped DEF TarDone, At, Archiving
  <1>3. proc[p].failed \in BOOLEAN
    BY <1>2 DEF Commands
  <1>4. proc' = [proc EXCEPT ![p].pc = "tar", ![p].todo = Done(@), ![p].failed = proc[p].failed]
    BY <1>2 DEF TarDone, At, Commands, IInv, TypeOK
  <1> QED
    BY <1>1, <1>2, <1>3, <1>4, TurnPasses DEF TarDone, Write

LEMMA JudgeSafe == ASSUME IInv, NEW p \in Procs, Judge(p) PROVE IInv'
  <1>1. PICK x : x = proc[p].run
    OBVIOUS
  <1>2. Archiving(p) /\ proc[p].todo # {}
    BY RunTyped DEF Judge, At, Archiving, AtWork
  <1> QED
    BY <1>1, <1>2, TurnPasses DEF Judge, Write

\* A night that succeeded has all that it set out to archive.
LEMMA ExitSafe == ASSUME IInv, NEW p \in Procs, Exit(p) PROVE IInv'
  <1>1. PICK x : x = proc[p].run
    OBVIOUS
  <1>2. /\ Archiving(p) /\ proc[p].todo = {} /\ proc[p] \in Commands /\ AtWork(p)
        /\ x \in Ids /\ x \in 1..made /\ runs[x] \in Runs /\ x \notin DOMAIN green
    BY <1>1, RunTyped DEF Exit, At, Archiving, AtWork
  <1>3. \A s \in Subjects : ~Bad(x, s)
    BY <1>1, <1>2 DEF AtWork
  <1>4. CASE proc[p].failed
    BY <1>1, <1>2, <1>3, <1>4, EndClean DEF Exit
  <1>5. CASE ~proc[p].failed
    <2> DEFINE c == [proc[p] EXCEPT !.pc = "prune"]
    <2>1. c \in Commands /\ c.pc = "prune" /\ c.since = proc[p].since /\ proc' = [proc EXCEPT ![p] = c]
      BY <1>2, <1>5 DEF Commands, Exit, Goto
    <2> HIDE DEF c
    <2>2. proc'[p] = c /\ c # Idle /\ \A q \in Procs \ {p} : proc'[q] = proc[q]
      BY <2>1, StartAssumption DEF IInv, TypeOK
    <2>3. /\ DOMAIN green' = DOMAIN green \cup {x} /\ green'[x] = runs[x].mtime
          /\ \A n \in DOMAIN green : green'[n] = green[n]
          /\ green' \in [DOMAIN green' -> {runs[x].mtime} \cup {green[n] : n \in DOMAIN green}]
      BY <1>1, <1>2, <1>5 DEF Exit, Count
    <2>4. UNCHANGED <<day, present, runsDir, staged, runs, made>>
      BY DEF Exit
    <2>5. runs[x].mtime \in 0..day /\ proc[p].since <= runs[x].mtime
      BY <1>1, <1>2, DaysAssumption DEF AtWork, Runs, IInv, TypeOK
    <2>6. TypeOK'
      <3>1. DOMAIN green' \subseteq 1..made
        BY <1>2, <2>3 DEF IInv, TypeOK
      <3>2. green' \in [DOMAIN green' -> 0..day]
        BY <2>3, <2>5 DEF IInv, TypeOK
      <3>3. proc' \in [Procs -> Commands \cup {Idle}]
        BY <2>1 DEF IInv, TypeOK
      <3> QED
        BY <2>4, <3>1, <3>2, <3>3 DEF IInv, TypeOK
    <2>7. Published'
      BY <2>1, <2>2, <2>4 DEF IInv, Published
    <2>8. ~Archiving(p)' /\ ~At(p, "rmtree")'
      BY <2>1, <2>2 DEF Archiving, At
    <2>9. Allowed(p)'
      <3>1. \E n \in DOMAIN green' : green'[n] >= proc'[p].since
        BY <2>1, <2>2, <2>3, <2>5
      <3>2. proc'[p].since <= day' /\ day' < proc'[p].since + Days
        BY <1>2, <2>1, <2>2, <2>4 DEF IInv, Commanded, Allowed, Archiving
      <3> QED
        BY <2>1, <2>2, <3>1, <3>2 DEF Allowed
    <2>10. HonestRun(x)'
      BY <1>3, <2>4 DEF HonestRun, Bad
    <2>11. Night(x)'
      <3>1. ~runs[x].killed /\ runs[x] # NoRun
        BY <1>1, <1>2 DEF AtWork
      <3>2. \A s \in runs[x].jobs : runs[x].archives[s] = "whole"
        BY <1>1, <1>2, <1>5 DEF AtWork
      <3> QED
        BY <2>3, <2>4, <3>1, <3>2 DEF Night, Complete
    <2>12. \A q \in Procs \ {p} : Archiving(q) \/ At(q, "rmtree") => proc[q].run # x
      BY <1>1, <1>2 DEF IInv, Alone
    <2>13. Grows /\ made <= made'
      BY <2>3, <2>4, DaysAssumption DEF Grows, IInv, TypeOK
    <2>14. Moved({p}, x)
      BY <1>1, <1>2, <2>2, <2>3, <2>4, <2>8, <2>9, <2>10, <2>11, <2>12, <2>13 DEF Moved
    <2> QED
      BY <2>6, <2>7, <2>14, Assemble
  <1> QED
    BY <1>4, <1>5

-----------------------------------------------------------------------------
(* prune-backups.                                                          *)

LEMMA PruneSafe == ASSUME IInv, NEW p \in Procs, Prune(p) PROVE IInv'
  <1>1. proc[p] # Idle /\ proc[p] \in Commands /\ ~Archiving(p) /\ Allowed(p) /\ proc[p].pc = "prune"
    BY DEF Prune, At, IInv, TypeOK, Commanded, Archiving
  <1>2. CASE runsDir = "marked"
    <2> DEFINE old == {r \in Ids : runs[r] # NoRun}
               c == [proc[p] EXCEPT !.pc = "each", !.since = day, !.old = old]
    <2>1. /\ c \in Commands /\ c.pc = "each" /\ c.since = day /\ proc' = [proc EXCEPT ![p] = c]
      BY <1>1, <1>2 DEF Commands, Prune, IInv, TypeOK
    <2> HIDE DEF c
    <2>2. proc'[p] = c
      BY <2>1 DEF IInv, TypeOK
    <2>3. \E n \in DOMAIN green : green[n] + Days > day
      <3>1. PICK n \in DOMAIN green : green[n] >= proc[p].since
        BY <1>1 DEF Allowed
      <3>2. /\ green[n] \in Nat /\ proc[p].since \in Nat /\ day \in Nat
            /\ day < proc[p].since + Days
        BY <1>1, DaysAssumption DEF Allowed, Commands, IInv, TypeOK
      <3> QED
        BY <3>1, <3>2, DaysAssumption
    <2>4. Allowed(p)'
      BY <2>1, <2>2, <2>3, DaysAssumption DEF Allowed, Prune, IInv, TypeOK
    <2> QED
      BY <1>1, <2>1, <2>4, QuietStep, DirectoryTyped DEF Prune
  <1>3. CASE runsDir # "marked"
    BY <1>1, <1>3, QuietStep, DirectoryTyped DEF Prune, End
  <1> QED
    BY <1>2, <1>3

\* A run of age is nobody's who is at work, and a night that succeeded is spent
\* by then: the pruning command has had a younger one.
LEMMA EachSafe == ASSUME IInv, NEW p \in Procs, NEW r \in Ids, Each(p, r) PROVE IInv'
  <1>1. proc[p] # Idle /\ proc[p] \in Commands /\ ~Archiving(p) /\ Allowed(p) /\ proc[p].pc = "each"
    BY DEF Each, At, IInv, TypeOK, Commanded, Archiving
  <1>2. PICK n \in DOMAIN green : green[n] + Days > proc[p].since
    BY <1>1 DEF Allowed
  <1>3. CASE runs[r] # NoRun /\ Aged(r, proc[p].since)
    <2> DEFINE c == [proc[p] EXCEPT !.pc = "rmtree", !.run = r, !.old = @ \ {r}]
    <2>1. /\ c \in Commands /\ c.pc = "rmtree" /\ c.since = proc[p].since /\ c.run = r
          /\ proc' = [proc EXCEPT ![p] = c]
      BY <1>1, <1>3 DEF Commands, Each
    <2> HIDE DEF c
    <2>2. proc'[p] = c
      BY <2>1 DEF IInv, TypeOK
    <2>3. /\ proc[p].since \in Nat /\ day \in Nat /\ Days \in Nat /\ green[n] \in Nat
          /\ runs[r] \in Runs /\ runs[r].mtime \in Nat /\ proc[p].since <= day
          /\ runs[r].mtime + Days <= proc[p].since
      BY <1>1, <1>3, DaysAssumption DEF IInv, TypeOK, Runs, Commands, Allowed, Aged
    <2>4. r \in DOMAIN green => Spent(r)
      <3> SUFFICES ASSUME r \in DOMAIN green PROVE Spent(r)
        OBVIOUS
      <3>1. Night(r)
        BY DEF IInv, Nights
      <3>2. CASE runs[r].mtime = green[r]
        BY <1>2, <2>3, <3>2 DEF Spent
      <3> QED
        BY <3>1, <3>2 DEF Night
    <2>5. \A q \in Procs : Archiving(q) => proc[q].run # r
      <3> SUFFICES ASSUME NEW q \in Procs, Archiving(q), proc[q].run = r PROVE FALSE
        OBVIOUS
      <3>1. /\ proc[q].since \in Nat /\ proc[q].since <= runs[r].mtime
            /\ day < proc[q].since + Days
        BY RunTyped, DaysAssumption DEF AtWork, Commands, IInv, Commanded, Allowed, Archiving
      <3> QED
        BY <2>3, <3>1
    <2>6. r \in 1..made
      BY <1>3, DaysAssumption DEF IInv, TypeOK, Ids
    <2>7. Allowed(p)'
      BY <1>1, <1>2, <2>1, <2>2, <2>4, <2>6 DEF Allowed, Each, Spent
    <2> QED
      BY <1>1, <2>1, <2>5, <2>7, QuietStep, DirectoryTyped DEF Each
  <1>4. CASE ~(runs[r] # NoRun /\ Aged(r, proc[p].since))
    <2> DEFINE c == [proc[p] EXCEPT !.old = @ \ {r}]
    <2>1. c \in Commands /\ c.pc = "each" /\ c.since = proc[p].since /\ proc' = [proc EXCEPT ![p] = c]
      BY <1>1, <1>4 DEF Commands, Each
    <2> HIDE DEF c
    <2>2. proc'[p] = c
      BY <2>1 DEF IInv, TypeOK
    <2>3. Allowed(p)'
      BY <1>1, <2>1, <2>2 DEF Allowed, Each
    <2> QED
      BY <1>1, <2>1, <2>3, QuietStep, DirectoryTyped DEF Each
  <1> QED
    BY <1>3, <1>4

\* What is being removed is spent, or was never counted, and is nobody's.
LEMMA Removed ==
  ASSUME IInv, NEW p \in Procs, At(p, "rmtree"), NEW x, x = proc[p].run
  PROVE  /\ proc[p] \in Commands /\ ~Archiving(p) /\ Allowed(p) /\ x \in Ids
         /\ x \in DOMAIN green => Spent(x)
         /\ \A q \in Procs : Archiving(q) => proc[q].run # x
         /\ runs[x] \in Runs \cup {NoRun}
  <1>1. proc[p] \in Commands /\ ~Archiving(p) /\ Allowed(p)
    BY DEF At, IInv, TypeOK, Commanded, Archiving
  <1>2. x \in 1..made /\ (x \in DOMAIN green => Spent(x))
    BY <1>1 DEF Allowed, At
  <1>3. x \in Ids
    BY <1>2, DaysAssumption DEF IInv, TypeOK, Ids
  <1> QED
    BY <1>1, <1>2, <1>3 DEF IInv, TypeOK, Alone

LEMMA RmArchiveSafe ==
  ASSUME IInv, NEW p \in Procs, NEW s \in Subjects, RmArchive(p, s)
  PROVE  IInv'
  <1>1. PICK x : x = proc[p].run
    OBVIOUS
  <1>2. At(p, "rmtree") /\ runs[x] # NoRun
    BY <1>1 DEF RmArchive
  <1>3. /\ ~Archiving(p) /\ x \in Ids /\ runs[x] \in Runs /\ (x \in DOMAIN green => Spent(x))
        /\ \A q \in Procs : Archiving(q) => proc[q].run # x
    BY <1>1, <1>2, Removed
  <1> DEFINE run == [runs[x] EXCEPT !.archives = [@ EXCEPT ![s] = "none"], !.mtime = day]
  <1>4. /\ run \in Runs /\ run.killed = runs[x].killed
        /\ \A i \in Subjects : run.archives[i] = IF i = s THEN "none" ELSE runs[x].archives[i]
    BY <1>3 DEF Runs, Archives, IInv, TypeOK
  <1>5. runs' = [runs EXCEPT ![x] = run] /\ UNCHANGED <<day, present, runsDir, staged, proc, green, made>>
    BY <1>1 DEF RmArchive, Enter
  <1> HIDE DEF run
  <1>6. runs'[x] = run /\ \A r \in Ids \ {x} : runs'[r] = runs[r]
    BY <1>3, <1>5 DEF IInv, TypeOK
  <1>7. TypeOK'
    <2>1. \A r \in Ids : r > made => runs'[r] = NoRun
      BY <1>2, <1>6 DEF IInv, TypeOK
    <2>2. runs' \in [Ids -> Runs \cup {NoRun}]
      BY <1>4, <1>5 DEF IInv, TypeOK
    <2> QED
      BY <1>5, <2>1, <2>2 DEF IInv, TypeOK
  <1>8. Published'
    BY <1>5 DEF IInv, Published
  <1>9. HonestRun(x)'
    <2>1. \A i \in Subjects : Bad(x, i) => runs[x].killed
      BY <1>2, <1>3 DEF IInv, HonestRuns, HonestRun
    <2>2. \A i \in Subjects : Bad(x, i)' => Bad(x, i)
      BY <1>4, <1>6 DEF Bad
    <2> QED
      BY <1>4, <1>6, <2>1, <2>2 DEF HonestRun
  <1>10. x \in DOMAIN green' => Night(x)'
    BY <1>2, <1>3, <1>4, <1>5, <1>6 DEF IInv, Nights, Night, Spent
  <1>11. Grows /\ made <= made'
    BY <1>5, DaysAssumption DEF Grows, IInv, TypeOK
  <1>12. Moved({}, x)
    BY <1>3, <1>5, <1>6, <1>9, <1>10, <1>11 DEF Moved
  <1> QED
    BY <1>7, <1>8, <1>12, Assemble

LEMMA RmRunSafe == ASSUME IInv, NEW p \in Procs, RmRun(p) PROVE IInv'
  <1>1. PICK x : x = proc[p].run
    OBVIOUS
  <1>2. /\ At(p, "rmtree") /\ proc[p] \in Commands /\ ~Archiving(p) /\ Allowed(p) /\ x \in Ids
        /\ (x \in DOMAIN green => Spent(x)) /\ \A q \in Procs : Archiving(q) => proc[q].run # x
    BY <1>1, Removed DEF RmRun
  <1>3. CASE runs[x] = NoRun
    BY <1>1, <1>2, <1>3, QuietStep, DirectoryTyped DEF RmRun, End
  <1>4. CASE runs[x] # NoRun
    <2> DEFINE c == [proc[p] EXCEPT !.pc = "each"]
    <2>1. c \in Commands /\ c.pc = "each" /\ c.since = proc[p].since /\ proc' = [proc EXCEPT ![p] = c]
      BY <1>1, <1>2, <1>4 DEF Commands, RmRun, Goto
    <2> HIDE DEF c
    <2>2. proc'[p] = c /\ c # Idle /\ \A q \in Procs \ {p} : proc'[q] = proc[q]
      BY <2>1, StartAssumption DEF IInv, TypeOK
    <2>3. runs' = [runs EXCEPT ![x] = NoRun] /\ UNCHANGED <<day, present, runsDir, staged, made, green>>
      BY <1>1, <1>4 DEF RmRun
    <2>4. runs'[x] = NoRun /\ \A r \in Ids \ {x} : runs'[r] = runs[r]
      BY <1>2, <2>3 DEF IInv, TypeOK
    <2>5. TypeOK'
      <3>1. \A r \in Ids : r > made => runs'[r] = NoRun
        BY <2>4 DEF IInv, TypeOK
      <3>2. runs' \in [Ids -> Runs \cup {NoRun}] /\ proc' \in [Procs -> Commands \cup {Idle}]
        BY <2>1, <2>3 DEF IInv, TypeOK
      <3> QED
        BY <2>3, <3>1, <3>2 DEF IInv, TypeOK
    <2>6. Published'
      BY <2>1, <2>2, <2>3 DEF IInv, Published
    <2>7. Allowed(p)'
      BY <1>2, <2>1, <2>2, <2>3 DEF Allowed, At
    <2>8. HonestRun(x)' /\ (x \in DOMAIN green' => Night(x)')
      BY <1>2, <2>3, <2>4 DEF HonestRun, Night, Spent
    <2>9. ~Archiving(p)' /\ ~At(p, "rmtree")'
      BY <2>1, <2>2 DEF Archiving, At
    <2>10. Grows /\ made <= made'
      BY <2>3, DaysAssumption DEF Grows, IInv, TypeOK
    <2>11. Moved({p}, x)
      BY <1>2, <2>2, <2>3, <2>4, <2>7, <2>8, <2>9, <2>10 DEF Moved
    <2> QED
      BY <2>5, <2>6, <2>11, Assemble
  <1> QED
    BY <1>3, <1>4

LEMMA PruneExitSafe == ASSUME IInv, NEW p \in Procs, PruneExit(p) PROVE IInv'
  <1>1. ~Archiving(p)
    BY DEF PruneExit, At, Archiving
  <1> QED
    BY <1>1, QuietStep, DirectoryTyped DEF PruneExit, End

-----------------------------------------------------------------------------
(* The world.                                                              *)

LEMMA KillSafe == ASSUME IInv, NEW p \in Procs, Kill(p) PROVE IInv'
  <1>1. CASE ~Archiving(p)
    BY <1>1, QuietStep, DirectoryTyped DEF Kill, End
  <1>2. CASE Archiving(p)
    <2>1. PICK x : x = proc[p].run
      OBVIOUS
    <2> DEFINE run == [runs[x] EXCEPT !.killed = TRUE]
    <2>2. x \in Ids /\ x \in 1..made /\ runs[x] \in Runs /\ x \notin DOMAIN green
      BY <1>2, <2>1, RunTyped DEF AtWork
    <2>3. run \in Runs /\ run.killed
      BY <2>2 DEF Runs
    <2>4. runs' = [runs EXCEPT ![x] = run] /\ UNCHANGED <<day, present, runsDir, staged, made, green>>
      BY <1>2, <2>1 DEF Kill
    <2> HIDE DEF run
    <2>5. runs'[x] = run /\ \A r \in Ids \ {x} : runs'[r] = runs[r]
      BY <2>2, <2>4 DEF IInv, TypeOK
    <2>6. proc'[p] = Idle /\ \A q \in Procs \ {p} : proc'[q] = proc[q]
      BY DEF Kill, End, IInv, TypeOK
    <2>7. TypeOK'
      <3>1. \A r \in Ids : r > made => r # x
        BY <2>2, DaysAssumption DEF IInv, TypeOK, Ids
      <3>2. \A r \in Ids : r > made => runs'[r] = NoRun
        BY <2>5, <3>1 DEF IInv, TypeOK
      <3>3. runs' \in [Ids -> Runs \cup {NoRun}] /\ proc' \in [Procs -> Commands \cup {Idle}]
        BY <2>3, <2>4 DEF IInv, TypeOK, Kill, End
      <3> QED
        BY <2>4, <3>2, <3>3 DEF IInv, TypeOK
    <2>8. Published'
      BY <2>4, <2>6 DEF IInv, Published
    <2>9. HonestRun(x)'
      BY <2>3, <2>5 DEF HonestRun
    <2>10. \A q \in Procs \ {p} : Archiving(q) \/ At(q, "rmtree") => proc[q].run # x
      BY <1>2, <2>1 DEF IInv, Alone
    <2>11. ~Archiving(p)' /\ ~At(p, "rmtree")'
      BY <2>6 DEF Archiving, At
    <2>12. Grows /\ made <= made'
      BY <2>4, DaysAssumption DEF Grows, IInv, TypeOK
    <2>13. Moved({p}, x)
      BY <2>1, <2>2, <2>4, <2>5, <2>6, <2>9, <2>10, <2>11, <2>12 DEF Moved
    <2> QED
      BY <2>7, <2>8, <2>13, Assemble
  <1> QED
    BY <1>1, <1>2

LEMMA OrphanTarSafe ==
  ASSUME IInv, NEW r \in Ids, NEW s \in Subjects, OrphanTar(r, s)
  PROVE  IInv'
  <1>1. PICK what \in {"lacking", "whole"} : Fill(r, s, what)
    BY DEF OrphanTar
  <1> DEFINE run == [runs[r] EXCEPT !.archives = [@ EXCEPT ![s] = what]]
  <1>2. runs[r] \in Runs /\ runs[r].killed /\ runs[r] # NoRun
    BY DEF OrphanTar, IInv, TypeOK
  <1>3. run \in Runs /\ run.killed
    BY <1>2 DEF Runs, Archives, IInv, TypeOK
  <1>4. runs' = [runs EXCEPT ![r] = run] /\ UNCHANGED <<day, present, runsDir, staged, proc, green, made>>
    BY <1>1 DEF OrphanTar, Fill
  <1> HIDE DEF run
  <1>5. runs'[r] = run /\ \A x \in Ids \ {r} : runs'[x] = runs[x]
    BY <1>4 DEF IInv, TypeOK
  <1>6. TypeOK'
    <2>1. \A x \in Ids : x > made => runs'[x] = NoRun
      BY <1>2, <1>5 DEF IInv, TypeOK
    <2>2. runs' \in [Ids -> Runs \cup {NoRun}]
      BY <1>3, <1>4 DEF IInv, TypeOK
    <2> QED
      BY <1>4, <2>1, <2>2 DEF IInv, TypeOK
  <1>7. Published'
    BY <1>4 DEF IInv, Published
  <1>8. r \notin DOMAIN green
    BY <1>2 DEF IInv, Nights, Night
  <1>9. \A q \in Procs : Archiving(q) => proc[q].run # r
    BY <1>2, RunTyped DEF AtWork
  <1>10. HonestRun(r)'
    BY <1>3, <1>5 DEF HonestRun
  <1>11. Grows /\ made <= made'
    BY <1>4, DaysAssumption DEF Grows, IInv, TypeOK
  <1>12. Moved({}, r)
    BY <1>4, <1>5, <1>8, <1>9, <1>10, <1>11 DEF Moved
  <1> QED
    BY <1>6, <1>7, <1>12, Assemble

\* What becomes of the disks, and of a foreign directory, is nobody's run.
LEMMA WorldStep ==
  ASSUME IInv, UNCHANGED <<day, staged, runs, proc, green, made>>, present' \subseteq Subjects,
         runsDir' \in {"none", "marked", "foreign", "symlink"}, runsDir = "none" \/ runsDir' # "none"
  PROVE  IInv'
  <1>1. TypeOK' /\ Published'
    BY DEF IInv, TypeOK, Published
  <1>2. 0 \notin Ids /\ DOMAIN green \subseteq Ids /\ Grows /\ made <= made'
    BY DaysAssumption DEF IInv, TypeOK, Ids, Grows
  <1>3. \A q \in Procs : Archiving(q) => proc[q].run # 0
    BY RunTyped, <1>2
  <1>4. Moved({}, 0)
    BY <1>2, <1>3 DEF Moved
  <1> QED
    BY <1>1, <1>4, Assemble

LEMMA ToggleSafe == ASSUME IInv, NEW s \in Subjects, Toggle(s) PROVE IInv'
  <1>1. present' \subseteq Subjects
    BY DEF Toggle, IInv, TypeOK
  <1> QED
    BY <1>1, WorldStep, DirectoryTyped DEF Toggle

LEMMA AdoptSafe == ASSUME IInv, Adopt PROVE IInv'
  BY WorldStep, DirectoryTyped DEF Adopt, IInv, TypeOK

LEMMA StutterSafe == ASSUME IInv, UNCHANGED vars PROVE IInv'
  BY WorldStep, DirectoryTyped DEF vars, IInv, TypeOK

\* The clock does not pass a command by.
LEMMA TickSafe == ASSUME IInv, Tick PROVE IInv'
  <1>1. day \in Nat /\ day' = day + 1 /\ made \in Nat
    BY DaysAssumption DEF Tick, IInv, TypeOK
  <1>2. TypeOK'
    BY <1>1, DaysAssumption DEF Tick, IInv, TypeOK
  <1>3. Published' /\ Alone'
    BY DEF Tick, IInv, Published, Alone, Archiving, At
  <1>4. Grows /\ made <= made' /\ day <= day' /\ day' \in Nat
    BY <1>1 DEF Tick, Grows
  <1>5. Working'
    <2> SUFFICES ASSUME NEW q \in Procs, Archiving(q)' PROVE AtWork(q)'
      BY DEF Working
    <2>1. Archiving(q)
      BY DEF Tick, Archiving
    <2>2. proc[q].run \notin DOMAIN green
      BY <2>1, RunTyped DEF AtWork
    <2> QED
      BY <1>1, <1>4, <2>1, <2>2, WorkKept DEF Tick
  <1>6. Nights'
    <2> SUFFICES ASSUME NEW r \in DOMAIN green PROVE Night(r)'
      BY DEF Nights, Tick
    <2> QED
      BY <1>4, NightKept DEF Tick
  <1>7. Commanded'
    <2> SUFFICES ASSUME NEW q \in Procs, proc[q] # Idle PROVE Allowed(q)'
      BY DEF Commanded, Tick
    <2>1. Allowed(q) /\ proc[q] \in Commands /\ proc[q].since \in Nat
      BY DaysAssumption DEF IInv, Commanded, TypeOK, Commands
    <2>2. proc[q].since <= day' /\ day' < proc[q].since + Days
      BY <1>1, <2>1 DEF Tick, Allowed
    <2>3. proc[q].pc = "rmtree" /\ proc[q].run \in DOMAIN green => Spent(proc[q].run)'
      <3> SUFFICES ASSUME proc[q].pc = "rmtree", proc[q].run \in DOMAIN green
                   PROVE  Spent(proc[q].run)'
        OBVIOUS
      <3>1. Spent(proc[q].run) /\ green[proc[q].run] \in Nat
        BY <2>1, DaysAssumption DEF Allowed, IInv, TypeOK
      <3> QED
        BY <1>1, <3>1, DaysAssumption DEF Spent, Tick
    <2> QED
      BY <2>1, <2>2, <2>3 DEF Allowed, Tick
  <1>8. HonestRuns'
    BY DEF Tick, IInv, HonestRuns, HonestRun, Bad, Archiving
  <1> QED
    BY <1>2, <1>3, <1>5, <1>6, <1>7, <1>8 DEF IInv

-----------------------------------------------------------------------------
(* The invariant, and what it says.                                        *)

LEMMA InitIInv == ASSUME Init PROVE IInv
  <1>1. TypeOK
    BY StartAssumption, DaysAssumption DEF Init, TypeOK
  <1>2. Published /\ Alone /\ Working /\ Nights /\ Commanded
    BY StartAssumption DEF Init, Published, Alone, Working, Nights, Commanded, Archiving, At
  <1>3. HonestRuns
    BY DEF Init, HonestRuns, HonestRun
  <1> QED
    BY <1>1, <1>2, <1>3 DEF IInv

LEMMA NextIInv == ASSUME IInv, [Next]_vars PROVE IInv'
  <1>1. CASE UNCHANGED vars
    BY <1>1, StutterSafe
  <1>2. ASSUME NEW p \in Procs,
               \/ Backup(p) \/ Look(p) \/ Stage(p) \/ Touch(p) \/ Rename(p) \/ Unstage(p) \/ Check(p)
        PROVE  IInv'
    BY <1>2, BackupSafe, LookSafe, StageSafe, TouchSafe, RenameSafe, UnstageSafe, CheckSafe
  <1>3. ASSUME NEW p \in Procs,
               \/ MkRun(p) \/ List(p) \/ TarStart(p) \/ TarDone(p) \/ TarFails(p) \/ Judge(p) \/ Exit(p)
        PROVE  IInv'
    BY <1>3, MkRunSafe, ListSafe, TarStartSafe, TarDoneSafe, TarFailsSafe, JudgeSafe, ExitSafe
  <1>4. ASSUME NEW p \in Procs,
               \/ Prune(p) \/ RmRun(p) \/ PruneExit(p) \/ Kill(p)
               \/ \E r \in Ids : Each(p, r)
               \/ \E s \in Subjects : RmArchive(p, s)
        PROVE  IInv'
    BY <1>4, PruneSafe, RmRunSafe, PruneExitSafe, KillSafe, EachSafe, RmArchiveSafe
  <1>5. ASSUME \/ \E r \in Ids, s \in Subjects : OrphanTar(r, s)
               \/ \E s \in Subjects : Toggle(s)
               \/ Adopt \/ Tick
        PROVE  IInv'
    BY <1>5, OrphanTarSafe, ToggleSafe, AdoptSafe, TickSafe
  <1> QED
    BY <1>1, <1>2, <1>3, <1>4, <1>5 DEF Next

\* However many commands overlap, fail or are killed, the invariant holds: it
\* says what a command at work, a night and a removal have in common.
THEOREM BackupsSafe == Spec => []IInv
  <1>1. Init => IInv
    BY InitIInv
  <1>2. IInv /\ [Next]_vars => IInv'
    BY NextIInv
  <1> QED
    BY <1>1, <1>2, PTL DEF Spec

\* Every variable stays in its range, for any homes, retention and bounds.
THEOREM BackupsTyped == Spec => []TypeOK
  <1>1. IInv => TypeOK
    BY DEF IInv
  <1> QED
    BY <1>1, BackupsSafe, PTL

\* First runs at once: staging and renaming shows nobody a directory that
\* lacks its marker, so none of them refuses what another is just making.
THEOREM FirstRunsAgreeAlways == Spec => []FirstRunsAgree
  <1>1. IInv => FirstRunsAgree
    BY DEF IInv, Published, FirstRunsAgree, At
  <1> QED
    BY <1>1, BackupsSafe, PTL

\* An archive that tar did not finish, or that misses a file, is there only
\* while its run goes on or if that was killed.
THEOREM HonestAlways == Spec => []Honest
  <1>1. IInv => Honest
    BY DEF IInv, HonestRuns, HonestRun, Bad, Honest
  <1> QED
    BY <1>1, BackupsSafe, PTL

\* A night that exited 0 keeps all its archives until it is of age: no other
\* command, and no tar that outlives its command, writes or removes there.
THEOREM GreenWholeAlways == Spec => []GreenWhole
  <1>1. IInv => GreenWhole
    <2> SUFFICES ASSUME IInv, NEW r \in DOMAIN green, day < green[r] + Days PROVE Complete(r)
      BY DEF GreenWhole
    <2>1. Night(r) /\ day \in Nat /\ green[r] + Days \in Nat
      BY DaysAssumption DEF IInv, Nights, TypeOK
    <2> QED
      BY <2>1 DEF Night, Spent
  <1> QED
    BY <1>1, BackupsSafe, PTL

\* Of the nights there is a last one.
LEMMA LastNight ==
  ASSUME IInv, DOMAIN green # {}
  PROVE  \E r \in DOMAIN green : \A n \in DOMAIN green : ~(green[n] > green[r])
  <1> SUFFICES ASSUME \A r \in DOMAIN green : \E n \in DOMAIN green : green[n] > green[r]
               PROVE  FALSE
    OBVIOUS
  <1>1. day \in Nat /\ \A r \in DOMAIN green : green[r] \in 0..day
    BY DaysAssumption DEF IInv, TypeOK
  <1> DEFINE T == {k \in Nat : \E r \in DOMAIN green : green[r] >= k}
  <1>2. 0 \in T
    BY <1>1
  <1>3. \A k \in T \cap Nat : k + 1 \in T
    <2> SUFFICES ASSUME NEW k \in Nat, k \in T PROVE \E n \in DOMAIN green : green[n] >= k + 1
      OBVIOUS
    <2>1. PICK r \in DOMAIN green : green[r] >= k
      OBVIOUS
    <2>2. PICK n \in DOMAIN green : green[n] > green[r]
      OBVIOUS
    <2> QED
      BY <1>1, <2>1, <2>2
  <1> HIDE DEF T
  <1>4. Nat \subseteq T
    BY <1>2, <1>3, Induction
  <1>5. day + 1 \in T
    BY <1>1, <1>4
  <1> QED
    BY <1>1, <1>5 DEF T

\* Retention leaves a night that succeeded, whatever happened after it: the
\* last one is never spent.
THEOREM SomethingKeptAlways == Spec => []SomethingKept
  <1>1. IInv => SomethingKept
    <2> SUFFICES ASSUME IInv, DOMAIN green # {} PROVE \E r \in DOMAIN green : Complete(r)
      BY DEF SomethingKept
    <2>1. PICK r \in DOMAIN green : \A n \in DOMAIN green : ~(green[n] > green[r])
      BY LastNight
    <2> QED
      BY <2>1 DEF IInv, Nights, Night, Spent
  <1> QED
    BY <1>1, BackupsSafe, PTL
=============================================================================
