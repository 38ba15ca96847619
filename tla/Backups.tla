------------------------------- MODULE Backups -------------------------------
(***************************************************************************)
(* backup-homes and prune-backups under the documented nightly cron,       *)
(* `backup && prune': runs that overlap, are killed or fail for one home   *)
(* while the others are archived, a runs directory that two first runs     *)
(* make at once, and retention by the age of a run's directory.            *)
(* agent_mgr/backups.py, docs/HOWTO.md: Backups.                           *)
(***************************************************************************)
EXTENDS Naturals, Sequences

CONSTANTS
    Procs,        \* pids of backup-homes and of the prune after it
    Homes,        \* the order in which homes are archived
    Credentials,  \* the last archive: every ~/.plow-credentials-*
    Days,         \* retention
    MaxDay, MaxRuns,  \* bounds: of the clock, and of runs ever made
    RunsInit,     \* what may be at backup-homes/ at the beginning
    Reachable,    \* homes and credentials that are there at the beginning
    Detachable,   \* homes that are links to a disk which may go away
    NoRun,        \* a run that is not there
    Idle          \* a process that runs no command

Jobs == Append(Homes, Credentials)
Subjects == {Jobs[i] : i \in DOMAIN Jobs}
Ids == 1..MaxRuns

ASSUME HomesAssumption == Homes \in Seq(STRING) /\ Credentials \in STRING
ASSUME DaysAssumption == Days \in Nat \ {0} /\ MaxDay \in Nat /\ MaxRuns \in Nat

\* A lacking archive is well-formed and misses a file; a partial one is cut off.
Archives == [Subjects -> {"none", "partial", "lacking", "whole"}]
Runs == [mtime : 0..MaxDay, jobs : SUBSET Subjects, archives : Archives, killed : BOOLEAN]

\* A command that is at work: `todo' is what it has yet to archive, `old' the
\* runs it has yet to look at for pruning.
Commands ==
    [ pc     : {"look", "stage", "touch", "rename", "unstage", "check", "mkdir", "list", "tar",
                "judge", "exit", "prune", "each", "rmtree"},
      run    : Ids \cup {0},
      todo   : SUBSET DOMAIN Jobs,
      old    : SUBSET Ids,
      failed : BOOLEAN,
      since  : 0..MaxDay ]

\* What may be there at first; nobody has left the directory half made.
ASSUME StartAssumption ==
    /\ Reachable \subseteq Subjects /\ Detachable \subseteq Subjects
    /\ RunsInit \subseteq {"none", "marked", "foreign", "symlink"}
    /\ NoRun \notin Runs /\ Idle \notin Commands

VARIABLES
    day,       \* the clock
    present,   \* homes and credentials whose files can be reached
    runsDir,   \* backup-homes/: none, bare, marked, foreign or symlink
    staged,    \* pid -> its .backup-homes.<pid>: none, bare or marked
    runs,      \* id -> a run's directory, or NoRun
    proc,      \* pid -> its command, or Idle
    made,      \* how many runs were ever made
    green      \* id of a run whose backup exited 0 -> the day its directory last changed

vars == <<day, present, runsDir, staged, runs, proc, made, green>>

TypeOK ==
    /\ day \in 0..MaxDay
    /\ present \subseteq Subjects
    /\ runsDir \in {"none", "bare", "marked", "foreign", "symlink"}
    /\ staged \in [Procs -> {"none", "bare", "marked"}]
    /\ runs \in [Ids -> Runs \cup {NoRun}]
    /\ proc \in [Procs -> Commands \cup {Idle}]
    /\ made \in 0..MaxRuns
    /\ \A r \in Ids : r > made => runs[r] = NoRun
    /\ DOMAIN green \subseteq 1..made
    /\ green \in [DOMAIN green -> 0..day]

Init ==
    /\ day = 0
    /\ present = Reachable
    /\ runsDir \in RunsInit
    /\ staged = [p \in Procs |-> "none"]
    /\ runs = [r \in Ids |-> NoRun]
    /\ proc = [p \in Procs |-> Idle]
    /\ made = 0
    /\ green = [r \in {} |-> 0]

At(p, label) == proc[p] # Idle /\ proc[p].pc = label
Goto(p, label) == proc' = [proc EXCEPT ![p].pc = label]
End(p) == proc' = [proc EXCEPT ![p] = Idle]

-----------------------------------------------------------------------------
(* The runs directory.                                                     *)

Backup(p) ==
    /\ proc[p] = Idle
    /\ proc' = [proc EXCEPT ![p] = [ pc |-> "look", run |-> 0, todo |-> {}, old |-> {},
                                     failed |-> FALSE, since |-> day ]]
    /\ UNCHANGED <<day, present, runsDir, staged, runs, made, green>>

Look(p) ==
    /\ At(p, "look")
    /\ Goto(p, IF runsDir = "none" THEN "stage" ELSE "check")
    /\ UNCHANGED <<day, present, runsDir, staged, runs, made, green>>

\* What a killed command of this pid left makes mkdir fail, and is removed.
Stage(p) ==
    /\ At(p, "stage")
    /\ IF staged[p] = "none"
       THEN staged' = [staged EXCEPT ![p] = "bare"] /\ Goto(p, "touch")
       ELSE staged' = [staged EXCEPT ![p] = "none"] /\ End(p)
    /\ UNCHANGED <<day, present, runsDir, runs, made, green>>

Touch(p) ==
    /\ At(p, "touch")
    /\ staged' = [staged EXCEPT ![p] = "marked"]
    /\ Goto(p, "rename")
    /\ UNCHANGED <<day, present, runsDir, runs, made, green>>

\* Mutant: the directory is made in place, and its marker afterwards.
RenameBare(p) ==
    /\ At(p, "rename")
    /\ runsDir' = IF runsDir = "none" THEN "bare" ELSE IF runsDir = "bare" THEN "marked" ELSE runsDir
    /\ Goto(p, IF runsDir = "none" THEN "rename" ELSE "unstage")
    /\ UNCHANGED <<day, present, staged, runs, made, green>>

\* Renaming it onto a directory that is there by now fails, and that is ignored.
Rename(p) ==
    /\ At(p, "rename")
    /\ IF runsDir = "none"
       THEN runsDir' = staged[p] /\ staged' = [staged EXCEPT ![p] = "none"]
       ELSE UNCHANGED <<runsDir, staged>>
    /\ Goto(p, "unstage")
    /\ UNCHANGED <<day, present, runs, made, green>>

Unstage(p) ==
    /\ At(p, "unstage")
    /\ staged' = [staged EXCEPT ![p] = "none"]
    /\ Goto(p, "check")
    /\ UNCHANGED <<day, present, runsDir, runs, made, green>>

Check(p) ==
    /\ At(p, "check")
    /\ IF runsDir = "marked" THEN Goto(p, "mkdir") ELSE End(p)
    /\ UNCHANGED <<day, present, runsDir, staged, runs, made, green>>

-----------------------------------------------------------------------------
(* One run.                                                                *)

\* Its name holds the time and the pid, so it is nobody else's.
MkRun(p) ==
    /\ At(p, "mkdir")
    /\ made < MaxRuns
    /\ made' = made + 1
    /\ runs' = [runs EXCEPT ![made'] = [ mtime |-> day, jobs |-> {}, killed |-> FALSE,
                                         archives |-> [s \in Subjects |-> "none"] ]]
    /\ proc' = [proc EXCEPT ![p].pc = "list", ![p].run = made']
    /\ UNCHANGED <<day, present, runsDir, staged, green>>

\* What a glob finds and is a directory (a file, for a credential) is a job; a
\* run with no home at all fails.
List(p) ==
    /\ At(p, "list")
    /\ IF \E i \in DOMAIN Homes : Homes[i] \in present
       THEN /\ proc' = [proc EXCEPT ![p].pc = "tar",
                                    ![p].todo = {i \in DOMAIN Jobs : Jobs[i] \in present}]
            /\ runs' = [runs EXCEPT ![proc[p].run].jobs = present]
       ELSE End(p) /\ UNCHANGED runs
    /\ UNCHANGED <<day, present, runsDir, staged, green, made>>

\* The home, or the credentials, whose turn it is: the first of the list.
First(todo) == CHOOSE i \in todo : \A j \in todo : i <= j
Turn(p) == Jobs[First(proc[p].todo)]
Done(todo) == todo \ {First(todo)}

\* An archive that is made or removed makes the directory young; what tar then
\* writes to it does not.
Fill(r, s, what) == runs' = [runs EXCEPT ![r].archives[s] = what]
Enter(r, s, what) == runs' = [runs EXCEPT ![r].archives[s] = what, ![r].mtime = day]

\* tar creates the archive, unless the run's directory has gone.
TarStart(p) ==
    /\ At(p, "tar")
    /\ proc[p].todo # {}
    /\ runs[proc[p].run] # NoRun
    /\ runs[proc[p].run].archives[Turn(p)] = "none"
    /\ Enter(proc[p].run, Turn(p), "partial")
    /\ UNCHANGED <<day, present, runsDir, staged, proc, green, made>>

\* tar reports success, or only what a live home always brings.
TarDone(p) ==
    /\ At(p, "tar")
    /\ proc[p].todo # {}
    /\ Turn(p) \in present
    /\ runs[proc[p].run].archives[Turn(p)] = "partial"
    /\ Fill(proc[p].run, Turn(p), "whole")
    /\ proc' = [proc EXCEPT ![p].todo = Done(@)]
    /\ UNCHANGED <<day, present, runsDir, staged, green, made>>

\* tar could not read a file and went on without it, or gave up.
TarFails(p) ==
    /\ At(p, "tar")
    /\ proc[p].todo # {}
    /\ runs[proc[p].run].archives[Turn(p)] = "partial"
    /\ \E what \in {"partial", "lacking"} : Fill(proc[p].run, Turn(p), what)
    /\ Goto(p, "judge")
    /\ UNCHANGED <<day, present, runsDir, staged, green, made>>

\* Mutant: the archive of a home that failed is kept.
JudgeKeeping(p) ==
    /\ At(p, "judge")
    /\ proc' = [proc EXCEPT ![p].pc = "tar", ![p].todo = Done(@), ![p].failed = TRUE]
    /\ UNCHANGED <<day, present, runsDir, staged, runs, made, green>>

\* Mutant: one home that failed does not fail the night.
JudgeForgetting(p) ==
    /\ At(p, "judge")
    /\ Enter(proc[p].run, Turn(p), "none")
    /\ proc' = [proc EXCEPT ![p].pc = "tar", ![p].todo = Done(@)]
    /\ UNCHANGED <<day, present, runsDir, staged, green, made>>

\* An archive that tar did not finish is removed; the next home has its turn.
Judge(p) ==
    /\ At(p, "judge")
    /\ Enter(proc[p].run, Turn(p), "none")
    /\ proc' = [proc EXCEPT ![p].pc = "tar", ![p].todo = Done(@), ![p].failed = TRUE]
    /\ UNCHANGED <<day, present, runsDir, staged, green, made>>

\* The night is counted as one that succeeded.
Count(r) == green' = [n \in DOMAIN green \cup {r} |-> IF n = r THEN runs[r].mtime ELSE green[n]]

\* Mutant: the cron entry with `;' for `&&'.
ExitAnyway(p) ==
    /\ At(p, "tar") /\ proc[p].todo = {}
    /\ IF proc[p].failed THEN UNCHANGED green ELSE Count(proc[p].run)
    /\ Goto(p, "prune")
    /\ UNCHANGED <<day, present, runsDir, staged, runs, made>>

\* The exit status, and the cron entry's `&&'.
Exit(p) ==
    /\ At(p, "tar") /\ proc[p].todo = {}
    /\ IF proc[p].failed
       THEN End(p) /\ UNCHANGED green
       ELSE Goto(p, "prune") /\ Count(proc[p].run)
    /\ UNCHANGED <<day, present, runsDir, staged, runs, made>>

-----------------------------------------------------------------------------
(* prune-backups.                                                          *)

Aged(r, now) == runs[r].mtime + Days <= now

\* The time is taken once, and the directory is listed.
Prune(p) ==
    /\ At(p, "prune")
    /\ IF runsDir = "marked"
       THEN proc' = [proc EXCEPT ![p].pc = "each", ![p].since = day,
                                 ![p].old = {r \in Ids : runs[r] # NoRun}]
       ELSE End(p)
    /\ UNCHANGED <<day, present, runsDir, staged, runs, made, green>>

\* A child that has gone meanwhile, or is young, is passed over.
Each(p, r) ==
    /\ At(p, "each")
    /\ r \in proc[p].old
    /\ IF runs[r] # NoRun /\ Aged(r, proc[p].since)
       THEN proc' = [proc EXCEPT ![p].pc = "rmtree", ![p].run = r, ![p].old = @ \ {r}]
       ELSE proc' = [proc EXCEPT ![p].old = @ \ {r}]
    /\ UNCHANGED <<day, present, runsDir, staged, runs, made, green>>

\* rmtree unlinks one archive after another, which makes the directory young.
RmArchive(p, s) ==
    /\ At(p, "rmtree")
    /\ runs[proc[p].run] # NoRun
    /\ runs[proc[p].run].archives[s] # "none"
    /\ Enter(proc[p].run, s, "none")
    /\ UNCHANGED <<day, present, runsDir, staged, proc, green, made>>

\* Then the directory itself; if another prune had it first, this one fails.
RmRun(p) ==
    /\ At(p, "rmtree")
    /\ IF runs[proc[p].run] = NoRun
       THEN End(p) /\ UNCHANGED runs
       ELSE /\ \A s \in Subjects : runs[proc[p].run].archives[s] = "none"
            /\ runs' = [runs EXCEPT ![proc[p].run] = NoRun]
            /\ Goto(p, "each")
    /\ UNCHANGED <<day, present, runsDir, staged, green, made>>

PruneExit(p) ==
    /\ At(p, "each") /\ proc[p].old = {}
    /\ End(p)
    /\ UNCHANGED <<day, present, runsDir, staged, runs, made, green>>

-----------------------------------------------------------------------------
(* The world.                                                              *)

Archiving(p) == proc[p] # Idle /\ proc[p].pc \in {"list", "tar", "judge"}

\* A command is killed where it stands; its tar is not.
Kill(p) ==
    /\ proc[p] # Idle
    /\ runs' = IF Archiving(p) THEN [runs EXCEPT ![proc[p].run].killed = TRUE] ELSE runs
    /\ End(p)
    /\ UNCHANGED <<day, present, runsDir, staged, green, made>>

OrphanTar(r, s) ==
    /\ runs[r] # NoRun /\ runs[r].killed
    /\ runs[r].archives[s] = "partial"
    /\ \E what \in {"lacking", "whole"} : Fill(r, s, what)
    /\ UNCHANGED <<day, present, runsDir, staged, proc, green, made>>

\* The disk that a home is linked to goes away or comes back.
Toggle(s) ==
    /\ s \in Detachable
    /\ present' = (present \cup {s}) \ (present \cap {s})
    /\ UNCHANGED <<day, runsDir, staged, runs, proc, green, made>>

\* The operator touches the marker, as the refusal says.
Adopt ==
    /\ runsDir = "foreign"
    /\ runsDir' = "marked"
    /\ UNCHANGED <<day, present, staged, runs, proc, green, made>>

\* No command takes as long as runs are kept.
Tick ==
    /\ day < MaxDay
    /\ \A p \in Procs : proc[p] # Idle => day + 1 < proc[p].since + Days
    /\ day' = day + 1
    /\ UNCHANGED <<present, runsDir, staged, runs, proc, green, made>>

Next ==
    \/ \E p \in Procs :
          \/ Backup(p) \/ Look(p) \/ Stage(p) \/ Touch(p) \/ Rename(p) \/ Unstage(p) \/ Check(p)
          \/ MkRun(p) \/ List(p) \/ TarStart(p) \/ TarDone(p) \/ TarFails(p) \/ Judge(p) \/ Exit(p)
          \/ Prune(p) \/ RmRun(p) \/ PruneExit(p) \/ Kill(p)
          \/ \E r \in Ids : Each(p, r)
          \/ \E s \in Subjects : RmArchive(p, s)
    \/ \E r \in Ids, s \in Subjects : OrphanTar(r, s)
    \/ \E s \in Subjects : Toggle(s)
    \/ Adopt \/ Tick

Spec == Init /\ [][Next]_vars

-----------------------------------------------------------------------------
(* Properties.                                                             *)

\* Of first runs at once, whoever comes to look finds the marker already in
\* place: none refuses a directory that another of them is just making.
FirstRunsAgree ==
    \A p \in Procs : At(p, "check") => runsDir \notin {"none", "bare"}

Complete(r) == runs[r] # NoRun /\ \A s \in runs[r].jobs : runs[r].archives[s] = "whole"

\* A night that succeeded keeps every archive it set out to make, until the run
\* is of age.
GreenWhole ==
    \A r \in DOMAIN green :
        day < green[r] + Days => Complete(r)

\* An archive that misses something is there only while its run goes on, or if
\* that run was killed: one that stays is worth restoring.
Honest ==
    \A r \in Ids, s \in Subjects :
        runs[r] # NoRun /\ runs[r].archives[s] \in {"partial", "lacking"}
            => runs[r].killed \/ \E p \in Procs : Archiving(p) /\ proc[p].run = r

\* However many nights fail, are killed or overlap after it, and however long,
\* retention leaves a night that succeeded.
SomethingKept == DOMAIN green # {} => \E r \in DOMAIN green : Complete(r)
=============================================================================
