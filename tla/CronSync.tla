------------------------------ MODULE CronSync -------------------------------
(***************************************************************************)
(* agent-mgr cron-sync: lib/cron-sync.py, run inside the gateway's         *)
(* container, brings the jobs a spec declares into Hermes' scheduler by    *)
(* creating the missing ones.  It reads jobs.json once and decides on      *)
(* every row from that snapshot; the agent and the operator change jobs    *)
(* meanwhile, a create may fail before or after it has registered the job, *)
(* and the run may be killed between two rows, to be repeated later, with  *)
(* another spec or another home chat.                                      *)
(*                                                                         *)
(* A row's substance (schedule, prompt, script, skills) is one value of    *)
(* Contents.  Rows that load_spec refuses for their shape never get here.  *)
(* The agent's own crons, whose names no row has, are left out: the script *)
(* never looks at them.                                                    *)
(***************************************************************************)
CONSTANTS
    Names,      \* names a spec row may have
    Contents,
    Channels,   \* chats a job may deliver to
    Blank,      \* a target with nothing after its colon: plow_chat: before set-home
    Spaces,     \* a target of blanks with no colon in it
    HomeRef,    \* "${PLOW_HOME_CHANNEL}" in a row's deliver
    Rows,       \* the rows the operator may write
    NoRow,      \* the spec does not name it
    JobIds,     \* the bound on jobs Hermes holds at once
    NoJob

Destinations == Channels \cup {Blank, Spaces}

RowsOver(destinations) ==
    [ content : Contents, deliver : destinations, blocked : BOOLEAN ]

Jobs == [ name : Names, content : Contents, deliver : Destinations, paused : BOOLEAN ]

ASSUME RowsAssumption ==
    /\ Rows \subseteq RowsOver(Destinations \cup {HomeRef})
    /\ NoRow \notin RowsOver(Destinations \cup {HomeRef})
    /\ HomeRef \notin Destinations
    /\ Blank \notin Channels \cup {Spaces} /\ Spaces \notin Channels

ASSUME NoJobAssumption == NoJob \notin Jobs

Classes == {"blocked-live", "blocked", "create", "paused", "drifted", "ok", "duplicate"}

VARIABLES
    file,      \* cron/jobs.json: "absent", "readable" or "unreadable"
    jobs,      \* job id -> what Hermes holds
    pc,        \* "idle", "read" or "act": where the run is
    rows,      \* name -> its row, with deliver expanded
    plan,      \* what the run decided to do with each row
    todo,      \* rows it has not come to yet
    failed,    \* one of them failed the run
    outcome,   \* how the last run ended, until the next one
    disturbed  \* others have changed a job since the run read them (history)

run == <<pc, rows, plan, todo, failed, outcome>>

vars == <<file, jobs, run, disturbed>>

TypeOK ==
    /\ file \in {"absent", "readable", "unreadable"}
    /\ jobs \in [JobIds -> Jobs \cup {NoJob}]
    /\ pc \in {"idle", "read", "act"}
    /\ rows \in [Names -> RowsOver(Destinations) \cup {NoRow}]
    /\ plan \in [Names -> Classes]
    /\ todo \subseteq Names
    /\ failed \in BOOLEAN
    /\ outcome \in {"none", "exit 0", "exit 1"}
    /\ disturbed \in BOOLEAN

NoRows == [n \in Names |-> NoRow]
NoPlan == [n \in Names |-> "ok"]

Init ==
    /\ file = "absent"
    /\ jobs = [i \in JobIds |-> NoJob]
    /\ pc = "idle"
    /\ rows = NoRows
    /\ plan = NoPlan
    /\ todo = {}
    /\ failed = FALSE
    /\ outcome = "none"
    /\ disturbed = FALSE

Named(n) == {i \in JobIds : jobs[i] # NoJob /\ jobs[i].name = n}

Declared == {n \in Names : rows[n] # NoRow}

\* The job create_argv asks Hermes for.
JobOf(n) == [ name |-> n, content |-> rows[n].content, deliver |-> rows[n].deliver,
              paused |-> FALSE ]

-----------------------------------------------------------------------------
(* The scheduler around a run.                                             *)

Change(i, job) ==
    /\ jobs' = [jobs EXCEPT ![i] = job]
    /\ disturbed' = TRUE
    /\ UNCHANGED <<file, run>>

\* hermes cron create by hand or by the agent; under a name that is taken,
\* too.  Nobody registers a row's name while a run is at work.
RegisterJob(i, job) ==
    /\ pc = "idle"
    /\ file = "readable"
    /\ jobs[i] = NoJob
    /\ Change(i, job)

RemoveJob(i) == jobs[i] # NoJob /\ Change(i, NoJob)

PauseOrResume(i) ==
    /\ jobs[i] # NoJob
    /\ Change(i, [jobs[i] EXCEPT !.paused = ~@])

\* Wrong permissions, a damaged file, a shape the script does not know.
Damage ==
    /\ file = "readable"
    /\ file' = "unreadable"
    /\ UNCHANGED <<jobs, run, disturbed>>

Mend ==
    /\ file = "unreadable"
    /\ file' = "readable"
    /\ UNCHANGED <<jobs, run, disturbed>>

-----------------------------------------------------------------------------
(* The run.  What it held in memory is gone when it ends.                  *)

End(how) ==
    /\ pc' = "idle"
    /\ outcome' = how
    /\ rows' = IF how = "exit 0" THEN rows ELSE NoRows
    /\ plan' = NoPlan
    /\ todo' = {}
    /\ failed' = FALSE

\* Mutant: the reference itself would reach Hermes.
ExpandNothing(row, channel) == row

Expand(row, channel) ==
    IF row # NoRow /\ row.deliver = HomeRef THEN [row EXCEPT !.deliver = channel] ELSE row

\* Mutant: a blank destination is not refused.
LoadBlank(spec, channel) ==
    /\ pc = "idle"
    /\ rows' = [n \in Names |-> Expand(spec[n], channel)]
    /\ pc' = "read"
    /\ outcome' = "none"
    /\ UNCHANGED <<file, jobs, plan, todo, failed, disturbed>>

\* What load_spec lets pass: no reference to a variable that is unset or blank,
\* and something after the colon, if there is one.
Delivers(row, expanded) ==
    /\ expanded.deliver # Blank
    /\ row.deliver = HomeRef => expanded.deliver # Spaces

\* The spec is read on the host, the home chat from the home's dotenv; one row
\* that does not deliver refuses the whole run, and so does an empty spec.
LoadSpec(spec, channel) ==
    /\ pc = "idle"
    /\ LET expanded == [n \in Names |-> Expand(spec[n], channel)]
           named == {n \in Names : spec[n] # NoRow}
       IN  IF named # {} /\ \A n \in named : Delivers(spec[n], expanded[n])
           THEN /\ rows' = expanded
                /\ pc' = "read"
                /\ outcome' = "none"
                /\ UNCHANGED <<plan, todo, failed>>
           ELSE End("exit 1")
    /\ UNCHANGED <<file, jobs, disturbed>>

\* Mutant: a job that differs from its row is taken for it.
ClassifyNoDrift(n) ==
    IF \E i, j \in Named(n) : i # j THEN "duplicate"
    ELSE IF rows[n].blocked THEN (IF Named(n) # {} THEN "blocked-live" ELSE "blocked")
    ELSE IF Named(n) = {} THEN "create"
    ELSE IF \E i \in Named(n) : jobs[i].paused THEN "paused"
    ELSE "ok"

\* Mutant: of two jobs under one name only one is looked at.
ClassifyLastWins(n) ==
    IF rows[n].blocked THEN (IF Named(n) # {} THEN "blocked-live" ELSE "blocked")
    ELSE IF Named(n) = {} THEN "create"
    ELSE LET job == jobs[CHOOSE i \in Named(n) : TRUE]
         IN  IF job.paused THEN "paused" ELSE IF job # JobOf(n) THEN "drifted" ELSE "ok"

\* classify; a name two jobs have is refused before its class is looked at.
Classify(n) ==
    IF \E i, j \in Named(n) : i # j THEN "duplicate"
    ELSE IF rows[n].blocked THEN (IF Named(n) # {} THEN "blocked-live" ELSE "blocked")
    ELSE IF Named(n) = {} THEN "create"
    ELSE IF \E i \in Named(n) : jobs[i].paused THEN "paused"
    ELSE IF \E i \in Named(n) : jobs[i] # JobOf(n) THEN "drifted"
    ELSE "ok"

\* Mutant: a file that cannot be read counts as no jobs.
ReadAsEmpty ==
    /\ pc = "read"
    /\ plan' = [n \in Names |->
                  IF n \notin Declared THEN "ok"
                  ELSE IF file = "unreadable" THEN "create" ELSE Classify(n)]
    /\ todo' = Declared
    /\ disturbed' = FALSE
    /\ pc' = "act"
    /\ UNCHANGED <<file, jobs, rows, failed, outcome>>

\* registered, then classify over every row: only a missing file means that
\* nothing is registered; every other failure ends the run.
Registered ==
    /\ pc = "read"
    /\ IF file # "unreadable"
       THEN /\ plan' = [n \in Names |-> IF n \in Declared THEN Classify(n) ELSE "ok"]
            /\ todo' = Declared
            /\ disturbed' = FALSE
            /\ pc' = "act"
            /\ UNCHANGED <<rows, failed, outcome>>
       ELSE End("exit 1") /\ UNCHANGED disturbed
    /\ UNCHANGED <<file, jobs>>

\* hermes cron create: it may fail, also after it has registered the job.
\* Hermes has no use for a jobs.json it cannot read either.
Create(n) ==
    /\ plan[n] = "create"
    /\ \/ \E i \in JobIds :
            /\ jobs[i] = NoJob
            /\ file # "unreadable"
            /\ file' = "readable"
            /\ jobs' = [jobs EXCEPT ![i] = JobOf(n)]
            /\ failed' \in {failed, TRUE}
       \/ failed' = TRUE /\ UNCHANGED <<file, jobs>>

\* Every class but "ok" and "blocked" is refused loudly, and fails the run.
Report(n) ==
    /\ plan[n] # "create"
    /\ failed' = (failed \/ plan[n] \notin {"ok", "blocked"})
    /\ UNCHANGED <<file, jobs>>

\* The rows come in the file's order; any order is allowed here.
Act(n) ==
    /\ pc = "act"
    /\ n \in todo
    /\ Create(n) \/ Report(n)
    /\ todo' = todo \ {n}
    /\ UNCHANGED <<pc, rows, plan, outcome, disturbed>>

Finish ==
    /\ pc = "act"
    /\ todo = {}
    /\ End(IF failed THEN "exit 1" ELSE "exit 0")
    /\ UNCHANGED <<file, jobs, disturbed>>

\* The script, or the container it runs in, is killed.
Kill ==
    /\ pc # "idle"
    /\ End("exit 1")
    /\ UNCHANGED <<file, jobs, disturbed>>

-----------------------------------------------------------------------------
Scheduler ==
    \/ \E i \in JobIds, n \in Names, content \in Contents, c \in Channels :
          RegisterJob(i, [name |-> n, content |-> content, deliver |-> c, paused |-> FALSE])
    \/ \E i \in JobIds : RemoveJob(i) \/ PauseOrResume(i)
    \/ Damage \/ Mend

Run ==
    \/ \E spec \in [Names -> Rows \cup {NoRow}], channel \in Destinations :
          LoadSpec(spec, channel)
    \/ Registered \/ (\E n \in Names : Act(n)) \/ Finish \/ Kill

Next == Scheduler \/ Run

Spec == Init /\ [][Next]_vars

-----------------------------------------------------------------------------
(* Properties                                                              *)

\* cron-sync.py, "read as 'nothing is' duplicates every job": however often
\* the script is run, killed, or misled by a create that failed after it had
\* registered its job, it never creates a job under a name that has one.
NoDuplicates ==
    [][\A i \in JobIds :
         todo' # todo /\ jobs[i] = NoJob /\ jobs'[i] # NoJob
         => Named(jobs'[i].name) = {}]_vars

\* A row has exactly the one job it asks for; a blocked row has none.
Done(n) ==
    IF rows[n].blocked THEN Named(n) = {}
    ELSE \E i \in JobIds : Named(n) = {i} /\ jobs[i] = JobOf(n)

\* What exit 0 says ("paused, drifted, or blocked-but-live jobs are reported
\* loudly and fail the run"): unless others changed jobs since it read them,
\* every row is done.
GreenMeansConverged ==
    outcome = "exit 0" /\ ~disturbed => \A n \in Declared : Done(n)

\* "The silent-drop trap this spec exists to close": no job has a target with a
\* blank destination, although a deployed home has no PLOW_HOME_CHANNEL until
\* set-home.  A row may still say blanks without a colon: load_spec lets them
\* pass.
NoSilentDrop == \A i \in JobIds : jobs[i] # NoJob => jobs[i].deliver # Blank

\* Why the three hold: what the run has decided is still true when it comes to
\* the row, for nobody else registers the names of its rows meanwhile; and
\* what it has done stays done unless others undo it.
PlanInv ==
    /\ todo \subseteq Declared
    /\ pc # "act" => todo = {}
    /\ pc # "idle" => outcome = "none"
    /\ \A n \in Declared : rows[n].deliver # Blank
    /\ pc = "act" => \A n \in todo :
         plan[n] \in {"create", "blocked"} => Named(n) = {}
    /\ pc = "act" /\ ~disturbed => \A n \in Declared :
         /\ n \notin todo /\ ~failed => Done(n)
         /\ n \in todo /\ plan[n] \in {"ok", "blocked"} => Done(n)
         /\ n \in todo /\ plan[n] = "create" => ~rows[n].blocked
=============================================================================
