--------------------------- MODULE CronSyncProofs ----------------------------
(***************************************************************************)
(* The theorems about CronSync, for every spec, every set of chats and any *)
(* number of jobs.                                                         *)
(***************************************************************************)
EXTENDS CronSync, TLAPS

IInv == TypeOK /\ PlanInv /\ GreenMeansConverged /\ NoSilentDrop

LEMMA InitIInv == Init => IInv
  BY DEF Init, IInv, TypeOK, PlanInv, GreenMeansConverged, NoSilentDrop, NoRows, NoPlan,
         Declared, Classes

\* Expanding the home chat into a row leaves a row without a reference.
LEMMA ExpandTyped ==
  ASSUME NEW row \in Rows \cup {NoRow}, NEW channel \in Destinations
  PROVE  /\ row # NoRow => Expand(row, channel) \in RowsOver(Destinations)
         /\ row = NoRow => Expand(row, channel) = NoRow
  BY RowsAssumption DEF Expand, RowsOver, Destinations

LEMMA RowNotNull == NoRow \notin RowsOver(Destinations)
  BY RowsAssumption DEF RowsOver, Destinations

LEMMA ClassifyTyped == \A n : Classify(n) \in Classes
  BY DEF Classify, Classes

\* What a class says of the jobs it was read from.
LEMMA ClassifyMeans ==
  ASSUME TypeOK, NEW n \in Declared
  PROVE  /\ Classify(n) \in {"create", "blocked"} => Named(n) = {}
         /\ Classify(n) \in {"ok", "blocked"} => Done(n)
         /\ Classify(n) = "create" => ~rows[n].blocked
  <1>1. CASE Classify(n) = "ok"
    <2>1. PICK i : i \in Named(n)
      BY <1>1 DEF Classify
    <2>2. Named(n) = {i}
      BY <1>1, <2>1 DEF Classify
    <2>3. jobs[i] = JobOf(n) /\ ~rows[n].blocked
      BY <1>1, <2>1 DEF Classify
    <2> QED
      BY <1>1, <2>1, <2>2, <2>3 DEF Done, Named
  <1>2. CASE Classify(n) # "ok"
    BY <1>2 DEF Classify, Done
  <1> QED
    BY <1>1, <1>2

-----------------------------------------------------------------------------
(* The steps of others.                                                    *)

\* Whether the file can be read is no concern of a run that has read it.
LEMMA FileSafe ==
  ASSUME IInv, file' \in {"absent", "readable", "unreadable"}, UNCHANGED <<jobs, run, disturbed>>
  PROVE  IInv'
  <1>1. TypeOK'
    BY DEF IInv, TypeOK, run
  <1>2. /\ UNCHANGED <<pc, rows, plan, todo, failed, outcome, jobs, disturbed>>
        /\ outcome' = outcome /\ (disturbed' <=> disturbed)
    BY DEF run
  <1>3. Declared' = Declared /\ \A n : Named(n)' = Named(n) /\ (Done(n)' <=> Done(n))
    BY <1>2 DEF Declared, Done, Named, JobOf
  <1>4. PlanInv'
    <2>1. PlanInv
      BY DEF IInv
    <2> QED
      BY <1>2, <1>3, <2>1 DEF PlanInv
  <1>6. GreenMeansConverged'
    <2>1. CASE outcome = "exit 0" /\ ~disturbed
      <3>1. \A n \in Declared : Done(n)
        BY <2>1 DEF IInv, GreenMeansConverged
      <3> QED
        BY <1>3, <3>1 DEF GreenMeansConverged
    <2>2. CASE ~(outcome = "exit 0" /\ ~disturbed)
      BY <1>2, <2>2 DEF GreenMeansConverged
    <2> QED
      BY <2>1, <2>2
  <1>5. NoSilentDrop'
    BY <1>2 DEF IInv, NoSilentDrop
  <1> QED
    BY <1>1, <1>4, <1>5, <1>6 DEF IInv

\* A job that is removed or paused leaves no name with jobs it had not.
LEMMA ChangeSafe ==
  ASSUME IInv, NEW i \in JobIds, NEW job \in Jobs \cup {NoJob}, Change(i, job),
         job # NoJob => job.deliver # Blank,
         job = NoJob \/ pc = "idle" \/ (jobs[i] # NoJob /\ job.name = jobs[i].name)
  PROVE  IInv'
  <1>1. TypeOK'
    BY DEF IInv, TypeOK, Change, run
  <1>2. NoSilentDrop'
    BY DEF IInv, TypeOK, NoSilentDrop, Change
  <1>3. pc # "idle" => \A n \in Names : Named(n) = {} => Named(n)' = {}
    BY DEF IInv, TypeOK, Change, Named, run
  <1>4. PlanInv'
    BY <1>3 DEF IInv, TypeOK, PlanInv, Change, run, Declared
  <1>5. GreenMeansConverged'
    BY DEF GreenMeansConverged, Change
  <1> QED
    BY <1>1, <1>2, <1>4, <1>5 DEF IInv

LEMMA SchedulerSafe == IInv /\ Scheduler => IInv'
  <1> SUFFICES ASSUME IInv, Scheduler PROVE IInv'
    OBVIOUS
  <1>1. ASSUME NEW i \in JobIds, NEW n \in Names, NEW content \in Contents, NEW c \in Channels,
               RegisterJob(i, [name |-> n, content |-> content, deliver |-> c, paused |-> FALSE])
        PROVE  IInv'
    <2> DEFINE job == [name |-> n, content |-> content, deliver |-> c, paused |-> FALSE]
    <2>1. job \in Jobs /\ job.deliver # Blank
      BY RowsAssumption DEF Jobs, Destinations
    <2>2. Change(i, job) /\ pc = "idle"
      BY <1>1 DEF RegisterJob
    <2> HIDE DEF job
    <2> QED
      BY <2>1, <2>2, ChangeSafe
  <1>2. ASSUME NEW i \in JobIds, RemoveJob(i) PROVE IInv'
    BY <1>2, ChangeSafe DEF RemoveJob
  <1>3. ASSUME NEW i \in JobIds, PauseOrResume(i) PROVE IInv'
    <2> DEFINE job == [jobs[i] EXCEPT !.paused = ~@]
    <2>1. jobs[i] \in Jobs /\ Change(i, job) /\ jobs[i] # NoJob
      BY <1>3 DEF PauseOrResume, IInv, TypeOK
    <2>2. job \in Jobs /\ job.name = jobs[i].name /\ job.deliver = jobs[i].deliver
      BY <2>1 DEF Jobs
    <2>3. job.deliver # Blank
      BY <2>1, <2>2 DEF IInv, NoSilentDrop
    <2> HIDE DEF job
    <2> QED
      BY <2>1, <2>2, <2>3, ChangeSafe
  <1>4. CASE Damage \/ Mend
    BY <1>4, FileSafe DEF Damage, Mend
  <1> QED
    BY <1>1, <1>2, <1>3, <1>4 DEF Scheduler

-----------------------------------------------------------------------------
(* The steps of the run.                                                   *)

\* A run that ends badly leaves nothing to vouch for.
LEMMA EndSafe ==
  ASSUME IInv, NEW how \in {"exit 0", "exit 1"}, End(how), UNCHANGED <<file, jobs, disturbed>>,
         how = "exit 0" /\ ~disturbed => \A n \in Declared : Done(n)
  PROVE  IInv'
  <1>1. TypeOK'
    BY DEF IInv, TypeOK, End, NoRows, NoPlan, Classes
  <1>2. Declared' \subseteq Declared /\ \A n \in Declared' : rows'[n] = rows[n]
    BY DEF IInv, TypeOK, End, Declared, NoRows
  <1>3. PlanInv'
    BY <1>2 DEF IInv, PlanInv, End
  <1>4. how = "exit 0" => rows' = rows
    BY DEF End
  <1>5. GreenMeansConverged'
    BY <1>4 DEF End, GreenMeansConverged, Declared, Done, Named, JobOf
  <1>6. NoSilentDrop'
    BY DEF IInv, NoSilentDrop
  <1> QED
    BY <1>1, <1>3, <1>5, <1>6 DEF IInv

LEMMA LoadSafe ==
  ASSUME IInv, NEW spec \in [Names -> Rows \cup {NoRow}], NEW channel \in Destinations,
         LoadSpec(spec, channel)
  PROVE  IInv'
  <1> DEFINE expanded == [n \in Names |-> Expand(spec[n], channel)]
             named == {n \in Names : spec[n] # NoRow}
  <1>1. CASE named # {} /\ \A n \in named : Delivers(spec[n], expanded[n])
    <2>1. /\ rows' = expanded /\ pc' = "read" /\ outcome' = "none"
          /\ UNCHANGED <<plan, todo, failed, file, jobs, disturbed>> /\ pc = "idle"
      BY <1>1 DEF LoadSpec
    <2>2. \A n \in Names : /\ spec[n] # NoRow => expanded[n] \in RowsOver(Destinations)
                           /\ spec[n] = NoRow => expanded[n] = NoRow
      BY ExpandTyped
    <2>3. Declared' = named
      BY <2>1, <2>2, RowNotNull DEF Declared
    <2>4. expanded \in [Names -> RowsOver(Destinations) \cup {NoRow}]
      BY <2>2
    <2> HIDE DEF expanded
    <2>5. TypeOK'
      BY <2>1, <2>4 DEF IInv, TypeOK
    <2>6. PlanInv'
      BY <1>1, <2>1, <2>3 DEF IInv, PlanInv, Delivers
    <2> QED
      BY <2>1, <2>5, <2>6 DEF IInv, GreenMeansConverged, NoSilentDrop
  <1>2. CASE ~(named # {} /\ \A n \in named : Delivers(spec[n], expanded[n]))
    <2>1. End("exit 1") /\ UNCHANGED <<file, jobs, disturbed>>
      BY <1>2 DEF LoadSpec
    <2> QED
      BY <2>1, EndSafe
  <1> QED
    BY <1>1, <1>2

LEMMA RegisteredSafe == IInv /\ Registered => IInv'
  <1> SUFFICES ASSUME IInv, Registered PROVE IInv'
    OBVIOUS
  <1>1. CASE file = "unreadable"
    <2>1. End("exit 1") /\ UNCHANGED <<file, jobs, disturbed>>
      BY <1>1 DEF Registered
    <2> QED
      BY <2>1, EndSafe
  <1>2. CASE file # "unreadable"
    <2>1. /\ plan' = [n \in Names |-> IF n \in Declared THEN Classify(n) ELSE "ok"]
          /\ todo' = Declared /\ disturbed' = FALSE /\ pc' = "act" /\ pc = "read"
          /\ UNCHANGED <<rows, failed, outcome, file, jobs>>
      BY <1>2 DEF Registered
    <2>2. Declared \subseteq Names /\ Declared' = Declared
      BY <2>1 DEF Declared
    <2>3. TypeOK'
      BY <2>1, <2>2, ClassifyTyped DEF IInv, TypeOK, Classes
    <2>4. \A n \in Names : Named(n)' = Named(n) /\ (Done(n)' <=> Done(n))
      BY <2>1 DEF Named, Done, JobOf
    <2>5. \A n \in Declared : plan'[n] = Classify(n)
      BY <2>1, <2>2
    <2>6. PlanInv'
      BY <2>1, <2>2, <2>4, <2>5, ClassifyMeans DEF IInv, PlanInv
    <2> QED
      BY <2>1, <2>3, <2>6 DEF IInv, PlanInv, GreenMeansConverged, NoSilentDrop
  <1> QED
    BY <1>1, <1>2

\* A created job is the row's only one, and no other row's.
LEMMA CreateSafe ==
  ASSUME IInv, NEW n \in Names, Act(n), Create(n)
  PROVE  IInv'
  <1>1. /\ pc = "act" /\ n \in todo /\ plan[n] = "create" /\ n \in Declared
        /\ todo' = todo \ {n}
        /\ UNCHANGED <<pc, rows, plan, outcome, disturbed>>
        /\ outcome = "none" /\ Named(n) = {} /\ rows[n] \in RowsOver(Destinations)
        /\ rows[n].deliver # Blank
        /\ Declared' = Declared /\ \A m \in Names : JobOf(m)' = JobOf(m)
    BY DEF IInv, PlanInv, TypeOK, Act, Create, Declared, JobOf
  <1>4. JobOf(n) \in Jobs
    BY <1>1 DEF JobOf, Jobs, RowsOver
  <1>2. CASE jobs' # jobs
    <2>1. PICK i \in JobIds : /\ jobs[i] = NoJob /\ file' = "readable"
                              /\ jobs' = [jobs EXCEPT ![i] = JobOf(n)]
                              /\ failed' \in {failed, TRUE}
      BY <1>2 DEF Create
    <2>2. JobOf(n) \in Jobs /\ JobOf(n).name = n /\ JobOf(n).deliver # Blank /\ JobOf(n) # NoJob
      BY <1>1, <1>4, NoJobAssumption DEF JobOf
    <2>3. Named(n)' = {i} /\ jobs'[i] = JobOf(n)
      BY <1>1, <2>1, <2>2 DEF Named, IInv, TypeOK
    <2>4. \A m \in Names \ {n} : Named(m)' = Named(m) /\ i \notin Named(m)
      BY <2>1, <2>2 DEF Named, IInv, TypeOK
    <2>5. TypeOK'
      BY <1>1, <2>1, <2>2 DEF IInv, TypeOK
    <2>6. ASSUME NEW m \in Names \ {n} PROVE Done(m)' <=> Done(m)
      <3>1. \A j \in Named(m) : jobs'[j] = jobs[j]
        BY <2>1, <2>4 DEF Named, IInv, TypeOK
      <3>2. Named(m)' = Named(m) /\ rows' = rows /\ JobOf(m)' = JobOf(m)
        BY <1>1, <2>4
      <3> QED
        BY <3>1, <3>2 DEF Done
    <2>7. ~disturbed => Done(n)'
      BY <1>1, <2>3 DEF IInv, PlanInv, Done
    <2>8. PlanInv'
      <3>1. \A m \in todo' : plan'[m] \in {"create", "blocked"} => Named(m)' = {}
        BY <1>1, <2>4 DEF IInv, PlanInv, Declared
      <3>2. ~disturbed' => \A m \in Declared' :
              /\ m \notin todo' /\ ~failed' => Done(m)'
              /\ m \in todo' /\ plan'[m] \in {"ok", "blocked"} => Done(m)'
              /\ m \in todo' /\ plan'[m] = "create" => ~rows'[m].blocked
        BY <1>1, <2>1, <2>6, <2>7 DEF IInv, TypeOK, PlanInv, Declared
      <3> QED
        BY <1>1, <3>1, <3>2 DEF IInv, PlanInv
    <2>9. NoSilentDrop'
      BY <2>1, <2>2 DEF IInv, TypeOK, NoSilentDrop
    <2> QED
      BY <1>1, <2>5, <2>8, <2>9 DEF IInv, GreenMeansConverged
  <1>3. CASE jobs' = jobs
    <2>1. UNCHANGED jobs /\ failed' = TRUE /\ file' \in {file, "readable"}
      <3>1. \A i \in JobIds : jobs[i] = NoJob => jobs' # [jobs EXCEPT ![i] = JobOf(n)]
        BY <1>3, <1>4, NoJobAssumption DEF IInv, TypeOK
      <3> QED
        BY <1>3, <3>1 DEF Create
    <2>2. TypeOK'
      BY <1>1, <2>1 DEF IInv, TypeOK
    <2>3. \A m \in Names : Named(m)' = Named(m) /\ (Done(m)' <=> Done(m))
      BY <1>1, <2>1 DEF Named, Done, JobOf
    <2>4. PlanInv'
      BY <1>1, <2>1, <2>3 DEF IInv, PlanInv, Declared
    <2> QED
      BY <1>1, <2>1, <2>2, <2>4 DEF IInv, GreenMeansConverged, NoSilentDrop
  <1> QED
    BY <1>2, <1>3

LEMMA ReportSafe ==
  ASSUME IInv, NEW n \in Names, Act(n), Report(n)
  PROVE  IInv'
  <1>1. /\ pc = "act" /\ n \in todo /\ plan[n] # "create" /\ todo' = todo \ {n}
        /\ UNCHANGED <<file, jobs, pc, rows, plan, outcome, disturbed>>
        /\ failed' = (failed \/ plan[n] \notin {"ok", "blocked"})
        /\ outcome = "none" /\ Declared' = Declared
    BY DEF IInv, PlanInv, Act, Report, Declared
  <1>2. TypeOK'
    BY <1>1 DEF IInv, TypeOK
  <1>3. \A m \in Names : Named(m)' = Named(m) /\ (Done(m)' <=> Done(m))
    BY <1>1 DEF Named, Done, JobOf
  <1>4. PlanInv'
    BY <1>1, <1>3 DEF IInv, TypeOK, PlanInv, Declared
  <1> QED
    BY <1>1, <1>2, <1>4 DEF IInv, GreenMeansConverged, NoSilentDrop

LEMMA FinishSafe == IInv /\ (Finish \/ Kill) => IInv'
  <1> SUFFICES ASSUME IInv, Finish \/ Kill PROVE IInv'
    OBVIOUS
  <1>1. CASE Finish
    <2> DEFINE how == IF failed THEN "exit 1" ELSE "exit 0"
    <2>1. End(how) /\ UNCHANGED <<file, jobs, disturbed>> /\ how \in {"exit 0", "exit 1"}
      BY <1>1 DEF Finish
    <2>2. how = "exit 0" /\ ~disturbed => \A n \in Declared : Done(n)
      BY <1>1 DEF Finish, IInv, PlanInv
    <2> HIDE DEF how
    <2> QED
      BY <2>1, <2>2, EndSafe
  <1>2. CASE Kill
    BY <1>2, EndSafe DEF Kill
  <1> QED
    BY <1>1, <1>2

LEMMA NextIInv == IInv /\ [Next]_vars => IInv'
  <1> SUFFICES ASSUME IInv, [Next]_vars PROVE IInv'
    OBVIOUS
  <1>1. CASE Scheduler
    BY <1>1, SchedulerSafe
  <1>2. ASSUME NEW n \in Names, Act(n) PROVE IInv'
    BY <1>2, CreateSafe, ReportSafe DEF Act
  <1>3. CASE UNCHANGED vars
    BY <1>3, FileSafe DEF vars, IInv, TypeOK
  <1> QED
    BY <1>1, <1>2, <1>3, LoadSafe, RegisteredSafe, FinishSafe DEF Next, Run

-----------------------------------------------------------------------------
LEMMA Inductive == Spec => []IInv
  BY InitIInv, NextIInv, PTL DEF Spec

\* Every reachable state of a run and the scheduler is typed.
THEOREM RunTyped == Spec => []TypeOK
  BY Inductive, PTL DEF IInv

\* What a run has decided about a row still holds when it comes to that row.
THEOREM PlanHolds == Spec => []PlanInv
  BY Inductive, PTL DEF IInv

\* A run that exits 0 has brought every row of its spec into the scheduler,
\* whatever an earlier run left undone.
THEOREM ExitZeroConverged == Spec => []GreenMeansConverged
  BY Inductive, PTL DEF IInv

\* No job without a destination is ever created.
THEOREM EveryJobDelivers == Spec => []NoSilentDrop
  BY Inductive, PTL DEF IInv

\* Running cron-sync again, after any end of the run before, never gives a
\* name a second job.
THEOREM NeverTwice == Spec => NoDuplicates
  <1> DEFINE Once == \A i \in JobIds :
                       todo' # todo /\ jobs[i] = NoJob /\ jobs'[i] # NoJob
                       => Named(jobs'[i].name) = {}
  <1>1. IInv /\ [Next]_vars => [Once]_vars
    <2> SUFFICES ASSUME IInv, Next, NEW i \in JobIds,
                        todo' # todo, jobs[i] = NoJob, jobs'[i] # NoJob
                 PROVE  Named(jobs'[i].name) = {}
      OBVIOUS
    <2>1. PICK n \in Names : Act(n) /\ Create(n)
      BY DEF Next, Run, Scheduler, RegisterJob, RemoveJob, PauseOrResume, Change, Damage, Mend,
             run, LoadSpec, Registered, Act, Report, Finish, Kill
    <2>2. jobs'[i] = JobOf(n)
      BY <2>1 DEF Create, IInv, TypeOK
    <2>3. jobs'[i].name = n /\ Named(n) = {}
      BY <2>1, <2>2 DEF JobOf, Act, Create, IInv, PlanInv
    <2> QED
      BY <2>3
  <1> QED
    BY <1>1, Inductive, PTL DEF Spec, NoDuplicates
=============================================================================
