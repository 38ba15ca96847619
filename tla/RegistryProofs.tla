--------------------------- MODULE RegistryProofs ----------------------------
(***************************************************************************)
(* The theorems about Registry, for every set of names, repositories and   *)
(* commands, as long as one writer is at work at a time.                   *)
(***************************************************************************)
EXTENDS Registry, TLAPS

OneWriter == \A w, v \in Writers : w = v

\* A writer at work: nobody else changes the file, nothing of its name runs,
\* and a name that `new' found free still is.
EditsHold ==
    \A w \in Writers :
        edit[w] # NoEdit =>
            /\ Retired(edit[w].name)
            /\ edit[w].pc = "replace" => edit[w].rows = file
            /\ edit[w].new /\ edit[w].pc # "lookup" => file[edit[w].name] = NoRepo

\* The row a command read is still its row.
RunsStay == \A p \in Procs : proc[p] # NoCommand => file[proc[p].name] = proc[p].repo

\* What a sweep without doubt has shown of the rows it has passed.
Passed(c, m) == m # c.name /\ m \notin c.todo /\ ~c.doubt

SweptClaims ==
    \A p \in Procs, m \in Names :
        At(p, "sweep") /\ Passed(proc[p], m) /\ claim[m] # NoRepo
            => HomeDir[m][claim[m]] # HomeDir[proc[p].name][proc[p].repo]

\* Two sweeps that have passed each other's rows are about two directories.
SweptPairs ==
    \A p, q \in Procs :
        At(p, "sweep") /\ At(q, "sweep") /\ Passed(proc[p], proc[q].name) /\ Passed(proc[q], proc[p].name)
            => HomeDir[proc[p].name][proc[p].repo] # HomeDir[proc[q].name][proc[q].repo]

IInv ==
    /\ TypeOK /\ EditsHold /\ RunsStay /\ RowsStay
    /\ SweptClaims /\ SweptPairs /\ Exclusive

LEMMA InitIInv == Init => IInv
  BY IdleAssumption, NullAssumption
  DEF Init, IInv, TypeOK, Registries, EditsHold, RunsStay, RowsStay, SweptClaims, SweptPairs,
      Exclusive, At

-----------------------------------------------------------------------------
(* The writers' steps.                                                     *)

\* Steps of a writer that leave the file alone concern only the edits.
LEMMA EditOnly ==
  ASSUME IInv, UNCHANGED <<file, proc, claim>>, broken' \subseteq Repos,
         edit' \in [Writers -> Edits \cup {NoEdit}], EditsHold'
  PROVE  IInv'
  <1>1. TypeOK' /\ RunsStay' /\ RowsStay' /\ Exclusive'
    BY DEF IInv, TypeOK, RunsStay, RowsStay, Exclusive
  <1>2. SweptClaims' /\ SweptPairs'
    BY DEF IInv, SweptClaims, SweptPairs, At, Passed
  <1> QED
    BY <1>1, <1>2 DEF IInv

\* An edit that ends leaves the others as they are.
LEMMA EndEditHolds ==
  ASSUME IInv, NEW w \in Writers, EndEdit(w), UNCHANGED <<file, proc, claim>>
  PROVE  edit' \in [Writers -> Edits \cup {NoEdit}] /\ EditsHold'
  BY DEF IInv, TypeOK, EditsHold, EndEdit, Retired

LEMMA StartEditSafe ==
  ASSUME IInv, NEW w \in Writers, NEW n \in Names, NEW row \in Repos \cup {NoRepo},
         NEW new \in BOOLEAN, StartEdit(w, n, row, new)
  PROVE  IInv'
  <1> DEFINE e == [ pc |-> IF new THEN "lookup" ELSE "read",
                    name |-> n, row |-> row, new |-> new, rows |-> file ]
  <1>1. e \in Edits /\ edit' = [edit EXCEPT ![w] = e]
    BY DEF StartEdit, Edits, IInv, TypeOK
  <1>2. edit' \in [Writers -> Edits \cup {NoEdit}]
    BY <1>1 DEF IInv, TypeOK
  <1>3. EditsHold'
    <2> SUFFICES ASSUME NEW v \in Writers, edit'[v] # NoEdit
                 PROVE  /\ Retired(edit'[v].name)
                        /\ edit'[v].pc = "replace" => edit'[v].rows = file
                        /\ edit'[v].new /\ edit'[v].pc # "lookup" => file[edit'[v].name] = NoRepo
      <3>1. UNCHANGED <<file, proc, claim>>
        BY DEF StartEdit
      <3> QED
        BY <3>1 DEF EditsHold, Retired
    <2>1. CASE v = w
      <3>1. edit'[v] = e
        BY <1>1, <2>1 DEF IInv, TypeOK
      <3> QED
        BY <3>1 DEF StartEdit, Retired
    <2>2. CASE v # w
      <3>1. edit'[v] = edit[v]
        BY <1>1, <2>2 DEF IInv, TypeOK
      <3> QED
        BY <3>1 DEF IInv, EditsHold
    <2> QED
      BY <2>1, <2>2
  <1> QED
    BY <1>2, <1>3, EditOnly DEF StartEdit, IInv, TypeOK

LEMMA LookupSafe == ASSUME IInv, NEW w \in Writers, Lookup(w) PROVE IInv'
  <1>1. edit[w] \in Edits
    BY DEF Lookup, Editing, IInv, TypeOK
  <1>2. CASE EndEdit(w)
    BY <1>2, EndEditHolds, EditOnly DEF Lookup, IInv, TypeOK
  <1>3. CASE file[edit[w].name] = NoRepo /\ edit' = [edit EXCEPT ![w].pc = "read"]
    <2>1. /\ edit'[w] \in Edits /\ edit'[w].pc = "read" /\ edit'[w].name = edit[w].name
          /\ \A v \in Writers : v # w => edit'[v] = edit[v]
      BY <1>1, <1>3 DEF Edits, IInv, TypeOK
    <2>2. edit' \in [Writers -> Edits \cup {NoEdit}]
      BY <1>3, <2>1 DEF IInv, TypeOK
    <2>3. EditsHold'
      BY <1>1, <1>3, <2>1, IdleAssumption DEF IInv, EditsHold, Lookup, Editing, Retired
    <2> QED
      BY <2>2, <2>3, EditOnly DEF Lookup, IInv, TypeOK
  <1> QED
    BY <1>2, <1>3 DEF Lookup

LEMMA ReadRowsSafe == ASSUME IInv, NEW w \in Writers, ReadRows(w) PROVE IInv'
  <1>1. edit[w] \in Edits /\ file \in Registries
    BY DEF ReadRows, Editing, IInv, TypeOK
  <1>2. CASE EndEdit(w)
    BY <1>2, EndEditHolds, EditOnly DEF ReadRows, IInv, TypeOK
  <1>3. CASE edit' = [edit EXCEPT ![w].pc = "replace", ![w].rows = file]
    <2>1. /\ edit'[w] \in Edits /\ edit'[w].pc = "replace" /\ edit'[w].rows = file
          /\ edit'[w].name = edit[w].name /\ edit'[w].new = edit[w].new
          /\ \A v \in Writers : v # w => edit'[v] = edit[v]
      BY <1>1, <1>3 DEF Edits, IInv, TypeOK
    <2>2. edit' \in [Writers -> Edits \cup {NoEdit}]
      BY <1>3, <2>1 DEF IInv, TypeOK
    <2>3. EditsHold'
      <3>1. /\ UNCHANGED <<file, proc, claim>>
            /\ edit[w] # NoEdit /\ edit[w].pc = "read"
        BY DEF ReadRows, Editing
      <3>2. /\ Retired(edit[w].name)
            /\ edit[w].new => file[edit[w].name] = NoRepo
        BY <3>1 DEF IInv, EditsHold
      <3> QED
        BY <2>1, <3>1, <3>2 DEF IInv, EditsHold, Retired
    <2> QED
      BY <2>2, <2>3, EditOnly DEF ReadRows, IInv, TypeOK
  <1> QED
    BY <1>2, <1>3 DEF ReadRows

\* The rename changes the one row that nothing uses: every other row of the
\* file that was read is the row of the file that is replaced.
LEMMA ReplaceSafe == ASSUME OneWriter, IInv, NEW w \in Writers, Replace(w) PROVE IInv'
  <1> DEFINE n == edit[w].name
  <1>1. edit[w] \in Edits /\ edit[w].rows = file /\ Retired(n) /\ n \in Names
    BY DEF Replace, Editing, IInv, TypeOK, EditsHold, Edits
  <1>2. file' = [file EXCEPT ![n] = edit[w].row]
    BY <1>1 DEF Replace, Replacement
  <1>3. edit' \in [Writers -> Edits \cup {NoEdit}] /\ \A v \in Writers : edit'[v] = NoEdit
    BY DEF Replace, EndEdit, OneWriter, IInv, TypeOK
  <1>4. TypeOK'
    BY <1>1, <1>2, <1>3 DEF Replace, IInv, TypeOK, Registries, Edits
  <1>5. EditsHold'
    BY <1>3 DEF EditsHold
  <1>6. RunsStay' /\ RowsStay'
    <2>1. ASSUME NEW p \in Procs, proc[p] # NoCommand PROVE file'[proc[p].name] = proc[p].repo
      BY <1>1, <1>2, <2>1 DEF Retired, IInv, RunsStay, TypeOK, Registries, Commands
    <2>2. ASSUME NEW m \in Names, claim[m] # NoRepo PROVE file'[m] = claim[m]
      BY <1>1, <1>2, <2>2 DEF Retired, IInv, RowsStay, TypeOK, Registries
    <2> QED
      BY <2>1, <2>2 DEF Replace, RunsStay, RowsStay
  <1>7. SweptClaims' /\ SweptPairs' /\ Exclusive'
    BY DEF Replace, IInv, SweptClaims, SweptPairs, Exclusive, At, Passed
  <1> QED
    BY <1>4, <1>5, <1>6, <1>7 DEF IInv

LEMMA AbandonSafe == ASSUME IInv, NEW w \in Writers, Abandon(w) PROVE IInv'
  BY EndEditHolds, EditOnly DEF Abandon, IInv, TypeOK

-----------------------------------------------------------------------------
(* The steps of a sweep.                                                   *)

LEMMA BeginSafe == ASSUME IInv, NEW p \in Procs, NEW n \in Names, Begin(p, n) PROVE IInv'
  <1> DEFINE c == [pc |-> "list", name |-> n, repo |-> file[n], todo |-> {}, doubt |-> FALSE]
  <1>1. c \in Commands /\ proc' = [proc EXCEPT ![p] = c]
    BY DEF Begin, Resolves, Commands, IInv, TypeOK, Registries
  <1>2. proc'[p] = c /\ \A q \in Procs : q # p => proc'[q] = proc[q]
    BY <1>1 DEF IInv, TypeOK
  <1>3. TypeOK'
    BY <1>1 DEF Begin, IInv, TypeOK
  <1>4. EditsHold'
    BY <1>2 DEF Begin, IInv, EditsHold, Retired
  <1>5. RunsStay' /\ RowsStay' /\ Exclusive'
    BY <1>2 DEF Begin, IInv, RunsStay, RowsStay, Exclusive
  <1>6. SweptClaims' /\ SweptPairs'
    <2>1. \A q \in Procs : At(q, "sweep")' => q # p /\ At(q, "sweep") /\ proc'[q] = proc[q]
      BY <1>2 DEF At
    <2> QED
      BY <2>1 DEF Begin, IInv, SweptClaims, SweptPairs, Passed
  <1> QED
    BY <1>3, <1>4, <1>5, <1>6 DEF IInv

\* A list leaves out only names without a row, which nobody claims or sweeps.
LEMMA ListSafe == ASSUME IInv, NEW p \in Procs, List(p) PROVE IInv'
  <1> DEFINE rest == {m \in Names \ {proc[p].name} : file[m] # NoRepo}
  <1>1. proc[p] \in Commands
    BY DEF List, At, IInv, TypeOK
  <1>2. /\ proc'[p] \in Commands /\ proc'[p].name = proc[p].name /\ proc'[p].repo = proc[p].repo
        /\ proc'[p].todo = rest
        /\ \A q \in Procs : q # p => proc'[q] = proc[q]
    BY <1>1 DEF List, Commands, IInv, TypeOK
  <1>3. TypeOK'
    BY <1>2 DEF List, IInv, TypeOK
  <1>0. /\ proc[p] # NoCommand /\ UNCHANGED <<file, broken, edit, claim>>
        /\ \A q \in Procs : proc'[q] # NoCommand =>
              proc[q] # NoCommand /\ proc'[q].name = proc[q].name /\ proc'[q].repo = proc[q].repo
    BY <1>2 DEF List, At
  <1>4. EditsHold'
    <2>1. ASSUME NEW n, Retired(n) PROVE Retired(n)'
      BY <1>0, <2>1 DEF Retired
    <2> QED
      BY <1>0, <2>1 DEF IInv, EditsHold
  <1>5. RunsStay' /\ RowsStay' /\ Exclusive'
    BY <1>0 DEF IInv, RunsStay, RowsStay, Exclusive
  <1>6. \A m \in Names : Passed(proc'[p], m) => file[m] = NoRepo
    BY <1>2 DEF Passed
  <1>7. \A q \in Procs : q # p => (\A m : Passed(proc'[q], m) <=> Passed(proc[q], m)) /\ (At(q, "sweep")' <=> At(q, "sweep"))
    BY <1>2 DEF Passed, At
  <1>8. SweptClaims'
    <2> SUFFICES ASSUME NEW q \in Procs, NEW m \in Names,
                        At(q, "sweep")', Passed(proc'[q], m), claim'[m] # NoRepo
                 PROVE  HomeDir[m][claim'[m]] # HomeDir[proc'[q].name][proc'[q].repo]
      BY DEF SweptClaims
    <2>1. CASE q = p
      BY <1>6, <2>1 DEF List, IInv, RowsStay
    <2>2. CASE q # p
      BY <1>2, <1>7, <2>2 DEF List, IInv, SweptClaims
    <2> QED
      BY <2>1, <2>2
  <1>9. SweptPairs'
    <2> SUFFICES ASSUME NEW q \in Procs, NEW r \in Procs, At(q, "sweep")', At(r, "sweep")',
                        Passed(proc'[q], proc'[r].name), Passed(proc'[r], proc'[q].name)
                 PROVE  HomeDir[proc'[q].name][proc'[q].repo] # HomeDir[proc'[r].name][proc'[r].repo]
      BY DEF SweptPairs
    <2>1. ASSUME NEW s \in Procs, At(s, "sweep")'
          PROVE  /\ proc'[s].name = proc[s].name /\ proc'[s].repo = proc[s].repo
                 /\ proc[s].name \in Names /\ file[proc[s].name] # NoRepo
      <3>1. proc'[s].name = proc[s].name /\ proc'[s].repo = proc[s].repo /\ proc[s] # NoCommand
        BY <1>0, <2>1 DEF At
      <3>2. proc[s] \in Commands
        BY <3>1 DEF IInv, TypeOK
      <3> QED
        BY <3>1, <3>2, NullAssumption DEF Commands, IInv, RunsStay
    <2>2. q # p /\ r # p
      BY <1>6, <2>1
    <2> QED
      BY <1>7, <2>1, <2>2 DEF IInv, SweptPairs
  <1> QED
    BY <1>3, <1>4, <1>5, <1>8, <1>9 DEF IInv

\* A command that ends takes nothing away.
LEMMA EndSafe ==
  ASSUME IInv, NEW p \in Procs, End(p), UNCHANGED <<file, broken, edit, claim>>
  PROVE  IInv'
  <1>1. proc' \in [Procs -> Commands \cup {NoCommand}] /\ proc'[p] = NoCommand
        /\ \A q \in Procs : q # p => proc'[q] = proc[q]
    BY DEF End, IInv, TypeOK
  <1>2. \A q \in Procs : At(q, "sweep")' => At(q, "sweep") /\ proc'[q] = proc[q]
    BY <1>1 DEF At
  <1>3. SweptClaims' /\ SweptPairs'
    BY <1>2 DEF IInv, SweptClaims, SweptPairs, Passed
  <1> QED
    BY <1>1, <1>3 DEF IInv, TypeOK, EditsHold, Retired, RunsStay, RowsStay, Exclusive

\* Passing one row: it resolves to another directory, or there is doubt.
LEMMA VisitSafe == ASSUME IInv, NEW p \in Procs, NEW m \in Names, Visit(p, m) PROVE IInv'
  <1>1. CASE End(p)
    BY <1>1, EndSafe DEF Visit
  <1>2. CASE ~End(p)
    <2>1. proc' = [proc EXCEPT ![p].todo = @ \ {m}, ![p].doubt = @ \/ ~Resolves(m)]
          /\ (Resolves(m) => HomeDir[m][file[m]] # HomeDir[proc[p].name][proc[p].repo])
      BY <1>2 DEF Visit
    <2>2. proc[p] \in Commands /\ At(p, "sweep") /\ m \in proc[p].todo
      BY DEF Visit, At, IInv, TypeOK
    <2>3. /\ proc'[p] \in Commands /\ proc'[p].name = proc[p].name /\ proc'[p].repo = proc[p].repo
          /\ proc'[p].todo = proc[p].todo \ {m} /\ proc'[p].pc = proc[p].pc
          /\ proc'[p].doubt = (proc[p].doubt \/ ~Resolves(m))
          /\ \A q \in Procs : q # p => proc'[q] = proc[q]
      BY <2>1, <2>2 DEF Commands, IInv, TypeOK
    <2>4. UNCHANGED <<file, broken, edit, claim>>
      BY DEF Visit
    <2>5. TypeOK'
      BY <2>1, <2>3, <2>4 DEF IInv, TypeOK
    <2>6. EditsHold' /\ RunsStay' /\ RowsStay' /\ Exclusive'
      BY <2>2, <2>3, <2>4 DEF IInv, EditsHold, Retired, RunsStay, RowsStay, Exclusive, At
    <2>7. /\ \A q \in Procs : At(q, "sweep")' => At(q, "sweep")
          /\ \A q \in Procs : proc'[q].name = proc[q].name /\ proc'[q].repo = proc[q].repo
      BY <2>2, <2>3 DEF At
    <2>8. ASSUME NEW q \in Procs, NEW l \in Names, Passed(proc'[q], l), ~Passed(proc[q], l)
          PROVE  q = p /\ l = m /\ HomeDir[m][file[m]] # HomeDir[proc[p].name][proc[p].repo]
      BY <2>1, <2>3, <2>8 DEF Passed
    <2>9. SweptClaims'
      <3> SUFFICES ASSUME NEW q \in Procs, NEW l \in Names,
                          At(q, "sweep")', Passed(proc'[q], l), claim[l] # NoRepo
                   PROVE  HomeDir[l][claim[l]] # HomeDir[proc[q].name][proc[q].repo]
        BY <2>4, <2>7 DEF SweptClaims
      <3>1. CASE Passed(proc[q], l)
        BY <2>7, <3>1 DEF IInv, SweptClaims
      <3>2. CASE ~Passed(proc[q], l)
        BY <2>8, <3>2 DEF IInv, RowsStay
      <3> QED
        BY <3>1, <3>2
    <2>10. SweptPairs'
      <3> SUFFICES ASSUME NEW q \in Procs, NEW r \in Procs, At(q, "sweep")', At(r, "sweep")',
                          Passed(proc'[q], proc'[r].name), Passed(proc'[r], proc'[q].name)
                   PROVE  HomeDir[proc[q].name][proc[q].repo] # HomeDir[proc[r].name][proc[r].repo]
        BY <2>7 DEF SweptPairs, Passed
      <3>1. /\ proc[q] \in Commands /\ file[proc[q].name] = proc[q].repo
            /\ proc[r] \in Commands /\ file[proc[r].name] = proc[r].repo
        BY <2>7 DEF At, IInv, TypeOK, RunsStay
      <3>2. proc[q].name \in Names /\ proc[r].name \in Names
        BY <3>1 DEF Commands
      <3>3. CASE Passed(proc[q], proc[r].name) /\ Passed(proc[r], proc[q].name)
        BY <2>7, <3>3 DEF IInv, SweptPairs
      <3>4. CASE ~Passed(proc[q], proc[r].name)
        BY <2>7, <2>8, <3>1, <3>2, <3>4
      <3>5. CASE ~Passed(proc[r], proc[q].name)
        BY <2>7, <2>8, <3>1, <3>2, <3>5
      <3> QED
        BY <3>3, <3>4, <3>5
    <2> QED
      BY <2>5, <2>6, <2>9, <2>10 DEF IInv
  <1> QED
    BY <1>1, <1>2

\* Whoever is admitted has passed every row: the claims that are there and, in
\* the other direction, whoever is still sweeping.
LEMMA AdmitSafe == ASSUME IInv, NEW p \in Procs, Admit(p) PROVE IInv'
  <1>1. CASE proc[p].doubt
    BY <1>1, EndSafe DEF Admit
  <1>2. CASE ~proc[p].doubt
    <2> DEFINE n == proc[p].name
    <2>1. /\ proc[p] \in Commands /\ At(p, "sweep") /\ proc[p].todo = {}
          /\ claim' = [claim EXCEPT ![n] = proc[p].repo] /\ UNCHANGED <<file, broken, edit>>
      BY <1>2 DEF Admit, At, IInv, TypeOK
    <2>2. n \in Names /\ file[n] = proc[p].repo /\ proc[p].repo \in Repos
      BY <2>1 DEF Commands, At, IInv, RunsStay
    <2>3. proc' \in [Procs -> Commands \cup {NoCommand}] /\ proc'[p] = NoCommand
          /\ \A q \in Procs : q # p => proc'[q] = proc[q]
      BY DEF Admit, End, IInv, TypeOK
    <2>4. \A m \in Names : m # n => Passed(proc[p], m)
      BY <1>2, <2>1 DEF Passed
    <2>5. claim' \in Registries /\ claim'[n] = proc[p].repo /\ \A m \in Names : m # n => claim'[m] = claim[m]
      BY <2>1, <2>2 DEF IInv, TypeOK, Registries
    <2>6. TypeOK' /\ RunsStay' /\ RowsStay'
      BY <2>1, <2>2, <2>3, <2>5 DEF IInv, TypeOK, RunsStay, RowsStay
    <2>7. EditsHold'
      <3>1. ASSUME NEW w \in Writers, edit[w] # NoEdit
            PROVE  edit[w].name # n /\ edit[w].name \in Names
        BY <2>1, <3>1 DEF At, IInv, EditsHold, Retired, TypeOK, Edits
      <3>2. ASSUME NEW w \in Writers, edit[w] # NoEdit PROVE Retired(edit[w].name)'
        BY <2>1, <2>3, <2>5, <3>1, <3>2 DEF IInv, EditsHold, Retired
      <3> QED
        BY <2>1, <3>2 DEF IInv, EditsHold
    <2>8. Exclusive'
      <3>1. ASSUME NEW m \in Names, m # n, claim[m] # NoRepo
            PROVE  HomeDir[m][claim[m]] # HomeDir[n][proc[p].repo]
        BY <2>1, <2>4, <3>1 DEF IInv, SweptClaims
      <3> QED
        BY <2>5, <3>1 DEF IInv, Exclusive
    <2>9. \A q \in Procs : At(q, "sweep")' => q # p /\ At(q, "sweep") /\ proc'[q] = proc[q]
      BY <2>3 DEF At
    <2>10. SweptPairs'
      BY <2>9 DEF IInv, SweptPairs, Passed
    <2>11. SweptClaims'
      <3> SUFFICES ASSUME NEW q \in Procs, NEW m \in Names, q # p,
                          At(q, "sweep"), Passed(proc[q], m), claim'[m] # NoRepo
                   PROVE  HomeDir[m][claim'[m]] # HomeDir[proc[q].name][proc[q].repo]
        BY <2>9 DEF SweptClaims, Passed
      <3>1. CASE m = n
        <4>1. proc[q].name # n /\ proc[q].name \in Names
          BY <3>1 DEF Passed, At, IInv, TypeOK, Commands
        <4>2. Passed(proc[p], proc[q].name) /\ Passed(proc[q], proc[p].name)
          BY <2>4, <3>1, <4>1
        <4> QED
          BY <2>1, <2>5, <3>1, <4>2 DEF IInv, SweptPairs
      <3>2. CASE m # n
        BY <2>5, <3>2 DEF IInv, SweptClaims
      <3> QED
        BY <3>1, <3>2
    <2> QED
      BY <2>6, <2>7, <2>8, <2>10, <2>11 DEF IInv
  <1> QED
    BY <1>1, <1>2

LEMMA TakeDownSafe == ASSUME IInv, NEW n \in Names, TakeDown(n) PROVE IInv'
  <1>1. claim' \in Registries /\ \A m \in Names : claim'[m] \in {claim[m], NoRepo}
    BY DEF TakeDown, IInv, TypeOK, Registries
  <1>2. UNCHANGED <<file, broken, edit, proc>>
    BY DEF TakeDown
  <1>3. TypeOK' /\ RunsStay' /\ RowsStay' /\ Exclusive'
    BY <1>1, <1>2 DEF IInv, TypeOK, RunsStay, RowsStay, Exclusive
  <1>4. EditsHold'
    BY <1>1, <1>2 DEF IInv, EditsHold, Retired, TypeOK, Edits
  <1>5. SweptClaims' /\ SweptPairs'
    BY <1>1, <1>2 DEF IInv, SweptClaims, SweptPairs, At, Passed
  <1> QED
    BY <1>3, <1>4, <1>5 DEF IInv

LEMMA NextIInv == ASSUME OneWriter PROVE IInv /\ [Next]_vars => IInv'
  <1>1. ASSUME IInv, NEW r \in Repos, Toggle(r) PROVE IInv'
    <2>1. EditsHold' /\ broken' \subseteq Repos /\ edit' \in [Writers -> Edits \cup {NoEdit}]
      BY <1>1 DEF Toggle, IInv, TypeOK, EditsHold, Retired
    <2> QED
      BY <1>1, <2>1, EditOnly DEF Toggle
  <1>2. ASSUME IInv, UNCHANGED vars PROVE IInv'
    <2>1. EditsHold' /\ broken' \subseteq Repos /\ edit' \in [Writers -> Edits \cup {NoEdit}]
      BY <1>2 DEF vars, IInv, TypeOK, EditsHold, Retired
    <2> QED
      BY <1>2, <2>1, EditOnly DEF vars
  <1> QED
    BY <1>1, <1>2, StartEditSafe, LookupSafe, ReadRowsSafe, ReplaceSafe, AbandonSafe, BeginSafe,
       ListSafe, VisitSafe, AdmitSafe, TakeDownSafe DEF Next

-----------------------------------------------------------------------------
\* The invariant that the next theorems rest on.
LEMMA Holds == ASSUME OneWriter PROVE Spec => []IInv
  <1>1. IInv /\ [Next]_vars => IInv'
    BY NextIInv
  <1> QED
    BY <1>1, InitIInv, PTL DEF Spec

\* With one writer at a time, the row by row sweep admits no two agents to one
\* directory, whatever becomes of rows and repositories while it runs.
THEOREM SweepExcludes == ASSUME OneWriter PROVE Spec => []Exclusive
  <1>1. IInv => Exclusive
    BY DEF IInv
  <1> QED
    BY <1>1, Holds, PTL

\* With one writer at a time, nothing an agent in use was admitted with is
\* edited under it.
THEOREM RowsUntouched == ASSUME OneWriter PROVE Spec => []RowsStay
  <1>1. IInv => RowsStay
    BY DEF IInv
  <1> QED
    BY <1>1, Holds, PTL

\* With one writer at a time, the file implements the map, killed writers
\* included.
THEOREM FileIsMap == ASSUME OneWriter PROVE Spec => RowsChangeSingly
  <1>1. Init => Map!Init
    BY DEF Init, Map!Init
  <1>2. ASSUME IInv, [Next]_vars PROVE [Map!Next]_file
    <2>1. ASSUME NEW w \in Writers, Replace(w) PROVE Map!Next
      <3>1. edit[w] \in Edits /\ edit[w].rows = file
        BY <1>2, <2>1 DEF Replace, Editing, IInv, TypeOK, EditsHold
      <3>2. file' = [file EXCEPT ![edit[w].name] = edit[w].row]
        BY <2>1, <3>1 DEF Replace, Replacement
      <3> QED
        BY <3>1, <3>2 DEF Edits, Map!Next, Map!Change
    <2>2. CASE UNCHANGED file
      BY <2>2
    <2>3. CASE ~UNCHANGED file
      <3>1. \E w \in Writers : Replace(w)
        BY <1>2, <2>3 DEF Next, vars, StartEdit, Lookup, ReadRows, Abandon, Begin, List, Visit,
           Admit, TakeDown, Toggle
      <3> QED
        BY <2>1, <3>1
    <2> QED
      BY <2>2, <2>3
  <1> QED
    BY <1>1, <1>2, Holds, PTL DEF Spec, RowsChangeSingly, Map!Spec

\* With one writer at a time, `new' adds a row for a name that has none.
THEOREM NewAddsOnly == ASSUME OneWriter PROVE Spec => NewIsNew
  <1>1. ASSUME IInv
        PROVE  \A w \in Writers : Editing(w, "replace") /\ edit[w].new /\ file' # file
                   => file[edit[w].name] = NoRepo
    BY <1>1 DEF Editing, IInv, EditsHold
  <1> QED
    BY <1>1, Holds, PTL DEF NewIsNew
=============================================================================
