-------------------------- MODULE FetchTreeProofs ---------------------------
(***************************************************************************)
(* The theorems about FetchTree, for every set of trees: its invariants,   *)
(* and that it implements AtomicInstall.                                   *)
(***************************************************************************)
EXTENDS FetchTree, TLAPS

IInv == TypeOK /\ SwapInv

LEMMA InitIInv == Init => IInv
BY TreesAssumption DEF Init, IInv, TypeOK, SwapInv, Installed, Entries, Labels, Preparing

\* One step per action of the run: every rename keeps a whole installed tree,
\* every removal is of a directory that is not the only copy.
LEMMA NextIInv == IInv /\ [Next]_vars => IInv'
<1> SUFFICES ASSUME IInv, [Next]_vars PROVE IInv'
    OBVIOUS
<1> USE TreesAssumption
    DEF IInv, TypeOK, SwapInv, Installed, Entries, Labels, Preparing, Goto, End, dirs
<1>1. ASSUME NEW t \in Trees, Start(t) PROVE IInv'
  <2>1. TypeOK'
    BY <1>1 DEF Start
  <2>2. SwapInv'
    BY <1>1 DEF Start
  <2> QED
    BY <2>1, <2>2
<1>2. CASE Recover
  <2>1. TypeOK'
    BY <1>2 DEF Recover
  <2>2. SwapInv'
    BY <1>2 DEF Recover
  <2> QED
    BY <2>1, <2>2
<1>3. CASE ClearIncoming
  <2>1. CASE incoming' = Partial /\ Goto(pc)
    <3>1. TypeOK'
      BY <1>3, <2>1 DEF ClearIncoming
    <3>2. SwapInv'
      BY <1>3, <2>1 DEF ClearIncoming
    <3> QED
      BY <3>1, <3>2
  <2>2. CASE incoming' = Absent /\ Goto("clear previous")
    <3>1. TypeOK'
      BY <1>3, <2>2 DEF ClearIncoming
    <3>2. SwapInv'
      BY <1>3, <2>2 DEF ClearIncoming
    <3> QED
      BY <3>1, <3>2
  <2> QED
    BY <1>3, <2>1, <2>2 DEF ClearIncoming
<1>4. CASE ClearPrevious
  <2>1. CASE previous # Absent /\ previous' = Partial /\ Goto(pc)
    <3>1. TypeOK'
      BY <1>4, <2>1 DEF ClearPrevious
    <3>2. SwapInv'
      BY <1>4, <2>1 DEF ClearPrevious
    <3> QED
      BY <3>1, <3>2
  <2>2. CASE previous' = Absent /\ Goto("copy")
    <3>1. TypeOK'
      BY <1>4, <2>2 DEF ClearPrevious
    <3>2. SwapInv'
      BY <1>4, <2>2 DEF ClearPrevious
    <3> QED
      BY <3>1, <3>2
  <2> QED
    BY <1>4, <2>1, <2>2 DEF ClearPrevious
<1>5. CASE Copy
  <2>1. TypeOK'
    BY <1>5 DEF Copy
  <2>2. SwapInv'
    BY <1>5 DEF Copy
  <2> QED
    BY <2>1, <2>2
<1>6. CASE FinishCopy
    BY <1>6 DEF FinishCopy
<1>7. CASE Backup
  <2>1. CASE target = Absent /\ Goto("publish") /\ UNCHANGED dirs
    <3>1. TypeOK'
      BY <1>7, <2>1 DEF Backup
    <3>2. SwapInv'
      BY <1>7, <2>1 DEF Backup
    <3> QED
      BY <3>1, <3>2
  <2>2. CASE target # Absent /\ pc' = "publish"
    <3>1. TypeOK'
      BY <1>7, <2>2 DEF Backup
    <3>2. SwapInv'
      BY <1>7, <2>2 DEF Backup
    <3> QED
      BY <3>1, <3>2
  <2>3. CASE target # Absent /\ Goto("rollback") /\ UNCHANGED dirs
    <3>1. TypeOK'
      BY <1>7, <2>3 DEF Backup
    <3>2. SwapInv'
      BY <1>7, <2>3 DEF Backup
    <3> QED
      BY <3>1, <3>2
  <2> QED
    BY <1>7, <2>1, <2>2, <2>3 DEF Backup
<1>8. CASE Publish
    BY <1>8 DEF Publish
<1>9. CASE Rollback
    BY <1>9 DEF Rollback, Leave
<1>10. CASE Cleanup
    BY <1>10 DEF Cleanup
<1>11. CASE Discard
    BY <1>11 DEF Discard
<1>12. CASE Crash
    BY <1>12 DEF Crash
<1>13. CASE UNCHANGED vars
  <2>1. TypeOK'
    BY <1>13 DEF vars
  <2>2. SwapInv'
    BY <1>13 DEF vars
  <2> QED
    BY <2>1, <2>2
<1> QED
    BY <1>1, <1>2, <1>3, <1>4, <1>5, <1>6, <1>7, <1>8, <1>9, <1>10, <1>11, <1>12, <1>13
    DEF Next

\* At every moment of every run, crashes and failed renames included, the
\* directories are in one of the states the swap may leave between two steps.
THEOREM SwapInvariant == Spec => [](TypeOK /\ SwapInv)
<1>1. Spec => []IInv
    BY InitIInv, NextIInv, PTL DEF Spec
<1> QED
    BY <1>1, PTL DEF IInv

\* No run ever shows a half-copied tree under the target's own name.
THEOREM TreeTyped == Spec => []TypeOK
BY SwapInvariant, PTL

\* A run that reports "the previous copy is unchanged" tells the truth.
THEOREM MessageTrue == Spec => []PreviousUnchanged
<1>1. IInv => PreviousUnchanged
    BY DEF IInv, TypeOK, SwapInv, PreviousUnchanged, Labels, Preparing
<1> QED
    BY <1>1, SwapInvariant, PTL DEF IInv

-----------------------------------------------------------------------------
(* Refinement                                                              *)

\* Every step of a run is a step of the atomic installation or a stutter: the
\* publishing rename installs, the start of a run asks, its end answers, and
\* no other step changes what is installed.
LEMMA StepSimulation == IInv /\ [Next]_vars => [Swap!Next]_<<Installed, tree>>
<1> SUFFICES ASSUME IInv, [Next]_vars PROVE [Swap!Next]_<<Installed, tree>>
    OBVIOUS
<1> USE TreesAssumption
    DEF IInv, TypeOK, SwapInv, Installed, Entries, Labels, Preparing, Goto, End, dirs
<1>1. ASSUME NEW t \in Trees, Start(t) PROVE Swap!Ask(t)
    BY <1>1 DEF Start, Swap!Ask
<1>2. CASE Publish
  <2>1. CASE target' = incoming /\ incoming' = Absent /\ Goto("cleanup")
    BY <1>2, <2>1 DEF Publish, Swap!Next, Swap!Install
  <2>2. CASE UNCHANGED <<Installed, tree>>
    BY <2>2
  <2> QED
    BY <1>2, <2>1, <2>2 DEF Publish
<1>3. CASE Cleanup
    BY <1>3 DEF Cleanup, Swap!Next, Swap!Answer
<1>4. CASE Discard
    BY <1>4 DEF Discard, Swap!Next, Swap!Answer
<1>5. CASE Crash
    BY <1>5 DEF Crash, Swap!Next, Swap!Answer
<1>6. CASE Recover
    BY <1>6 DEF Recover
<1>7. CASE Backup
    BY <1>7 DEF Backup
<1>8. CASE Rollback
    BY <1>8 DEF Rollback, Leave
<1>9. CASE ClearIncoming \/ ClearPrevious \/ Copy \/ FinishCopy
    BY <1>9 DEF ClearIncoming, ClearPrevious, Copy, FinishCopy
<1>10. CASE UNCHANGED vars
    BY <1>10 DEF vars
<1> QED
    BY <1>1, <1>2, <1>3, <1>4, <1>5, <1>6, <1>7, <1>8, <1>9, <1>10 DEF Next, Swap!Next

\* Whatever is killed or fails on the way, publishing is the atomic
\* installation that fetch-tree's docstring promises.
THEOREM SwapIsAtomic == Spec => AtomicSwap
<1>1. Init => Swap!Init
    BY TreesAssumption DEF Init, Swap!Init, Installed
<1> QED
    BY <1>1, StepSimulation, SwapInvariant, PTL DEF Spec, Swap!Spec, AtomicSwap, IInv
=============================================================================
