------------------------------ MODULE FetchTree ------------------------------
(***************************************************************************)
(* lib/fetch-tree publishing one destination of one home, as add-skill and *)
(* deploy's replay of skills.tsv run it: the tree is copied beside the     *)
(* target as <name>.incoming, the installed one is moved to                *)
(* <name>.previous, and the new one takes its place.  Every rename is one  *)
(* step, a copy or a removal of a directory is many; the process may be    *)
(* killed, and any operation outside the try block may raise, between two. *)
(*                                                                         *)
(* Fetching and unpacking happen in a private temporary directory and can  *)
(* only refuse, so a run begins here with the tree it is going to publish. *)
(* One operator runs one fetch-tree at a time: nothing excludes a second.  *)
(***************************************************************************)
CONSTANTS
    Trees,      \* contents a revision may have
    Absent,     \* no such directory
    Partial     \* a directory some of whose files are missing

ASSUME TreesAssumption ==
    Absent \notin Trees /\ Partial \notin Trees /\ Absent # Partial

Entries == Trees \cup {Absent, Partial}

Labels == {"idle", "recover", "clear incoming", "clear previous", "copy", "copying",
           "backup", "publish", "rollback", "cleanup", "discard"}

VARIABLES
    target,     \* skills/<name>: what the gateway reads
    incoming,   \* skills/<name>.incoming
    previous,   \* skills/<name>.previous
    pc,
    tree,       \* what the run publishes
    before,     \* what was installed when it began (in no code: a history)
    backed_up,  \* the run moved the installed tree aside
    outcome     \* what its try block comes to: "unchanged" is its message

dirs == <<target, incoming, previous>>

vars == <<dirs, pc, tree, before, backed_up, outcome>>

TypeOK ==
    /\ target \in Trees \cup {Absent}      \* never a half-copied tree
    /\ incoming \in Entries
    /\ previous \in Entries
    /\ pc \in Labels
    /\ tree \in Trees \cup {Absent}
    /\ before \in Trees \cup {Absent}
    /\ backed_up \in BOOLEAN
    /\ outcome \in {"published", "unchanged", "raised"}

Init ==
    /\ target \in Trees \cup {Absent}
    /\ incoming = Absent
    /\ previous = Absent
    /\ pc = "idle"
    /\ tree = Absent
    /\ before = Absent
    /\ backed_up = FALSE
    /\ outcome = "published"

\* The installed copy, wherever the swap has put it for the moment.
Installed == IF target # Absent THEN target ELSE previous

Goto(label) == pc' = label /\ UNCHANGED <<tree, before, backed_up, outcome>>

End ==
    /\ pc' = "idle"
    /\ tree' = Absent
    /\ UNCHANGED <<before, backed_up, outcome>>

-----------------------------------------------------------------------------
Start(t) ==
    /\ pc = "idle"
    /\ pc' = "recover"
    /\ tree' = t
    /\ before' = Installed
    /\ backed_up' = FALSE
    /\ outcome' = "published"
    /\ UNCHANGED dirs

\* Mutant: what an interrupted run left aside is not put back.
NoRecover ==
    /\ pc = "recover"
    /\ Goto("clear incoming")
    /\ UNCHANGED dirs

\* An earlier run was killed between its two renames.
Recover ==
    /\ pc = "recover"
    /\ IF target = Absent
       THEN target' = previous /\ previous' = Absent
       ELSE UNCHANGED <<target, previous>>
    /\ Goto("clear incoming")
    /\ UNCHANGED incoming

\* shutil.rmtree: one file after another until the directory is gone.
ClearIncoming ==
    /\ pc = "clear incoming"
    /\ \/ incoming # Absent /\ incoming' = Partial /\ Goto(pc)
       \/ incoming' = Absent /\ Goto("clear previous")
    /\ UNCHANGED <<target, previous>>

ClearPrevious ==
    /\ pc = "clear previous"
    /\ \/ previous # Absent /\ previous' = Partial /\ Goto(pc)
       \/ previous' = Absent /\ Goto("copy")
    /\ UNCHANGED <<target, incoming>>

Copy ==
    /\ pc = "copy"
    /\ incoming' = Partial
    /\ Goto("copying")
    /\ UNCHANGED <<target, previous>>

\* Mutant: the copy is taken for complete before it is.
CopyHalf ==
    /\ pc = "copying"
    /\ Goto("backup")
    /\ UNCHANGED dirs

FinishCopy ==
    /\ pc = "copying"
    /\ incoming' = tree
    /\ Goto("backup")
    /\ UNCHANGED <<target, previous>>

\* Moving the installed tree aside may raise, as any rename may.
Backup ==
    /\ pc = "backup"
    /\ \/ target = Absent /\ Goto("publish") /\ UNCHANGED dirs
       \/ /\ target # Absent
          /\ previous' = target
          /\ target' = Absent
          /\ pc' = "publish"
          /\ backed_up' = TRUE
          /\ UNCHANGED <<incoming, tree, before, outcome>>
       \/ target # Absent /\ Goto("rollback") /\ UNCHANGED dirs

Publish ==
    /\ pc = "publish"
    /\ \/ /\ target' = incoming
          /\ incoming' = Absent
          /\ Goto("cleanup")
       \/ Goto("rollback") /\ UNCHANGED <<target, incoming>>
    /\ UNCHANGED previous

\* Leaving the except clause; the finally clause is next.
Leave(how) ==
    /\ pc' = "cleanup"
    /\ outcome' = how
    /\ UNCHANGED <<tree, before, backed_up>>

\* Mutant: the rollback forgets to move the backup back.
NoRollback ==
    /\ pc = "rollback"
    /\ Leave("unchanged")
    /\ UNCHANGED dirs

\* except OSError: the backup returns, and the run reports that the previous
\* copy is unchanged -- unless that rename raises too.
Rollback ==
    /\ pc = "rollback"
    /\ LET puttingBack == backed_up /\ previous # Absent /\ target = Absent
       IN  \/ /\ puttingBack
              /\ target' = previous
              /\ previous' = Absent
              /\ Leave("unchanged")
           \/ puttingBack /\ Leave("raised") /\ UNCHANGED <<target, previous>>
           \/ ~puttingBack /\ Leave("unchanged") /\ UNCHANGED <<target, previous>>
    /\ UNCHANGED incoming

\* finally: remove what was not published; a failed run ends here.
Cleanup ==
    /\ pc = "cleanup"
    /\ \/ incoming # Absent /\ incoming' = Partial /\ Goto(pc)
       \/ incoming' = Absent /\ outcome = "published" /\ Goto("discard")
       \/ incoming' = Absent /\ outcome # "published" /\ End
    /\ UNCHANGED <<target, previous>>

Discard ==
    /\ pc = "discard"
    /\ \/ previous # Absent /\ previous' = Partial /\ Goto(pc)
       \/ previous' = Absent /\ End
    /\ UNCHANGED <<target, incoming>>

\* Killed, or an exception outside the try block.
Crash == pc # "idle" /\ End /\ UNCHANGED dirs

-----------------------------------------------------------------------------
Next ==
    \/ \E t \in Trees : Start(t)
    \/ Recover \/ ClearIncoming \/ ClearPrevious \/ Copy \/ FinishCopy
    \/ Backup \/ Publish \/ Rollback \/ Cleanup \/ Discard \/ Crash

Spec == Init /\ [][Next]_vars

-----------------------------------------------------------------------------
(* Properties                                                              *)

\* fetch-tree's docstring, "an atomic rollback-aware swap": wherever runs are
\* killed, the installed tree (which the next run puts back in place when it
\* was left aside) is whole, and only ever becomes the one being installed.
Swap == INSTANCE AtomicInstall WITH installed <- Installed, request <- tree

AtomicSwap == Swap!Spec

\* fetch-tree:115, "the previous copy is unchanged": a run that reports that
\* leaves at the target itself what it found installed.
PreviousUnchanged ==
    pc # "idle" /\ outcome = "unchanged" => target = before

\* Labels up to the renames, in which the tree is only being prepared.
Preparing == {"recover", "clear incoming", "clear previous", "copy", "copying", "backup"}

\* Why both hold: a directory that is being removed is never the only copy, a
\* tree is published only when it has been copied to the end, and up to the
\* publishing rename what was installed is still there, in one of two places.
SwapInv ==
    /\ target = Absent => previous # Partial
    /\ pc = "idle" <=> tree = Absent
    /\ pc \in Preparing \cup {"publish", "rollback"} =>
         Installed = before /\ outcome = "published"
    /\ pc \in Preparing => ~backed_up
    /\ pc \in Preparing \ {"recover"} => (target = Absent => previous = Absent)
    /\ pc \in {"copy", "copying", "backup"} => previous = Absent
    /\ pc \in {"backup", "publish"} => incoming = tree
    /\ pc \in {"publish", "rollback"} =>
         IF backed_up THEN target = Absent ELSE previous = Absent
    /\ pc = "publish" => target = Absent
    /\ pc = "cleanup" /\ outcome = "published" => target = tree
    /\ pc = "cleanup" /\ outcome = "unchanged" => target = before
    /\ pc = "discard" => target = tree /\ outcome = "published"
=============================================================================
