------------------------------- MODULE Dotenv --------------------------------
(***************************************************************************)
(* An agent's dotenv, which set-latch, set-home, deploy, the gateway and   *)
(* the operator's own hand all write.  set-latch and set-home go through   *)
(* lib/upsert-env: read the whole file, rewrite the keys they own, rename  *)
(* the result over whatever is there by then.  deploy publishes a skeleton *)
(* if it saw no file.  What a value says is left out: one value stands for *)
(* the pair that one paste, or one chat, writes.                           *)
(* lib/upsert-env, agent_mgr/files.py, commands.py: set_latch, set_home,   *)
(* deploy.py: deploy.                                                      *)
(***************************************************************************)
EXTENDS Naturals, Sequences, SequencesExt

CONSTANTS
    Editors,    \* processes that run set-latch or set-home
    Deployers,  \* processes that run deploy
    Values,     \* what is pasted, or which chat is chosen
    Starts,     \* the files an agent may have before agent-mgr touches it
    Skeleton,   \* the agent's .env.example, or the template
    Absent,     \* there is no dotenv
    Idle,       \* a process that runs no command
    MaxLines    \* bound: nobody appends to a file as long as this

Blank == ""
Latch == <<"DOMO_DEVICE_UID", "DOMO_MCP_TOKEN">>
Home == <<"PLOW_HOME_CHANNEL", "PLOW_CHAT_CHAT_UID">>
Owned == {Latch[1], Latch[2], Home[1], Home[2]}

Lines == [key : Owned \cup {"AGENT_TZ", "HOSTEX_TOKEN"}, val : Values \cup {Blank, "theirs"}]

\* A file that a person or the gateway wrote may lack the last newline.
Files == [lines : Seq(Lines), ended : BOOLEAN]

Edits == [pc : {"read"}, keys : {Latch, Home}, val : Values]
           \cup [pc : {"publish"}, keys : {Latch, Home}, val : Values, current : Files]
Deploys == [pc : {"test", "skeleton"}]

ASSUME ProcsAssumption == Editors \cap Deployers = {} /\ Idle \notin Edits \cup Deploys
ASSUME FilesAssumption == Skeleton \in Files /\ Starts \subseteq Files \cup {Absent} /\ Absent \notin Files

VARIABLES
    file,   \* the dotenv
    proc    \* process -> its command, or Idle

vars == <<file, proc>>

TypeOK ==
    /\ file \in Files \cup {Absent}
    /\ proc \in [Editors \cup Deployers -> Edits \cup Deploys \cup {Idle}]
    /\ \A e \in Editors : proc[e] \in Edits \cup {Idle}
    /\ \A d \in Deployers : proc[d] \in Deploys \cup {Idle}

Init ==
    /\ file \in Starts
    /\ proc = [p \in Editors \cup Deployers |-> Idle]

At(p, label) == proc[p] # Idle /\ proc[p].pc = label
End(p) == proc' = [proc EXCEPT ![p] = Idle]

-----------------------------------------------------------------------------
(* The format.                                                             *)

Declares(lines, k) == \E i \in DOMAIN lines : lines[i].key = k

\* dotenv_read: the last value bound to a key, or nothing.
LastOf(lines, k) ==
    CHOOSE i \in DOMAIN lines :
        lines[i].key = k /\ \A j \in DOMAIN lines : j > i => lines[j].key # k

DotenvRead(f, k) == IF Declares(f.lines, k) THEN f.lines[LastOf(f.lines, k)].val ELSE Blank

\* What comes of a key that is owned: it is declared, once.
Set(out, k, v) == IF Declares(out, k) THEN out ELSE Append(out, [key |-> k, val |-> v])

\* Mutant: the first declaration is rewritten, a later one stays.
RewrittenFirst(lines, keys, v) ==
    LET First(i) == \A j \in 1..(i - 1) : lines[j].key # lines[i].key
    IN  [i \in DOMAIN lines |-> IF lines[i].key \in ToSet(keys) /\ First(i)
                                THEN [lines[i] EXCEPT !.val = v] ELSE lines[i]]

\* Rewrite a key where it is first declared, drop later declarations of it; every
\* other line is copied.
Put(out, line, keys, v) ==
    IF line.key \in ToSet(keys) THEN Set(out, line.key, v) ELSE Append(out, line)

Rewritten(lines, keys, v) ==
    LET out[n \in 0..Len(lines)] == IF n = 0 THEN <<>> ELSE Put(out[n - 1], lines[n], keys, v)
    IN  out[Len(lines)]

\* Mutant: what follows the last newline is always taken for nothing.
UpsertPopping(f, keys, v) ==
    LET known == IF f.ended \/ f.lines = <<>> THEN f.lines
                 ELSE SubSeq(f.lines, 1, Len(f.lines) - 1)
    IN  [ lines |-> Set(Set(Rewritten(known, keys, v), keys[1], v), keys[2], v), ended |-> TRUE ]

\* Then what is not declared yet is appended; either command has two keys.
Upsert(f, keys, v) ==
    [ lines |-> Set(Set(Rewritten(f.lines, keys, v), keys[1], v), keys[2], v), ended |-> TRUE ]

\* Both halves of one paste, and one chat under its two names.
Matched(f) ==
    /\ DotenvRead(f, Latch[1]) = DotenvRead(f, Latch[2])
    /\ DotenvRead(f, Home[1]) = DotenvRead(f, Home[2])

\* Nobody has half a pair before agent-mgr writes one.
ASSUME StartsMatch == Matched(Skeleton) /\ \A f \in Starts : f = Absent \/ Matched(f)

-----------------------------------------------------------------------------
(* set-latch and set-home.                                                 *)

\* Mutant: an empty paste is written.
SetLatchBlank(e, v) ==
    /\ proc[e] = Idle
    /\ file # Absent
    /\ proc' = [proc EXCEPT ![e] = [pc |-> "read", keys |-> Latch, val |-> Blank]]
    /\ UNCHANGED file

\* set-latch wants the dotenv there before it asks for the pair; it and
\* upsert-env refuse an empty half.
SetLatch(e, v) ==
    /\ proc[e] = Idle
    /\ file # Absent
    /\ proc' = [proc EXCEPT ![e] = [pc |-> "read", keys |-> Latch, val |-> v]]
    /\ UNCHANGED file

SetHome(e, v) ==
    /\ proc[e] = Idle
    /\ proc' = [proc EXCEPT ![e] = [pc |-> "read", keys |-> Home, val |-> v]]
    /\ UNCHANGED file

Reading(e, f) ==
    proc' = [proc EXCEPT ![e] = [pc |-> "publish", keys |-> @.keys, val |-> @.val, current |-> f]]

\* Mutant: a file that is not there reads as an empty one.
ReadCreating(e) ==
    /\ At(e, "read")
    /\ Reading(e, IF file = Absent THEN [lines |-> <<>>, ended |-> TRUE] ELSE file)
    /\ UNCHANGED file

\* upsert-env opens the file and reads all of it; without one it dies.
Read(e) ==
    /\ At(e, "read")
    /\ IF file = Absent THEN End(e) ELSE Reading(e, file)
    /\ UNCHANGED file

\* The replacement is staged outside the home and renamed over the file.
Publish(e) ==
    /\ At(e, "publish")
    /\ file' = Upsert(proc[e].current, proc[e].keys, proc[e].val)
    /\ End(e)

\* A command is killed, or cannot stage or rename: the file stays as it is.
Abandon(p) ==
    /\ proc[p] # Idle
    /\ End(p)
    /\ UNCHANGED file

-----------------------------------------------------------------------------
(* deploy.                                                                 *)

Deploy(d) ==
    /\ proc[d] = Idle
    /\ proc' = [proc EXCEPT ![d] = [pc |-> "test"]]
    /\ UNCHANGED file

\* A file that is there is left alone.
TestExists(d) ==
    /\ At(d, "test")
    /\ IF file = Absent THEN proc' = [proc EXCEPT ![d].pc = "skeleton"] ELSE End(d)
    /\ UNCHANGED file

PublishSkeleton(d) ==
    /\ At(d, "skeleton")
    /\ file' = Skeleton
    /\ End(d)

-----------------------------------------------------------------------------
(* The operator and the gateway.                                           *)

\* The README's printf '\nAGENT_TZ=...\n' >> .env, once deploy has made the file.
AppendZone ==
    /\ file # Absent
    /\ Len(file.lines) < MaxLines
    /\ file' = [lines |-> Append(file.lines, [key |-> "AGENT_TZ", val |-> "theirs"]), ended |-> TRUE]
    /\ UNCHANGED proc

\* An editor, or the gateway, saves the file without its last newline.
SaveUnended ==
    /\ file # Absent
    /\ file.lines # <<>>
    /\ file' = [file EXCEPT !.ended = FALSE]
    /\ UNCHANGED proc

Next ==
    \/ \E e \in Editors :
          \/ \E v \in Values : SetLatch(e, v) \/ SetHome(e, v)
          \/ Read(e) \/ Publish(e) \/ Abandon(e)
    \/ \E d \in Deployers : Deploy(d) \/ TestExists(d) \/ PublishSkeleton(d) \/ Abandon(d)
    \/ AppendZone
    \/ SaveUnended

Spec == Init /\ [][Next]_vars

-----------------------------------------------------------------------------
(* Properties.                                                             *)

\* Whoever reads the dotenv finds both halves of one paste, and one chat under
\* its two names, however many writers are at work and wherever one is killed,
\* also in a file that arrived with a key declared twice.
PairsMatch == file # Absent => Matched(file)

\* What set-latch or set-home has reported as written is what is read from then
\* on, until another of them writes the same keys, or somebody renames over it
\* what was read before it.  A deploy takes it back only if two of them run at
\* once: one that saw no file may put its skeleton over the other's.
WrittenStays ==
    [][\A k \in Owned :
          file # Absent /\ DotenvRead(file', k) # DotenvRead(file, k)
              => \E e \in Editors :
                    Publish(e) /\ (k \in ToSet(proc[e].keys) \/ proc[e].current # file)]_vars

Others(lines, keys) ==
    LET out[n \in 0..Len(lines)] ==
          IF n = 0 THEN <<>>
          ELSE IF lines[n].key \in ToSet(keys) THEN out[n - 1] ELSE Append(out[n - 1], lines[n])
    IN  out[Len(lines)]

\* A command that nobody interfered with copies every line it does not own, in
\* order, whether or not the file ends in a newline.
CopiesOthers ==
    [][\A e \in Editors :
          Publish(e) /\ proc[e].current = file
              => Others(file'.lines, proc[e].keys) = Others(file.lines, proc[e].keys)]_vars
=============================================================================
