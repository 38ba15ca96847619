--------------------------- MODULE CloudAssistants ---------------------------
(***************************************************************************)
(* The cloud commands: one request each to Plow's API, whose answer may be *)
(* lost, come too late, be unreadable or not be what the contract says,    *)
(* and what the command then tells its caller about what has happened.     *)
(* The API itself is external: slots that hold one assistant each.         *)
(* agent_mgr/cli.py: cloud-*, cloud_client.py, cloud_http.py,              *)
(* cloud_models.py.                                                        *)
(***************************************************************************)
EXTENDS Naturals

CONSTANTS
    Clients,   \* callers of agent-mgr
    Lines,
    MaxUid,    \* bound: assistants ever created
    Free,      \* a slot without an assistant
    Null,      \* the JSON null, and what is not there
    Error,     \* an answer with an error status
    Garbage    \* an answer that cannot be read, or is no JSON

Uids == 1..MaxUid
Statuses == {"provisioning", "running", "teardown", "failed"}
Assistants == [uid : Uids, status : Statuses]

\* What agent-mgr reads of an assistant: whether its fields are the known ones,
\* its status and whether it carries a failure code.
Bodies == [fields : BOOLEAN, status : Statuses \cup {Null, "unknown"}, failure : BOOLEAN]
Answers == Bodies \cup {Null, Error, Garbage}
Outcomes == {"ok", "remote_rejected", "remote_unreachable", "invalid_response"}
Changes == {"cloud-create", "cloud-move", "cloud-delete"}

ASSUME ConstantsAssumption ==
    /\ MaxUid \in Nat
    /\ Null \notin Outcomes \cup Statuses \cup {"unknown"}
    /\ {Null, Error, Garbage} \cap Bodies = {}
    /\ Null # Error /\ Null # Garbage /\ Error # Garbage

\* A command: its request waits for an answer, or is on its way (waited for or
\* not), has had its effect, and comes to a code and perhaps a warning.
Calls == [ op : Changes \cup {"none", "cloud-get"}, uid : Uids \cup {0},
           line : Lines \cup {Null}, waiting : BOOLEAN, flight : BOOLEAN,
           effect : {"none", "begun", "done"}, answer : Answers,
           code : Outcomes \cup {Null}, warned : BOOLEAN ]

VARIABLES
    slot,    \* line -> its assistant, or Free
    created, \* how many assistants were ever created
    call     \* client -> its last command

vars == <<slot, created, call>>

NoCall == [ op |-> "none", uid |-> 0, line |-> Null, waiting |-> FALSE, flight |-> FALSE,
            effect |-> "none", answer |-> Null, code |-> Null, warned |-> FALSE ]

TypeOK ==
    /\ slot \in [Lines -> Assistants \cup {Free}]
    /\ created \in 0..MaxUid
    /\ call \in [Clients -> Calls]
    /\ \A c \in Clients :
          /\ call[c].code \in {Null, "ok"} => ~call[c].warned
          /\ call[c].waiting => call[c].code = Null

Init ==
    /\ slot = [l \in Lines |-> Free]
    /\ created = 0
    /\ call = [c \in Clients |-> NoCall]

-----------------------------------------------------------------------------
(* A command sends its request.                                            *)

Send(c, op, uid, line) ==
    /\ ~call[c].waiting /\ ~call[c].flight
    /\ call' = [call EXCEPT ![c] =
         [NoCall EXCEPT !.op = op, !.uid = uid, !.line = line, !.waiting = TRUE, !.flight = TRUE]]
    /\ UNCHANGED <<slot, created>>

Create(c, l) == Send(c, "cloud-create", 0, l)
Get(c, u) == Send(c, "cloud-get", u, Null)
Move(c, u, l) == Send(c, "cloud-move", u, l)
Delete(c, u) == Send(c, "cloud-delete", u, Null)

-----------------------------------------------------------------------------
(* The API.  An error answer means that it changed nothing.                *)

Body(status) == [fields |-> TRUE, status |-> status, failure |-> status = "failed"]

\* An answer reaches the command if it still waits.
Answer(c, effect, answer) ==
    call' = [call EXCEPT ![c].flight = FALSE, ![c].effect = effect,
                         ![c].answer = IF call[c].waiting THEN answer ELSE Null]

Arrived(c, op) == call[c].flight /\ call[c].op = op
Holds(l, u) == slot[l] # Free /\ slot[l].uid = u

Refuses(c) ==
    /\ call[c].flight
    /\ Answer(c, "none", Error)
    /\ UNCHANGED <<slot, created>>

\* A line takes a new assistant if it has none, or one that failed.
Creates(c) ==
    /\ Arrived(c, "cloud-create")
    /\ slot[call[c].line] # Free => slot[call[c].line].status = "failed"
    /\ created < MaxUid
    /\ created' = created + 1
    /\ slot' = [slot EXCEPT ![call[c].line] = [uid |-> created', status |-> "provisioning"]]
    /\ Answer(c, "done", Body("provisioning"))

Gets(c, l) ==
    /\ Arrived(c, "cloud-get")
    /\ Holds(l, call[c].uid)
    /\ Answer(c, "none", Body(slot[l].status))
    /\ UNCHANGED <<slot, created>>

Moves(c, l) ==
    /\ Arrived(c, "cloud-move")
    /\ Holds(l, call[c].uid)
    /\ call[c].line = l \/ slot[call[c].line] = Free
    /\ slot' = [k \in Lines |-> IF k = call[c].line THEN slot[l]
                                ELSE IF k = l THEN Free ELSE slot[k]]
    /\ Answer(c, "done", Body(slot[l].status))
    /\ UNCHANGED created

\* A deletion is answered with a null status, or gets stuck and is repeated.
Deletes(c, l) ==
    /\ Arrived(c, "cloud-delete")
    /\ Holds(l, call[c].uid)
    /\ \/ slot' = [slot EXCEPT ![l] = Free] /\ Answer(c, "done", Body(Null))
       \/ slot' = [slot EXCEPT ![l].status = "teardown"] /\ Answer(c, "begun", Body("teardown"))
    /\ UNCHANGED created

Progress(l, status) ==
    /\ slot[l] # Free /\ slot[l].status = "provisioning"
    /\ slot' = [slot EXCEPT ![l].status = status]
    /\ UNCHANGED <<created, call>>

\* Another build of the API answers what this one of agent-mgr does not know, a
\* null status or none where the other belongs, or the connection garbles it.
Garble(c, answer) ==
    /\ call[c].waiting
    /\ call[c].answer \in Bodies
    /\ call' = [call EXCEPT ![c].answer = answer]
    /\ UNCHANGED <<slot, created>>

\* Answers of another build, other than the one the request calls for.  That a
\* well-formed answer is about this very request is the API's part: the client
\* compares neither uid nor line (cloud_client.py:42-52).
Drifted(op) ==
    {Garbage, Body("unknown"), [Body("running") EXCEPT !.fields = FALSE],
     [Body("running") EXCEPT !.failure = TRUE],
     IF op = "cloud-delete" THEN Body("running") ELSE Body(Null)}

-----------------------------------------------------------------------------
(* The command reads its answer.                                           *)

\* Mutant: a deletion that is answered with a live assistant is taken for done.
AcceptsAny(op, b) ==
    /\ b.fields
    /\ b.status # "unknown"
    /\ b.failure <=> b.status = "failed"

\* AssistantResource: exactly the known fields, a public status, null for a
\* deletion and for nothing else, a failure code when it failed and only then.
Accepts(op, b) ==
    /\ b.fields
    /\ b.status # "unknown"
    /\ (op = "cloud-delete") <=> (b.status = Null)
    /\ b.failure <=> b.status = "failed"

\* Mutant: only an answer that cannot be used is held to be ambiguous.
WarnsInvalid(op, code) == op \in {"cloud-create", "cloud-delete"} /\ code = "invalid_response"

\* Mutant: so is an answer the API refused with, and a success.
WarnsAlways(op, code) == op \in {"cloud-create", "cloud-delete"}

\* cli.py: "may have succeeded; run cloud-list before retrying".
Warns(op, code) ==
    op \in {"cloud-create", "cloud-delete"} /\ code \in {"invalid_response", "remote_unreachable"}

Finish(c, code) ==
    /\ call[c].waiting
    /\ call' = [call EXCEPT ![c].waiting = FALSE, ![c].code = code,
                            ![c].warned = Warns(call[c].op, code), ![c].answer = Null]
    /\ UNCHANGED <<slot, created>>

\* An error while the request is sent; it may have arrived all the same.
SendFails(c) ==
    /\ call[c].answer = Null
    /\ Finish(c, "remote_unreachable")

\* No answer within 30 s, or a connection that is closed: the request may be
\* acted upon later.
GivesUp(c) == Finish(c, "invalid_response")

\* The connection is refused: nothing was sent.
Refused(c) ==
    /\ call[c].waiting /\ call[c].flight
    /\ call' = [call EXCEPT ![c].waiting = FALSE, ![c].flight = FALSE,
                            ![c].code = "remote_unreachable",
                            ![c].warned = Warns(call[c].op, "remote_unreachable")]
    /\ UNCHANGED <<slot, created>>

Reads(c) ==
    /\ call[c].answer # Null
    /\ Finish(c, IF call[c].answer = Error THEN "remote_rejected"
                 ELSE IF call[c].answer = Garbage THEN "invalid_response"
                 ELSE IF Accepts(call[c].op, call[c].answer) THEN "ok" ELSE "invalid_response")

Next ==
    \/ \E c \in Clients :
          \/ \E l \in Lines : Create(c, l) \/ Gets(c, l) \/ Moves(c, l) \/ Deletes(c, l)
          \/ \E u \in 1..created :
                \/ Get(c, u) \/ Delete(c, u)
                \/ \E l \in Lines : Move(c, u, l)
          \/ Refuses(c) \/ Creates(c)
          \/ \E answer \in Drifted(call[c].op) : Garble(c, answer)
          \/ SendFails(c) \/ GivesUp(c) \/ Refused(c) \/ Reads(c)
    \/ \E l \in Lines, status \in {"running", "failed"} : Progress(l, status)

Spec == Init /\ [][Next]_vars

-----------------------------------------------------------------------------
(* Properties.                                                             *)

\* A command that exits 0 has done it: created, moved, or deleted for good.
OkMeansDone ==
    \A c \in Clients : call[c].code = "ok" /\ call[c].op \in Changes => call[c].effect = "done"

\* A create or delete that fails without the advice to look before retrying has
\* changed nothing, and never will: not when an answer was lost on the way, nor
\* when the request is acted upon after the command has given up.
SilentMeansNot ==
    \A c \in Clients :
        call[c].op \in {"cloud-create", "cloud-delete"} /\ ~call[c].waiting
            /\ call[c].code # "ok" /\ ~call[c].warned
        => call[c].effect = "none" /\ ~call[c].flight
=============================================================================
