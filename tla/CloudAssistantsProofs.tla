------------------------ MODULE CloudAssistantsProofs ------------------------
(***************************************************************************)
(* What a cloud command says of its outcome is true, for any number of     *)
(* callers, lines and assistants.                                          *)
(***************************************************************************)
EXTENDS CloudAssistants, TLAPS

Ambiguous == {"cloud-create", "cloud-delete"}

\* What each call keeps: an answer ends the flight of its request and tells
\* what the request came to, and a call that ends with neither success nor
\* warning has nothing in flight.
Truthful(k) ==
    /\ k.code \in {Null, "ok"} => ~k.warned
    /\ k.waiting => k.code = Null
    /\ k.answer # Null => k.waiting /\ ~k.flight
    /\ k.waiting /\ k.flight => k.effect = "none"
    /\ k.answer = Error => k.effect = "none"
    /\ k.answer \in Bodies /\ Accepts(k.op, k.answer) /\ k.op \in Changes => k.effect = "done"
    /\ k.code = "ok" => ~k.flight /\ (k.op \in Changes => k.effect = "done")
    /\ k.op \in Ambiguous /\ ~k.waiting /\ k.code # "ok" /\ ~k.warned
         => k.effect = "none" /\ ~k.flight

IInv ==
    /\ slot \in [Lines -> Assistants \cup {Free}]
    /\ created \in 0..MaxUid
    /\ call \in [Clients -> Calls]
    /\ \A c \in Clients : Truthful(call[c])

LEMMA InitIInv == Init => IInv
<1> SUFFICES ASSUME Init PROVE IInv
    OBVIOUS
<1>1. NoCall \in Calls /\ Truthful(NoCall)
    BY ConstantsAssumption
       DEF NoCall, Calls, Answers, Truthful, Outcomes, Changes, Ambiguous
<1> QED
    BY <1>1, ConstantsAssumption DEF Init, IInv

\* A step touches one call, and leaves that one truthful.
LEMMA OneCall ==
    ASSUME IInv, NEW c \in Clients, NEW k \in Calls, Truthful(k),
           call' = [call EXCEPT ![c] = k],
           slot' \in [Lines -> Assistants \cup {Free}], created' \in 0..MaxUid
    PROVE  IInv'
<1>1. call' \in [Clients -> Calls]
    BY DEF IInv
<1>2. ASSUME NEW d \in Clients PROVE Truthful(call'[d])
  <2>1. CASE d = c
    BY <2>1 DEF IInv
  <2>2. CASE d # c
    BY <2>2 DEF IInv
  <2> QED
    BY <2>1, <2>2
<1> QED
    BY <1>1, <1>2 DEF IInv, Truthful

LEMMA BodyTyped ==
    ASSUME NEW status \in Statuses \cup {Null, "unknown"}
    PROVE  /\ Body(status) \in Bodies
           /\ Body(status).status = status
BY DEF Body, Bodies

-----------------------------------------------------------------------------
(* The command's steps.                                                    *)

LEMMA SendSafe ==
    ASSUME IInv, NEW c \in Clients, NEW op \in Changes \cup {"cloud-get"},
           NEW uid \in Uids \cup {0}, NEW line \in Lines \cup {Null},
           Send(c, op, uid, line)
    PROVE  IInv'
<1> DEFINE k == [NoCall EXCEPT !.op = op, !.uid = uid, !.line = line,
                               !.waiting = TRUE, !.flight = TRUE]
<1>1. k \in Calls /\ Truthful(k)
    BY ConstantsAssumption
       DEF NoCall, Calls, Answers, Truthful, Outcomes, Bodies, Changes, Ambiguous
<1> QED
    BY <1>1, OneCall DEF Send, IInv

LEMMA FinishSafe ==
    ASSUME IInv, NEW c \in Clients, NEW code \in Outcomes, Finish(c, code),
           code = "ok" => call[c].answer \in Bodies /\ Accepts(call[c].op, call[c].answer),
           code = "remote_rejected" => call[c].answer = Error
    PROVE  IInv'
<1> DEFINE k == [call[c] EXCEPT !.waiting = FALSE, !.code = code,
                                !.warned = Warns(call[c].op, code), !.answer = Null]
<1>1. call[c] \in Calls /\ Truthful(call[c]) /\ call[c].waiting
    BY DEF IInv, Finish
<1>2. k \in Calls
    BY <1>1 DEF Calls, Answers, Warns
<1>3. Truthful(k)
    BY <1>1, ConstantsAssumption
       DEF Truthful, Calls, Answers, Warns, Outcomes, Changes, Ambiguous
<1>4. call' = [call EXCEPT ![c] = k]
    BY DEF Finish, IInv
<1> QED
    BY <1>2, <1>3, <1>4, OneCall DEF Finish, IInv

LEMMA RefusedSafe ==
    ASSUME IInv, NEW c \in Clients, Refused(c)
    PROVE  IInv'
<1> DEFINE k == [call[c] EXCEPT !.waiting = FALSE, !.flight = FALSE,
                                !.code = "remote_unreachable",
                                !.warned = Warns(call[c].op, "remote_unreachable")]
<1>1. call[c] \in Calls /\ Truthful(call[c]) /\ call[c].waiting /\ call[c].flight
    BY DEF IInv, Refused
<1>2. k \in Calls
    BY <1>1 DEF Calls, Warns, Outcomes
<1>3. Truthful(k)
    BY <1>1, ConstantsAssumption
       DEF Truthful, Calls, Answers, Warns, Outcomes, Changes, Ambiguous, Bodies
<1> QED
    BY <1>2, <1>3, OneCall DEF Refused, IInv

LEMMA ReadsSafe ==
    ASSUME IInv, NEW c \in Clients, Reads(c)
    PROVE  IInv'
<1>1. call[c] \in Calls /\ call[c].answer \in Bodies \cup {Error, Garbage}
    BY DEF IInv, Reads, Calls, Answers
<1> QED
    BY <1>1, FinishSafe, ConstantsAssumption DEF Reads, Outcomes

LEMMA GarbleSafe ==
    ASSUME IInv, NEW c \in Clients, NEW answer \in Drifted(call[c].op), Garble(c, answer)
    PROVE  IInv'
<1> DEFINE k == [call[c] EXCEPT !.answer = answer]
<1>1. call[c] \in Calls /\ Truthful(call[c]) /\ call[c].waiting /\ call[c].answer \in Bodies
    BY DEF IInv, Garble
<1>2. ~call[c].flight
    BY <1>1, ConstantsAssumption DEF Truthful
<1>3. answer \in Bodies \cup {Garbage}
  <2>1. Body("unknown") \in Bodies /\ Body("running") \in Bodies /\ Body(Null) \in Bodies
    BY BodyTyped DEF Statuses
  <2>2. \A b \in Bodies : [b EXCEPT !.fields = FALSE] \in Bodies
                         /\ [b EXCEPT !.failure = TRUE] \in Bodies
    BY DEF Bodies
  <2> QED
    BY <2>1, <2>2 DEF Drifted
<1>4. answer \in Bodies => ~Accepts(call[c].op, answer)
    BY ConstantsAssumption DEF Drifted, Body, Accepts, Statuses
<1>5. k \in Calls
    BY <1>1, <1>3 DEF Calls, Answers
<1>6. Truthful(k)
    BY <1>1, <1>2, <1>3, <1>4, ConstantsAssumption DEF Truthful, Calls, Ambiguous, Outcomes
<1> QED
    BY <1>5, <1>6, OneCall DEF Garble, IInv

-----------------------------------------------------------------------------
(* The API's steps: each answers the call it acts upon.                    *)

\* An answer is truthful when it tells what the request came to.
LEMMA AnswerSafe ==
    ASSUME IInv, NEW c \in Clients, call[c].flight,
           NEW effect \in {"none", "begun", "done"}, NEW answer \in Bodies \cup {Error},
           Answer(c, effect, answer),
           answer = Error => effect = "none",
           answer \in Bodies /\ Accepts(call[c].op, answer) /\ call[c].op \in Changes
             => effect = "done",
           slot' \in [Lines -> Assistants \cup {Free}], created' \in 0..MaxUid
    PROVE  IInv'
<1> DEFINE k == [call[c] EXCEPT !.flight = FALSE, !.effect = effect,
                                !.answer = IF call[c].waiting THEN answer ELSE Null]
<1>1. call[c] \in Calls /\ Truthful(call[c])
    BY DEF IInv
<1>2. k \in Calls
  <2>1. (IF call[c].waiting THEN answer ELSE Null) \in Answers
    BY DEF Answers
  <2> QED
    BY <1>1, <2>1 DEF Calls
<1>3. CASE call[c].waiting
  <2>1. Truthful(k)
    BY <1>1, <1>3, ConstantsAssumption DEF Truthful, Calls, Outcomes
  <2> QED
    BY <1>2, <2>1, OneCall DEF Answer, IInv
<1>4. CASE ~call[c].waiting
  <2>1. Truthful(k)
    BY <1>1, <1>4, ConstantsAssumption DEF Truthful, Calls, Outcomes
  <2> QED
    BY <1>2, <2>1, OneCall DEF Answer, IInv
<1> QED
    BY <1>3, <1>4

LEMMA CreatesSafe ==
    ASSUME IInv, NEW c \in Clients, Creates(c)
    PROVE  IInv'
<1>1. created' \in Uids /\ created' \in 0..MaxUid
    BY ConstantsAssumption DEF IInv, Creates, Uids
<1>2. slot' \in [Lines -> Assistants \cup {Free}]
    BY <1>1 DEF IInv, Creates, Assistants, Statuses
<1> QED
    BY <1>1, <1>2, AnswerSafe, BodyTyped, ConstantsAssumption DEF Creates, Arrived, Statuses

LEMMA MovesSafe ==
    ASSUME IInv, NEW c \in Clients, NEW l \in Lines, Moves(c, l)
    PROVE  IInv'
<1>1. slot[l] \in Assistants
    BY DEF IInv, Moves, Holds
<1>2. slot' \in [Lines -> Assistants \cup {Free}]
    BY <1>1 DEF IInv, Moves
<1>3. Body(slot[l].status) \in Bodies
    BY <1>1, BodyTyped DEF Assistants
<1> QED
    BY <1>2, <1>3, AnswerSafe, ConstantsAssumption DEF Moves, Arrived, IInv

LEMMA GetsSafe ==
    ASSUME IInv, NEW c \in Clients, NEW l \in Lines, Gets(c, l)
    PROVE  IInv'
<1>1. slot[l] \in Assistants
    BY DEF IInv, Gets, Holds
<1>2. Body(slot[l].status) \in Bodies
    BY <1>1, BodyTyped DEF Assistants
<1> QED
    BY <1>2, AnswerSafe, ConstantsAssumption DEF Gets, Arrived, IInv, Changes

LEMMA DeletesSafe ==
    ASSUME IInv, NEW c \in Clients, NEW l \in Lines, Deletes(c, l)
    PROVE  IInv'
<1>1. slot[l] \in Assistants
    BY DEF IInv, Deletes, Holds
<1>2. slot' \in [Lines -> Assistants \cup {Free}]
    BY <1>1 DEF IInv, Deletes, Assistants, Statuses
<1>3. Body(Null) \in Bodies /\ Body("teardown") \in Bodies
    BY BodyTyped DEF Statuses
<1>4. ~Accepts("cloud-delete", Body("teardown"))
    BY ConstantsAssumption DEF Accepts, Body, Statuses
<1> QED
    BY <1>2, <1>3, <1>4, AnswerSafe, ConstantsAssumption DEF Deletes, Arrived, IInv

-----------------------------------------------------------------------------
LEMMA NextIInv == IInv /\ [Next]_vars => IInv'
<1> SUFFICES ASSUME IInv, [Next]_vars PROVE IInv'
    OBVIOUS
<1>1. ASSUME NEW c \in Clients, NEW l \in Lines, Create(c, l) PROVE IInv'
  <2>1. Send(c, "cloud-create", 0, l)
    BY <1>1 DEF Create
  <2> QED
    BY <2>1, SendSafe DEF Changes
<1>2. ASSUME NEW c \in Clients, NEW u \in 1..created,
             Get(c, u) \/ Delete(c, u) \/ \E l \in Lines : Move(c, u, l)
      PROVE  IInv'
  <2>1. u \in Uids
    BY ConstantsAssumption DEF IInv, Uids
  <2> QED
    BY <1>2, <2>1, SendSafe DEF Get, Delete, Move, Changes
<1>3. ASSUME NEW c \in Clients, Refuses(c) PROVE IInv'
    BY <1>3, AnswerSafe, ConstantsAssumption DEF Refuses, IInv
<1>4. ASSUME NEW c \in Clients, SendFails(c) \/ GivesUp(c) PROVE IInv'
    BY <1>4, FinishSafe DEF SendFails, GivesUp, Outcomes
<1>5. ASSUME NEW l \in Lines, NEW status \in {"running", "failed"}, Progress(l, status)
      PROVE  IInv'
    BY <1>5 DEF Progress, IInv, Assistants, Statuses, Truthful
<1>6. CASE UNCHANGED vars
    BY <1>6 DEF vars, IInv, Truthful
<1> QED
    BY <1>1, <1>2, <1>3, <1>4, <1>5, <1>6, CreatesSafe, GetsSafe, MovesSafe, DeletesSafe,
       GarbleSafe, RefusedSafe, ReadsSafe DEF Next

LEMMA Inductive == Spec => []IInv
BY InitIInv, NextIInv, PTL DEF Spec

\* Every reachable state is typed, and a call that succeeded carries no warning.
THEOREM CallsTyped == Spec => []TypeOK
<1>1. IInv => TypeOK
    BY DEF IInv, TypeOK, Truthful
<1> QED
    BY <1>1, Inductive, PTL

\* A cloud command that exits 0 has created, moved or deleted for good.
THEOREM SuccessIsDone == Spec => []OkMeansDone
<1>1. IInv => OkMeansDone
    BY DEF IInv, OkMeansDone, Truthful
<1> QED
    BY <1>1, Inductive, PTL

\* A create or delete that fails without the advice to look first has changed
\* nothing and has nothing left on its way.
THEOREM SilenceIsNothing == Spec => []SilentMeansNot
<1>1. IInv => SilentMeansNot
    BY DEF IInv, SilentMeansNot, Truthful, Ambiguous
<1> QED
    BY <1>1, Inductive, PTL
=============================================================================
