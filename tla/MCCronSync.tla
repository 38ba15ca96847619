----------------------------- MODULE MCCronSync ------------------------------
(* Two names, two chats and three jobs: room for both rows' jobs and for a  *)
(* duplicate of one.  A row delivers to the home chat or, misspelled, to a  *)
(* blank destination or to nothing but blanks; it may be blocked.           *)
EXTENDS CronSync, TLC

Row(deliver, blocked) == [content |-> "x", deliver |-> deliver, blocked |-> blocked]

MCRows == {Row(HomeRef, FALSE), Row(HomeRef, TRUE), Row(Blank, FALSE),
           Row(Spaces, FALSE)}

Symmetry == Permutations(JobIds) \cup Permutations(Names)
=============================================================================
