----------------------------- MODULE MCBoardSync ----------------------------
(***************************************************************************)
(* Two tasks on one slot.  t1 is the task whose run is told of, in four    *)
(* events, so that a ring of two wraps around; t2 competes for the slot.   *)
(***************************************************************************)
EXTENDS BoardSync

CONSTANTS t1, t2

MCTasks == {t1, t2}

One == [t \in Tasks |-> IF t = t1 THEN 1 ELSE 0]
Four == [t \in Tasks |-> IF t = t1 THEN 4 ELSE 0]

UnderWay == Len(inbox) + Len(outbox) + Cardinality(asked) + Cardinality(answers)

(***************************************************************************)
(* Bound of the model.  Either t1 is alone, with all its events, among     *)
(* them a question, its answer and the end, before and after a connection  *)
(* that breaks; or there are two tasks, and one event or one broken        *)
(* connection, after which no more than three messages, requests and       *)
(* answers are under way.                                                  *)
(***************************************************************************)
Scenarios ==
  \/ status[t2] = "absent"
  \/ sent[t1] + breaks = 0
  \/ sent[t1] + breaks = 1 /\ UnderWay <= 3
=============================================================================
