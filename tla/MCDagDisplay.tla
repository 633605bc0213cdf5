---------------------------- MODULE MCDagDisplay ----------------------------
(***************************************************************************)
(* On two slots: a chain, a fork, three independent subtasks, and one that *)
(* depends on an index which the plan does not have.                       *)
(***************************************************************************)
EXTENDS DagDisplay

MCPlans == {<<{}, {1}, {2}>>, <<{}, {1}, {1}>>, <<{}, {}, {}>>, <<{}, {9}, {1}>>}
=============================================================================
