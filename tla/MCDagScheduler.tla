--------------------------- MODULE MCDagScheduler ---------------------------
(***************************************************************************)
(* Plans of four subtasks: any acyclic plan of the first three, and a      *)
(* fourth that may join them (chains, forks, joins, diamonds).             *)
(* When the fourth depends on none, the second may also depend on an index *)
(* that the plan does not have.                                            *)
(***************************************************************************)
EXTENDS DagScheduler

MCSubtasks == 0 .. 3
MCStrangers == {9}

MCPlans ==
  {p \in [MCSubtasks -> SUBSET (MCSubtasks \cup MCStrangers)] :
     /\ \A t \in 0 .. 2 : p[t] \subseteq (0 .. 2) \cup (IF t = 1 /\ p[3] = {} THEN MCStrangers ELSE {})
     /\ p[3] \in {{}, {2}, {0, 1}, {1, 2}, {0, 1, 2}}
     /\ \A S \in SUBSET MCSubtasks : S # {} => \E t \in S : p[t] \cap S = {}}
=============================================================================
