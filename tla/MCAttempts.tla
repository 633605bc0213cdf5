----------------------------- MODULE MCAttempts -----------------------------
(***************************************************************************)
(* A run of one or two subtasks, one of which may become a child run with  *)
(* that one subtask.                                                       *)
(***************************************************************************)
EXTENDS Attempts

MCPlans == [d \in 0 .. MaxDepth |-> IF d = 0 THEN {{2}, {1, 2}} ELSE {{2}}]
=============================================================================
