----------------------------- MODULE MCPipeline ------------------------------
(***************************************************************************)
(* Plans of three subtasks: a chain, a chain against the order of the      *)
(* indices, a join, one that depends on an index it does not have, and a   *)
(* cycle.  Verdicts blame at most one subtask, report at most two skipped, *)
(* and may object to the integration only.                                 *)
(***************************************************************************)
EXTENDS Pipeline

MCSubtasks == 0 .. 2
MCStrangers == {9}

Deps(d0, d1, d2) == [t \in MCSubtasks |-> CASE t = 0 -> d0 [] t = 1 -> d1 [] t = 2 -> d2]

MCProposals == {Deps({}, {0}, {1}), Deps({1}, {2}, {}), Deps({}, {}, {0, 1}),
                Deps({}, {9}, {1}), Deps({1}, {0}, {})}

MCVerdicts ==
  {[failed |-> f, retryRecommended |-> f \cap r, skipped |-> s, integration |-> i] :
     f \in {{}, {0}, {1}, {0, 9}}, r \in {{}, {0, 1}}, s \in {{}, {2}, {1, 2}}, i \in BOOLEAN}

MCPipelines == {<<"Plan", "Execute", "Verify">>, <<"Plan", "Execute">>, <<"Execute", "Verify">>}
=============================================================================
