-------------------------- MODULE MCTaskLifecycle ---------------------------
(***************************************************************************)
(* Four tasks for two slots, one of them of a project whose stages cannot  *)
(* be merged, so that tasks queue behind each other while others run, ask, *)
(* fail to start and are cancelled.                                        *)
(***************************************************************************)
EXTENDS TaskLifecycle

CONSTANTS t1, t2, t3, t4

MCTasks == {t1, t2, t3, t4}
MCMisconfigured == {t4}
=============================================================================
