--------------------------- MODULE MCPersistence ----------------------------
(***************************************************************************)
(* One slot, two tasks and a run of the command line, and a task that was  *)
(* todo before tasks had numbers and whose stages cannot be merged.  The   *)
(* two tasks are interchangeable.                                          *)
(***************************************************************************)
EXTENDS Persistence, TLC

CONSTANTS t1, t2, t3, c1

MCTasks == {t1, t2, t3, c1}
MCMisconfigured == {t3}
MCUnnumbered == {t3}
MCCliRuns == {c1}
MCSymmetry == Permutations({t1, t2})
=============================================================================
