----------------------------- MODULE MCRunLock ------------------------------
(***************************************************************************)
(* Two placements of runs in processes: two tasks of a backend beside a    *)
(* command line, and a later command line, so that every process may crash *)
(* and still be followed by another; and three tasks of one backend.       *)
(***************************************************************************)
EXTENDS RunLock

CONSTANTS r1, r2, r3, r4, backend, cli, laterCli

MixedRuns == {r1, r2, r3, r4}
MixedProcesses == {backend, cli, laterCli}
MixedProcOf ==
  [r \in MixedRuns |-> CASE r \in {r1, r2} -> backend [] r = r3 -> cli [] r = r4 -> laterCli]

BackendRuns == {r1, r2, r3}
BackendProcesses == {backend}
BackendProcOf == [r \in BackendRuns |-> backend]
=============================================================================
