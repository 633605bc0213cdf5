---------------------------- MODULE DagContract -----------------------------
(***************************************************************************)
(* What running a plan's subtasks promises to the rest of the program,     *)
(* with no resolver, no promises and no retries: a subtask starts at most  *)
(* once and only when all it depends on is done; at most MaxConcurrency    *)
(* are active; an active one ends done or failed; a failure takes with it  *)
(* exactly the subtasks that wait for it, directly or not; nothing that    *)
(* ended changes again.  DagScheduler implements this.                     *)
(***************************************************************************)
EXTENDS SubtaskGraph

CONSTANTS Plans, MaxConcurrency

VARIABLES
  plan,      \* the plan that is run
  status     \* status of each subtask

contractVars == <<plan, status>>

Status == {"waiting", "active", "done", "failed", "skipped"}

With(s) == {t \in Subtasks : status[t] = s}

ContractInit ==
  /\ plan \in Plans
  /\ status = [t \in Subtasks |-> "waiting"]

Startable(t) ==
  /\ status[t] = "waiting"
  /\ \A i \in plan[t] : i \in With("done")

Start(T) ==
  /\ T # {}
  /\ \A t \in T : Startable(t)
  /\ Cardinality(With("active") \cup T) <= MaxConcurrency
  /\ status' = [t \in Subtasks |-> IF t \in T THEN "active" ELSE status[t]]
  /\ UNCHANGED plan

Finish(t) ==
  /\ status[t] = "active"
  /\ status' = [status EXCEPT ![t] = "done"]
  /\ UNCHANGED plan

Fail(t) ==
  /\ status[t] = "active"
  /\ \A u \in Downstream(plan, t) : status[u] \in {"waiting", "skipped"}
  /\ status' = [u \in Subtasks |->
                  CASE u = t -> "failed"
                    [] u # t /\ u \in Downstream(plan, t) -> "skipped"
                    [] OTHER -> status[u]]
  /\ UNCHANGED plan

ContractNext ==
  \/ \E T \in SUBSET Subtasks : Start(T)
  \/ \E t \in Subtasks : Finish(t) \/ Fail(t)

Contract == ContractInit /\ [][ContractNext]_contractVars
=============================================================================
