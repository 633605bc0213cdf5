---------------------------- MODULE DagScheduler ----------------------------
(***************************************************************************)
(* TaskOrchestrator.runDAG: the greedy scheduler that runs the subtasks of *)
(* a parallel stage (core/taskOrchestrator.ts), with the DependencyResolver*)
(* it drives and the attempts of executeSubtask.                           *)
(*                                                                         *)
(* JavaScript runs one callback at a time, so an action is one callback,   *)
(* from one await to the next.  A subtask in the Map `running` goes through*)
(* the promise chain                                                       *)
(*                                                                         *)
(*   executeSubtask  -> .then (markComplete) / .catch (markSkipped)        *)
(*                   -> .finally (running.delete, tryLaunch)               *)
(*                                                                         *)
(* and callbacks of other subtasks may run between any two of these links, *)
(* which is where the order of events is least obvious: a subtask that is  *)
(* complete still holds its slot, and what it made ready may be launched   *)
(* by the .finally of another subtask.                                     *)
(***************************************************************************)
EXTENDS SubtaskGraph

CONSTANTS
  Plans,            \* the plans the stage may be given
  MaxConcurrency,   \* opts.maxConcurrency
  MaxAttempts       \* (opts.maxSubtaskRetries ?? 1) + 1

ASSUME DagAssumption ==
  /\ Plans \subseteq {p \in Plan : Acyclic(p)}   \* the Plan stage refuses cycles
  /\ MaxConcurrency \in Nat                      \* --max-concurrency 0 is accepted
  /\ MaxAttempts \in Nat \ {0}

VARIABLES
  plan,             \* subtasks, as given to runDAG
  dag,              \* where runDAG is: "entered", "racing" or "done"
  state,            \* DependencyResolver.states
  phase,            \* progress of the promise chain of each subtask
  attempt,          \* the attempt executeSubtask is in
  skippedIndices,   \* PipelineState.skippedIndices
  isShuttingDown

vars == <<plan, dag, state, phase, attempt, skippedIndices, isShuttingDown>>

(***************************************************************************)
(* "idle"       never launched                                             *)
(* "executing"  an attempt is under way (a CLI process, or a child run)    *)
(* "resolved"   executeSubtask has returned, .then has not run             *)
(* "rejected"   executeSubtask has thrown, .catch has not run              *)
(* "settled"    .then or .catch has run, .finally has not                  *)
(* "retired"    .finally has run: no longer in the Map                     *)
(***************************************************************************)
InMap == {"executing", "resolved", "rejected", "settled"}
Phase == InMap \cup {"idle", "retired"}

Running == {t \in Subtasks : phase[t] \in InMap}

TypeOK ==
  /\ plan \in Plans
  /\ dag \in {"entered", "racing", "done"}
  /\ state \in [Subtasks -> ResolverState]
  /\ phase \in [Subtasks -> Phase]
  /\ attempt \in [Subtasks -> 0 .. MaxAttempts]
  /\ skippedIndices \in SUBSET Subtasks
  /\ isShuttingDown \in BOOLEAN

Init ==
  /\ plan \in Plans
  /\ dag = "entered"
  /\ state = [t \in Subtasks |-> "pending"]
  /\ phase = [t \in Subtasks |-> "idle"]
  /\ attempt = [t \in Subtasks |-> 0]
  /\ skippedIndices = {}
  /\ isShuttingDown = FALSE    \* run() has just looked at it

-----------------------------------------------------------------------------
(***************************************************************************)
(* tryLaunch with `busy` in the Map: while there is a free slot and no     *)
(* shutdown, launch the first ready subtask that is not in the Map.  The   *)
(* loop does not await, so its launches are one step: a prefix of the      *)
(* ready ones that stops at the bound or at the end of the list.           *)
(***************************************************************************)
\* Faulty variant: the bound is not looked at.
LaunchIgnoringSlots(busy, ready, L) == L = ready

LaunchBatch(busy, ready, L) ==
  /\ L \subseteq ready
  /\ \A t \in L, u \in ready \ L : t < u
  /\ \/ L = {} /\ Cardinality(busy) >= MaxConcurrency
     \/ Cardinality(busy \cup L) = MaxConcurrency
     \/ Cardinality(busy \cup L) < MaxConcurrency /\ L = ready

TryLaunch(before, newState, busy) ==
  \E L \in SUBSET Subtasks :
    /\ IF isShuttingDown
       THEN L = {}
       ELSE LaunchBatch(busy, Ready(plan, newState) \ busy, L)
    /\ phase' = [t \in Subtasks |-> IF t \in L THEN "executing" ELSE before[t]]
    /\ attempt' = [t \in Subtasks |-> IF t \in L THEN 1 ELSE attempt[t]]

Begin ==
  /\ dag = "entered"
  /\ dag' = "racing"
  /\ TryLaunch(phase, state, {})
  /\ UNCHANGED <<plan, state, skippedIndices, isShuttingDown>>

(***************************************************************************)
(* The attempt under way ends well: the output is valid and reports        *)
(* success, or the child run succeeds.                                     *)
(***************************************************************************)
AttemptSucceeds(t) ==
  /\ phase[t] = "executing"
  /\ phase' = [phase EXCEPT ![t] = "resolved"]
  /\ UNCHANGED <<plan, dag, state, attempt, skippedIndices, isShuttingDown>>

(***************************************************************************)
(* The attempt under way ends with an error.  One that isRetryableError    *)
(* accepts (the CLI failed or timed out, the output is unusable, the       *)
(* executor says retryWorthy) starts another attempt at once, shutdown or  *)
(* not, while the budget lasts; otherwise executeSubtask throws.           *)
(***************************************************************************)
AttemptFails(t, retryable) ==
  /\ phase[t] = "executing"
  /\ IF retryable /\ attempt[t] < MaxAttempts
     THEN /\ attempt' = [attempt EXCEPT ![t] = @ + 1]
          /\ UNCHANGED phase
     ELSE /\ phase' = [phase EXCEPT ![t] = "rejected"]
          /\ UNCHANGED attempt
  /\ UNCHANGED <<plan, dag, state, skippedIndices, isShuttingDown>>

(***************************************************************************)
(* .then: the resolver learns of the completion.                           *)
(***************************************************************************)
OnResolved(t) ==
  /\ phase[t] = "resolved"
  /\ state' = [state EXCEPT ![t] = "complete"]
  /\ phase' = [phase EXCEPT ![t] = "settled"]
  /\ UNCHANGED <<plan, dag, attempt, skippedIndices, isShuttingDown>>

(***************************************************************************)
(* .catch: the failed subtask and its cascade are skipped.                 *)
(***************************************************************************)
OnRejected(t) ==
  /\ phase[t] = "rejected"
  /\ state' = MarkSkipped(plan, state, t)
  /\ skippedIndices' = skippedIndices \cup {t} \cup Downstream(plan, t)
  /\ phase' = [phase EXCEPT ![t] = "settled"]
  /\ UNCHANGED <<plan, dag, attempt, isShuttingDown>>

(***************************************************************************)
(* .finally: the slot is freed and whatever is ready is launched.          *)
(***************************************************************************)
\* Faulty variant: the slot is freed but nobody is told.
FinallyWithoutLaunch(t) ==
  /\ phase[t] = "settled"
  /\ phase' = [phase EXCEPT ![t] = "retired"]
  /\ UNCHANGED <<plan, dag, state, attempt, skippedIndices, isShuttingDown>>

Finally(t) ==
  /\ phase[t] = "settled"
  /\ TryLaunch([phase EXCEPT ![t] = "retired"], state, Running \ {t})
  /\ UNCHANGED <<plan, dag, state, skippedIndices, isShuttingDown>>

(***************************************************************************)
(* The loop around Promise.race finds the Map empty: runDAG returns.       *)
(***************************************************************************)
\* Faulty variant: the loop waits until every subtask has an outcome.
DagCompleteWhenAllSettled ==
  /\ dag = "racing"
  /\ \A t \in Subtasks : state[t] # "pending" /\ phase[t] \notin InMap
  /\ dag' = "done"
  /\ UNCHANGED <<plan, state, phase, attempt, skippedIndices, isShuttingDown>>

DagComplete ==
  /\ dag = "racing"
  /\ Running = {}
  /\ dag' = "done"
  /\ UNCHANGED <<plan, state, phase, attempt, skippedIndices, isShuttingDown>>

(***************************************************************************)
(* shutdown(), called by a signal handler or by the cancellation of the    *)
(* task: only a flag, nothing that runs is stopped.                        *)
(***************************************************************************)
Shutdown ==
  /\ dag = "racing"
  /\ ~ isShuttingDown
  /\ isShuttingDown' = TRUE
  /\ UNCHANGED <<plan, dag, state, phase, attempt, skippedIndices>>

Terminated == dag = "done" /\ UNCHANGED vars

AttemptEnds(t) == AttemptSucceeds(t) \/ \E r \in BOOLEAN : AttemptFails(t, r)

Callback(t) == OnResolved(t) \/ OnRejected(t) \/ Finally(t)

Next ==
  \/ Begin
  \/ \E t \in Subtasks : AttemptSucceeds(t)
  \/ \E t \in Subtasks, r \in BOOLEAN : AttemptFails(t, r)
  \/ \E t \in Subtasks : OnResolved(t)
  \/ \E t \in Subtasks : OnRejected(t)
  \/ \E t \in Subtasks : Finally(t)
  \/ DagComplete
  \/ Shutdown
  \/ Terminated

(***************************************************************************)
(* Every attempt ends, since runClaudeCli rejects at its timeout; a        *)
(* callback whose promise has settled runs.  A shutdown may never come.    *)
(***************************************************************************)
Fairness ==
  /\ WF_vars(Begin)
  /\ WF_vars(DagComplete)
  /\ \A t \in Subtasks : WF_vars(AttemptEnds(t)) /\ WF_vars(Callback(t))

Spec == Init /\ [][Next]_vars /\ Fairness
-----------------------------------------------------------------------------
Complete == {t \in Subtasks : state[t] = "complete"}

Skipped == {t \in Subtasks : state[t] = "skipped"}

\* The subtasks that failed themselves, rather than by cascade.
Failed == {t \in Skipped : phase[t] \in {"settled", "retired"}}

(***************************************************************************)
(* Whatever order the callbacks of concurrent subtasks run in, a subtask   *)
(* that was launched found everything it depends on complete, and this     *)
(* does not change afterwards (runDAG, getReady).                          *)
(***************************************************************************)
DepsDoneBeforeRun ==
  \A t \in Subtasks :
    phase[t] # "idle" \/ state[t] = "complete" =>
      \A i \in plan[t] : IsComplete(state, i)

(***************************************************************************)
(* The Map never holds more subtasks than opts.maxConcurrency, although    *)
(* every .finally launches on its own (tryLaunch).                         *)
(***************************************************************************)
ConcurrencyBound == Cardinality(Running) <= MaxConcurrency

(***************************************************************************)
(* The scheduler is greedy: unless a slot is about to be refilled by a     *)
(* .then, .catch or .finally that is due, a free slot means that nothing   *)
(* is ready, even though completions and launches happen in different      *)
(* callbacks (the loss of a wake-up would leave a ready subtask behind).   *)
(***************************************************************************)
NoIdleSlot ==
  /\ dag # "entered"
  /\ ~ isShuttingDown
  /\ \A t \in Running : phase[t] = "executing"
  /\ Cardinality(Running) < MaxConcurrency
  => Ready(plan, state) \ Running = {}

(***************************************************************************)
(* What is skipped is exactly what failed and what depends on it, and the  *)
(* resolver and the pipeline's own skippedIndices, which Verify and the    *)
(* retry loop read, agree on it (the .catch of runDAG, markSkipped).       *)
(***************************************************************************)
SkipsAreCascades ==
  /\ Skipped = Cascade(plan, Failed)
  /\ skippedIndices = Skipped

(***************************************************************************)
(* markSkipped and markComplete overwrite states unconditionally; still, a *)
(* cascade never reaches a subtask that runs or has completed, and no      *)
(* outcome is ever replaced by another.                                    *)
(***************************************************************************)
OutcomesAreFinal ==
  [][\A t \in Subtasks :
       /\ state[t] # "pending" => state'[t] = state[t]
       /\ state'[t] # state[t] => phase[t] \in {"idle", "resolved", "rejected"}]_vars

(***************************************************************************)
(* runDAG returns only when every subtask has an outcome, except those     *)
(* that wait for an index the plan does not have, unless it was shut down  *)
(* or was given no slot at all; and nothing is done or failed itself whose *)
(* dependencies are not done.  This is what Pipeline builds upon.          *)
(***************************************************************************)
ReturnsWhenSettled ==
  dag = "done" =>
    DagOutcome(plan, Complete, Failed, isShuttingDown \/ MaxConcurrency = 0)

(***************************************************************************)
(* runDAG returns: no wait of one subtask on another, no retry and no      *)
(* shutdown keeps it from ending.                                          *)
(***************************************************************************)
EventuallyReturns == <>(dag = "done")

(***************************************************************************)
(* The scheduler implements the contract.                                  *)
(***************************************************************************)
ContractStatus(t) ==
  CASE state[t] = "complete" -> "done"
    [] state[t] = "skipped" -> IF t \in Failed THEN "failed" ELSE "skipped"
    [] OTHER -> IF t \in Running THEN "active" ELSE "waiting"

C == INSTANCE DagContract WITH status <- [t \in Subtasks |-> ContractStatus(t)]

ImplementsContract == C!Contract
=============================================================================
