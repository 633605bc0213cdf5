---------------------------- MODULE SubtaskGraph ----------------------------
(***************************************************************************)
(* The dependency graph of a plan's subtasks, and the questions that the   *)
(* resolver of core/dependencyResolver.ts answers about it.                *)
(*                                                                         *)
(* A plan is a function from the subtask to the set of the indices it      *)
(* depends on.  Nothing in the code checks that these indices name         *)
(* subtasks of the plan, so a plan may also name Strangers.                *)
(*                                                                         *)
(* The code walks the graph with work lists.  Here each walk is the set it *)
(* computes, written as a least closed set, so that no recursion is needed *)
(* and the facts the proofs use are immediate.                             *)
(***************************************************************************)
EXTENDS Naturals, FiniteSets

CONSTANTS
  Subtasks,     \* positions of the subtasks in the plan's array
  Strangers     \* indices a plan may depend on although it has no such subtask

ASSUME SubtasksAssumption ==
  /\ Subtasks \subseteq Nat
  /\ IsFiniteSet(Subtasks)
  /\ Strangers \cap Subtasks = {}

ResolverState == {"pending", "complete", "skipped"}

Plan == [Subtasks -> SUBSET (Subtasks \cup Strangers)]

(***************************************************************************)
(* getDownstreamDependents: every subtask that depends on i, directly or   *)
(* through others.  A set that absorbs the dependents of i and of its own  *)
(* members contains them all; the least such set is the answer.            *)
(***************************************************************************)
AbsorbsDependents(plan, i, S) ==
  \A t \in Subtasks : plan[t] \cap (S \cup {i}) # {} => t \in S

Downstream(plan, i) ==
  {t \in Subtasks :
     \A S \in SUBSET Subtasks : AbsorbsDependents(plan, i, S) => t \in S}

(***************************************************************************)
(* detectCircularDependencies returns null: there is no cycle, that is,    *)
(* every group of subtasks has one that depends on none of the group.      *)
(***************************************************************************)
Acyclic(plan) ==
  \A S \in SUBSET Subtasks :
     S # {} => \E t \in S : plan[t] \cap S = {}

(***************************************************************************)
(* DependencyResolver.getReady: pending subtasks whose dependencies are    *)
(* all complete.  An index that the resolver does not know has no state,   *)
(* hence is never complete.                                                *)
(***************************************************************************)
IsComplete(state, i) == i \in Subtasks /\ state[i] = "complete"

\* Faulty variant: a subtask is ready as soon as one dependency is complete.
ReadyWhenAnyDone(plan, state) ==
  {t \in Subtasks : state[t] = "pending" /\
     (plan[t] = {} \/ \E i \in plan[t] : IsComplete(state, i))}

\* Faulty variant: the state of the subtask itself is not looked at.
ReadyWhateverState(plan, state) ==
  {t \in Subtasks : \A i \in plan[t] : IsComplete(state, i)}

Ready(plan, state) ==
  {t \in Subtasks : state[t] = "pending" /\ \A i \in plan[t] : IsComplete(state, i)}

(***************************************************************************)
(* DependencyResolver.markSkipped(i): i and everything downstream of it,   *)
(* whatever state they are in.                                             *)
(***************************************************************************)
\* Faulty variant: the cascade stops at the direct dependents.
SkipDirectDependents(plan, state, i) ==
  [t \in Subtasks |-> IF t = i \/ i \in plan[t] THEN "skipped" ELSE state[t]]

MarkSkipped(plan, state, i) ==
  [t \in Subtasks |-> IF t = i \/ t \in Downstream(plan, i)
                      THEN "skipped" ELSE state[t]]

(***************************************************************************)
(* The subtasks that can never become ready because they depend, directly  *)
(* or through others, on an index the plan does not have.                  *)
(***************************************************************************)
Blocked(plan) == UNION {Downstream(plan, i) : i \in Strangers}

(***************************************************************************)
(* The outcomes a stage that runs the plan may have: which subtasks are    *)
(* done and which failed themselves.  The others were skipped with one     *)
(* that failed, or are pending: blocked, unless the stage was cut short.   *)
(***************************************************************************)
Cascade(plan, failed) == failed \cup UNION {Downstream(plan, i) : i \in failed}

DagOutcome(plan, done, failed, cutShort) ==
  /\ done \cap failed = {}
  /\ \A t \in done \cup failed : plan[t] \subseteq done
  /\ cutShort \/ Subtasks \ (done \cup Cascade(plan, failed)) \subseteq Blocked(plan)
=============================================================================
