----------------------------- MODULE DagProofs ------------------------------
(***************************************************************************)
(* Proofs about DagScheduler and DagDisplay, for every set of subtasks,    *)
(* every acyclic plan, every concurrency bound, every number of attempts   *)
(* and every number of status lines.                                       *)
(*                                                                         *)
(* The scheduler.  Everything rests on IInv, the inductive invariant: the  *)
(* state of a subtask agrees with the progress of its promise chain, and   *)
(* what was launched or is complete has all its dependencies complete.     *)
(* From it, the subtasks that are neither launched nor complete absorb the *)
(* dependents of any subtask that fails (CascadeHitsOnlyIdle): a cascade   *)
(* cannot reach work that runs or is done.                                 *)
(*                                                                         *)
(* The display.  GoodDisplay says what holds of a display between any two  *)
(* writes, whoever writes next: its screen is a part that stays and a zone *)
(* of as many lines as it remembers, the part that stays shows each        *)
(* outcome among the entries once, and the zone is one of four.  Every     *)
(* method keeps it, provided that no event replaces an outcome.  That none *)
(* does is what IInv says: DisplayIInv joins the two by what the entry of  *)
(* a subtask is expected to be.                                            *)
(***************************************************************************)
EXTENDS DagDisplay, SequenceFacts, TLAPS

(***************************************************************************)
(* The state of a subtask, seen from its promise chain.                    *)
(***************************************************************************)
StateAgreesWithPhase ==
  \A t \in Subtasks :
    /\ phase[t] = "idle" => state[t] \in {"pending", "skipped"}
    /\ phase[t] \in {"executing", "resolved", "rejected"} => state[t] = "pending"
    /\ phase[t] \in {"settled", "retired"} => state[t] \in {"complete", "skipped"}

(***************************************************************************)
(* The scheduler is greedy as soon as no .finally is due.                  *)
(***************************************************************************)
GreedyWhenNoneSettled ==
  /\ dag # "entered"
  /\ ~ isShuttingDown
  /\ \A t \in Running : phase[t] # "settled"
  /\ Cardinality(Running) < MaxConcurrency
  => Ready(plan, state) \ Running = {}

EmptyMapOutsideTheRace == dag # "racing" => Running = {}

IInv ==
  /\ TypeOK
  /\ StateAgreesWithPhase
  /\ DepsDoneBeforeRun
  /\ SkipsAreCascades
  /\ ConcurrencyBound
  /\ GreedyWhenNoneSettled
  /\ EmptyMapOutsideTheRace

-----------------------------------------------------------------------------
(***************************************************************************)
(* Facts about the graph.                                                  *)
(***************************************************************************)
LEMMA PlanType ==
  ASSUME TypeOK
  PROVE  plan \in Plan /\ Acyclic(plan)
BY DagAssumption DEF TypeOK

\* Downstream is itself one of the sets it is the least of.
LEMMA DownstreamAbsorbs ==
  ASSUME NEW p \in Plan, NEW i
  PROVE  AbsorbsDependents(p, i, Downstream(p, i))
<1> SUFFICES ASSUME NEW t \in Subtasks, p[t] \cap (Downstream(p, i) \cup {i}) # {},
                    NEW S \in SUBSET Subtasks, AbsorbsDependents(p, i, S)
             PROVE  t \in S
  BY DEF AbsorbsDependents, Downstream
<1>1. Downstream(p, i) \subseteq S
  BY DEF Downstream
<1>2. p[t] \cap (S \cup {i}) # {}
  BY <1>1
<1> QED
  BY <1>2 DEF AbsorbsDependents

LEMMA DownstreamLeast ==
  ASSUME NEW p \in Plan, NEW i, NEW S \in SUBSET Subtasks, AbsorbsDependents(p, i, S)
  PROVE  Downstream(p, i) \subseteq S
BY DEF Downstream

LEMMA RunningFinite ==
  ASSUME NEW S \in SUBSET Subtasks
  PROVE  IsFiniteSet(S) /\ Cardinality(S) \in Nat
BY SubtasksAssumption, FS_Subset, FS_CardinalityType

(***************************************************************************)
(* The cascade of a failing subtask reaches only subtasks that were never  *)
(* launched: no work that runs or that is complete is thrown away.         *)
(***************************************************************************)
LEMMA CascadeHitsOnlyIdle ==
  ASSUME TypeOK, StateAgreesWithPhase, DepsDoneBeforeRun,
         NEW t \in Subtasks, state[t] = "pending"
  PROVE  \A u \in Downstream(plan, t) :
            u \in Subtasks /\ phase[u] = "idle" /\ state[u] # "complete"
<1> DEFINE Untouched == {u \in Subtasks : phase[u] = "idle" /\ state[u] # "complete"}
<1>1. AbsorbsDependents(plan, t, Untouched)
  <2> SUFFICES ASSUME NEW u \in Subtasks, plan[u] \cap (Untouched \cup {t}) # {},
                      u \notin Untouched
               PROVE  FALSE
    BY DEF AbsorbsDependents
  <2>1. PICK i \in plan[u] : i \in Untouched \cup {t}
    OBVIOUS
  <2>2. IsComplete(state, i)
    BY DEF DepsDoneBeforeRun
  <2> QED
    BY <2>1, <2>2 DEF IsComplete
<1>2. Downstream(plan, t) \subseteq Untouched
  <2> HIDE DEF Untouched
  <2>1. Untouched \in SUBSET Subtasks
    BY DEF Untouched
  <2> QED
    BY <1>1, <2>1, DownstreamLeast, PlanType
<1> QED
  BY <1>2
-----------------------------------------------------------------------------
(***************************************************************************)
(* Facts about tryLaunch.                                                  *)
(***************************************************************************)
Bounded(busy, L) == Cardinality(busy \cup L) <= MaxConcurrency

LEMMA LaunchIsBounded ==
  ASSUME NEW busy \in SUBSET Subtasks, NEW ready \in SUBSET Subtasks, NEW L,
         Cardinality(busy) <= MaxConcurrency, LaunchBatch(busy, ready, L)
  PROVE  L \subseteq ready /\ Bounded(busy, L)
<1>1. L \in SUBSET Subtasks
  BY DEF LaunchBatch
<1>2. Cardinality(busy \cup L) \in Nat
  BY <1>1, RunningFinite
<1>3. CASE L = {}
  <2>1. busy \cup L = busy
    BY <1>3
  <2> QED
    BY <2>1, <1>3 DEF Bounded
<1>4. CASE L # {}
  BY <1>4, <1>2, DagAssumption DEF LaunchBatch, Bounded
<1> QED
  BY <1>3, <1>4 DEF LaunchBatch

\* What a call of tryLaunch leaves in the Map, and what it does not launch.
Launched(before, busy, L) ==
  /\ phase' = [t \in Subtasks |-> IF t \in L THEN "executing" ELSE before[t]]
  /\ attempt' = [t \in Subtasks |-> IF t \in L THEN 1 ELSE attempt[t]]
  /\ {t \in Subtasks : phase'[t] \in InMap} = busy \cup L
  /\ Bounded(busy, L)
  /\ ~ isShuttingDown /\ Cardinality(busy \cup L) < MaxConcurrency
       => Ready(plan, state) \ (busy \cup L) = {}

LEMMA TryLaunchEffect ==
  ASSUME TypeOK, NEW before \in [Subtasks -> Phase],
         NEW busy \in SUBSET Subtasks,
         busy = {t \in Subtasks : before[t] \in InMap},
         Cardinality(busy) <= MaxConcurrency,
         TryLaunch(before, state, busy)
  PROVE  \E L \in SUBSET (Ready(plan, state) \ busy) : Launched(before, busy, L)
<1> DEFINE ready == Ready(plan, state) \ busy
<1>0. ready \in SUBSET Subtasks
  BY DEF Ready
<1>1. PICK L \in SUBSET Subtasks :
        /\ IF isShuttingDown THEN L = {} ELSE LaunchBatch(busy, ready, L)
        /\ phase' = [t \in Subtasks |-> IF t \in L THEN "executing" ELSE before[t]]
        /\ attempt' = [t \in Subtasks |-> IF t \in L THEN 1 ELSE attempt[t]]
  BY DEF TryLaunch
<1> HIDE DEF ready
<1>2. L \subseteq ready /\ Bounded(busy, L)
  <2>1. CASE isShuttingDown
    <3>1. busy \cup L = busy
      BY <1>1, <2>1
    <3> QED
      BY <1>1, <2>1, <3>1 DEF Bounded
  <2>2. CASE ~ isShuttingDown
    BY <1>0, <1>1, <2>2, LaunchIsBounded
  <2> QED
    BY <2>1, <2>2
<1>3. {t \in Subtasks : phase'[t] \in InMap} = busy \cup L
  <2>1. \A t \in Subtasks : phase'[t] \in InMap <=> t \in busy \/ t \in L
    BY <1>1 DEF InMap
  <2> QED
    BY <2>1
<1>4. ASSUME ~ isShuttingDown, Cardinality(busy \cup L) < MaxConcurrency
      PROVE  Ready(plan, state) \ (busy \cup L) = {}
  <2>1. LaunchBatch(busy, ready, L)
    BY <1>1, <1>4
  <2>2. Cardinality(busy) \in Nat /\ Cardinality(busy \cup L) \in Nat
    BY RunningFinite
  <2>3. L = {} => busy \cup L = busy
    OBVIOUS
  <2>4. L = ready
    BY <2>1, <2>2, <2>3, <1>4, DagAssumption DEF LaunchBatch
  <2> QED
    BY <2>4 DEF ready
<1> QED
  BY <1>1, <1>2, <1>3, <1>4 DEF ready, Launched
-----------------------------------------------------------------------------
(***************************************************************************)
(* IInv is inductive.                                                      *)
(***************************************************************************)
LEMMA InitIInv == Init => IInv
<1> SUFFICES ASSUME Init PROVE IInv
  OBVIOUS
<1>1. Running = {} /\ Skipped = {} /\ Failed = {}
  BY DEF Init, Running, InMap, Skipped, Failed
<1>2. TypeOK
  <2>1. attempt \in [Subtasks -> 0 .. MaxAttempts]
    BY DagAssumption DEF Init
  <2>2. state \in [Subtasks -> ResolverState] /\ phase \in [Subtasks -> Phase]
    BY DEF Init, ResolverState, Phase
  <2> QED
    BY <2>1, <2>2 DEF Init, TypeOK
<1>3. StateAgreesWithPhase /\ DepsDoneBeforeRun
  BY DEF Init, StateAgreesWithPhase, DepsDoneBeforeRun
<1>4. SkipsAreCascades
  BY <1>1 DEF Init, SkipsAreCascades, Cascade
<1>5. ConcurrencyBound
  BY <1>1, DagAssumption, FS_EmptySet DEF ConcurrencyBound
<1>6. GreedyWhenNoneSettled /\ EmptyMapOutsideTheRace
  BY <1>1 DEF Init, GreedyWhenNoneSettled, EmptyMapOutsideTheRace
<1> QED
  BY <1>2, <1>3, <1>4, <1>5, <1>6 DEF IInv

\* Which subtasks failed, and what their cascades are, depends on nothing else.
LEMMA SameSkips ==
  ASSUME SkipsAreCascades,
         UNCHANGED <<plan, skippedIndices>>,
         Skipped' = Skipped, Failed' = Failed
  PROVE  SkipsAreCascades'
BY DEF SkipsAreCascades, Cascade, Downstream, AbsorbsDependents

\* A callback that ends in tryLaunch, whatever it does to the Map before.
LEMMA LaunchKeepsIInv ==
  ASSUME IInv, NEW before \in [Subtasks -> Phase], NEW busy \in SUBSET Subtasks,
         \A t \in Subtasks :
            \/ before[t] = phase[t]
            \/ phase[t] = "settled" /\ before[t] = "retired",
         busy = {t \in Subtasks : before[t] \in InMap},
         Cardinality(busy) <= MaxConcurrency,
         TryLaunch(before, state, busy),
         dag' = "racing",
         UNCHANGED <<plan, state, skippedIndices, isShuttingDown>>
  PROVE  IInv'
<1> USE DEF IInv
<1>1. PICK L \in SUBSET (Ready(plan, state) \ busy) : Launched(before, busy, L)
  BY TryLaunchEffect
<1>2. \A t \in L : t \in Subtasks /\ state[t] = "pending" /\ phase[t] = "idle"
                     /\ \A i \in plan[t] : IsComplete(state, i)
  <2> SUFFICES ASSUME NEW t \in L
               PROVE  t \in Subtasks /\ state[t] = "pending" /\ phase[t] = "idle"
                        /\ \A i \in plan[t] : IsComplete(state, i)
    OBVIOUS
  <2>1. t \in Subtasks /\ state[t] = "pending" /\ \A i \in plan[t] : IsComplete(state, i)
    BY DEF Ready
  <2>2. before[t] \notin InMap
    BY <2>1
  <2> QED
    BY <2>1, <2>2 DEF StateAgreesWithPhase, TypeOK, Phase, InMap
<1>3. TypeOK'
  BY <1>1, DagAssumption DEF Launched, TypeOK, Phase, InMap
<1>4. StateAgreesWithPhase'
  BY <1>1, <1>2 DEF Launched, StateAgreesWithPhase
<1>5. DepsDoneBeforeRun'
  BY <1>1, <1>2 DEF Launched, DepsDoneBeforeRun, IsComplete
<1>6. SkipsAreCascades'
  <2>1. Skipped' = Skipped
    BY DEF Skipped
  <2>2. \A t \in Skipped : phase'[t] = before[t]
    BY <1>1, <1>2 DEF Launched, Skipped
  <2>3. Failed' = Failed
    BY <2>1, <2>2 DEF Failed, Skipped
  <2> QED
    BY <2>1, <2>3, SameSkips
<1>7. Running' = busy \cup L
  BY <1>1 DEF Launched, Running
<1>8. ConcurrencyBound'
  BY <1>1, <1>7 DEF Launched, ConcurrencyBound, Bounded
<1>9. GreedyWhenNoneSettled'
  BY <1>1, <1>7 DEF Launched, GreedyWhenNoneSettled, Ready, IsComplete
<1>10. EmptyMapOutsideTheRace'
  BY DEF EmptyMapOutsideTheRace
<1> QED
  BY <1>3, <1>4, <1>5, <1>6, <1>8, <1>9, <1>10

LEMMA BeginKeepsIInv == ASSUME IInv, Begin PROVE IInv'
<1> USE DEF IInv
<1>1. PICK before : before = phase
  OBVIOUS
<1>2. {t \in Subtasks : before[t] \in InMap} = {}
  BY <1>1 DEF Begin, EmptyMapOutsideTheRace, Running
<1>3. before \in [Subtasks -> Phase] /\ Cardinality({}) <= MaxConcurrency
  BY <1>1, DagAssumption, FS_EmptySet DEF TypeOK
<1> QED
  BY <1>1, <1>2, <1>3, LaunchKeepsIInv DEF Begin

\* What a subtask in the Map says about runDAG.
LEMMA InMapWhileRacing ==
  ASSUME IInv, NEW t \in Subtasks, phase[t] \in InMap
  PROVE  dag = "racing"
BY DEF IInv, EmptyMapOutsideTheRace, Running

\* The Map that a .finally hands to tryLaunch.
FreesSlot(t, before, busy) ==
  /\ before = [phase EXCEPT ![t] = "retired"]
  /\ busy = Running \ {t}
  /\ busy = {u \in Subtasks : before[u] \in InMap}
  /\ \A u \in Subtasks :
       \/ before[u] = phase[u]
       \/ phase[u] = "settled" /\ before[u] = "retired"
  /\ Cardinality(busy) <= MaxConcurrency

LEMMA FinallyFreesSlot ==
  ASSUME IInv, NEW t \in Subtasks, Finally(t)
  PROVE  \E before \in [Subtasks -> Phase], busy \in SUBSET Subtasks :
            FreesSlot(t, before, busy)
<1> USE DEF IInv
<1>1. PICK before : before = [phase EXCEPT ![t] = "retired"]
  OBVIOUS
<1>2. PICK busy : busy = Running \ {t}
  OBVIOUS
<1>3. before \in [Subtasks -> Phase] /\ busy \in SUBSET Subtasks
  BY <1>1, <1>2 DEF TypeOK, Phase, Running
<1>4. \A u \in Subtasks :
        \/ before[u] = phase[u]
        \/ phase[u] = "settled" /\ before[u] = "retired"
  BY <1>1 DEF TypeOK, Finally
<1>5. busy = {u \in Subtasks : before[u] \in InMap}
  BY <1>1, <1>2 DEF TypeOK, Running, InMap
<1>6. Cardinality(busy) <= MaxConcurrency
  <2>1. Running \in SUBSET Subtasks
    BY DEF Running
  <2>2. IsFiniteSet(Running) /\ Cardinality(Running) \in Nat /\ Cardinality(busy) \in Nat
    BY <1>3, <2>1, RunningFinite
  <2>3. Cardinality(busy) <= Cardinality(Running)
    BY <1>2, <2>2, FS_Subset
  <2> QED
    BY <2>2, <2>3, DagAssumption DEF ConcurrencyBound
<1> QED
  BY <1>1, <1>2, <1>3, <1>4, <1>5, <1>6 DEF FreesSlot

LEMMA FinallyKeepsIInv == ASSUME IInv, NEW t \in Subtasks, Finally(t) PROVE IInv'
<1>1. PICK before \in [Subtasks -> Phase], busy \in SUBSET Subtasks : FreesSlot(t, before, busy)
  BY FinallyFreesSlot
<1>2. dag' = "racing"
  BY InMapWhileRacing DEF Finally, InMap
<1> QED
  BY <1>1, <1>2, LaunchKeepsIInv DEF FreesSlot, Finally

(***************************************************************************)
(* A callback that launches nothing and leaves t in the Map.               *)
(***************************************************************************)
Moves(t) ==
  /\ phase[t] \in InMap
  /\ \E p \in InMap : phase' = [phase EXCEPT ![t] = p]
  /\ UNCHANGED <<plan, dag, isShuttingDown>>

LEMMA MovesKeepsMap ==
  ASSUME IInv, NEW t \in Subtasks, Moves(t)
  PROVE  /\ Running' = Running
         /\ ConcurrencyBound'
         /\ EmptyMapOutsideTheRace'
         /\ phase' \in [Subtasks -> Phase]
         /\ \A u \in Subtasks : phase[u] = "idle" <=> phase'[u] = "idle"
<1> USE DEF IInv
<1>1. phase' \in [Subtasks -> Phase]
  BY DEF Moves, TypeOK, Phase
<1>2. \A u \in Subtasks : phase[u] \in InMap <=> phase'[u] \in InMap
  BY DEF Moves, TypeOK
<1>3. \A u \in Subtasks : phase[u] = "idle" <=> phase'[u] = "idle"
  BY DEF Moves, TypeOK, InMap
<1>4. Running' = Running
  BY <1>2 DEF Running
<1>5. ConcurrencyBound' /\ EmptyMapOutsideTheRace'
  BY <1>4 DEF ConcurrencyBound, EmptyMapOutsideTheRace, Moves
<1> QED
  BY <1>1, <1>3, <1>4, <1>5

LEMMA AttemptKeepsIInv ==
  ASSUME IInv, NEW t \in Subtasks, NEW r \in BOOLEAN, AttemptSucceeds(t) \/ AttemptFails(t, r)
  PROVE  IInv'
<1> USE DEF IInv
<1>1. PICK p \in {"executing", "resolved", "rejected"} : phase' = [phase EXCEPT ![t] = p]
  BY DEF AttemptSucceeds, AttemptFails, TypeOK
<1>2. /\ phase[t] = "executing"
      /\ UNCHANGED <<plan, dag, state, skippedIndices, isShuttingDown>>
  BY DEF AttemptSucceeds, AttemptFails
<1>3. state[t] = "pending"
  BY <1>2 DEF StateAgreesWithPhase
<1>4. Moves(t)
  BY <1>1, <1>2 DEF Moves, InMap
<1>5. TypeOK'
  <2>1. attempt' \in [Subtasks -> 0 .. MaxAttempts]
    BY DagAssumption DEF AttemptSucceeds, AttemptFails, TypeOK
  <2> QED
    BY <1>2, <1>4, <2>1, MovesKeepsMap DEF TypeOK
<1>6. StateAgreesWithPhase'
  BY <1>1, <1>2, <1>3 DEF StateAgreesWithPhase, TypeOK
<1>7. DepsDoneBeforeRun'
  BY <1>2, <1>4, MovesKeepsMap DEF DepsDoneBeforeRun, IsComplete
<1>8. SkipsAreCascades'
  <2>1. Skipped' = Skipped
    BY <1>2 DEF Skipped
  <2>2. \A u \in Skipped : phase'[u] = phase[u]
    BY <1>1, <1>3 DEF Skipped, TypeOK
  <2>3. Failed' = Failed
    BY <2>1, <2>2 DEF Failed, Skipped
  <2> QED
    BY <1>2, <2>1, <2>3, SameSkips
<1>9. GreedyWhenNoneSettled'
  <2>1. \A u \in Subtasks : phase'[u] = "settled" <=> phase[u] = "settled"
    BY <1>1, <1>2 DEF TypeOK
  <2>2. Running' = Running /\ Ready(plan, state)' = Ready(plan, state)
    BY <1>2, <1>4, MovesKeepsMap DEF Ready, IsComplete
  <2>3. Running \subseteq Subtasks
    BY DEF Running
  <2> QED
    BY <1>2, <2>1, <2>2, <2>3 DEF GreedyWhenNoneSettled
<1> QED
  BY <1>4, <1>5, <1>6, <1>7, <1>8, <1>9, MovesKeepsMap

\* Until t's .finally has run, greed is not asked for.
LEMMA SettledExcusesGreed ==
  ASSUME NEW t \in Subtasks, (phase[t] = "settled")'
  PROVE  GreedyWhenNoneSettled'
BY DEF GreedyWhenNoneSettled, Running, InMap

LEMMA OnResolvedKeepsIInv == ASSUME IInv, NEW t \in Subtasks, OnResolved(t) PROVE IInv'
<1> USE DEF IInv
<1>1. /\ phase[t] = "resolved" /\ state[t] = "pending"
      /\ phase' = [phase EXCEPT ![t] = "settled"]
      /\ state' = [state EXCEPT ![t] = "complete"]
  BY DEF OnResolved, StateAgreesWithPhase
<1>2. Moves(t)
  BY <1>1 DEF Moves, OnResolved, InMap
<1>3. TypeOK'
  BY <1>1, <1>2, MovesKeepsMap DEF OnResolved, TypeOK, ResolverState
<1>4. StateAgreesWithPhase'
  BY <1>1 DEF StateAgreesWithPhase, TypeOK
<1>5. DepsDoneBeforeRun'
  <2>1. \A i : IsComplete(state, i) => IsComplete(state', i)
    BY <1>1 DEF IsComplete, TypeOK
  <2>2. \A u \in Subtasks : phase'[u] # "idle" \/ state'[u] = "complete"
                              => phase[u] # "idle" \/ state[u] = "complete"
    BY <1>1 DEF TypeOK
  <2> QED
    BY <2>1, <2>2 DEF DepsDoneBeforeRun, OnResolved
<1>6. SkipsAreCascades'
  <2>1. Skipped' = Skipped
    BY <1>1 DEF Skipped, TypeOK
  <2>2. \A u \in Skipped : phase'[u] = phase[u]
    BY <1>1 DEF Skipped, TypeOK
  <2>3. Failed' = Failed
    BY <2>1, <2>2 DEF Failed, Skipped
  <2> QED
    BY <2>1, <2>3, SameSkips DEF OnResolved
<1>7. GreedyWhenNoneSettled'
  BY <1>1, SettledExcusesGreed DEF TypeOK
<1> QED
  BY <1>2, <1>3, <1>4, <1>5, <1>6, <1>7, MovesKeepsMap

LEMMA OnRejectedKeepsIInv == ASSUME IInv, NEW t \in Subtasks, OnRejected(t) PROVE IInv'
<1> USE DEF IInv
<1> DEFINE D == Downstream(plan, t)
<1>1. /\ phase[t] = "rejected" /\ state[t] = "pending"
      /\ phase' = [phase EXCEPT ![t] = "settled"]
      /\ state' = [u \in Subtasks |-> IF u = t \/ u \in D THEN "skipped" ELSE state[u]]
      /\ skippedIndices' = skippedIndices \cup {t} \cup D
      /\ UNCHANGED <<plan, dag, attempt, isShuttingDown>>
  BY DEF OnRejected, StateAgreesWithPhase, MarkSkipped
<1>2. \A u \in D : u \in Subtasks /\ phase[u] = "idle" /\ state[u] # "complete"
  BY <1>1, CascadeHitsOnlyIdle
<1> HIDE DEF D
<1>3. Moves(t)
  BY <1>1 DEF Moves, InMap
<1>4. TypeOK'
  BY <1>1, <1>2, <1>3, MovesKeepsMap DEF TypeOK, ResolverState
<1>5. StateAgreesWithPhase'
  BY <1>1, <1>2 DEF StateAgreesWithPhase, TypeOK
<1>6. DepsDoneBeforeRun'
  <2>1. \A i : IsComplete(state, i) => IsComplete(state', i)
    BY <1>1, <1>2 DEF IsComplete
  <2>2. \A u \in Subtasks : phase'[u] # "idle" \/ state'[u] = "complete"
                              => phase[u] # "idle" \/ state[u] = "complete"
    BY <1>1 DEF TypeOK
  <2> QED
    BY <1>1, <2>1, <2>2 DEF DepsDoneBeforeRun
<1>7. SkipsAreCascades'
  <2>1. Skipped' = Skipped \cup {t} \cup D
    BY <1>1, <1>2 DEF Skipped
  <2>2. Failed' = Failed \cup {t}
    <3>1. \A u \in D : u # t /\ phase'[u] = "idle"
      BY <1>1, <1>2 DEF TypeOK
    <3>2. \A u \in Subtasks : u # t => phase'[u] = phase[u]
      BY <1>1 DEF TypeOK
    <3>3. phase'[t] = "settled" /\ t \notin D
      BY <1>1, <1>2 DEF TypeOK
    <3> QED
      BY <1>2, <2>1, <3>1, <3>2, <3>3 DEF Failed, Skipped
  <2>3. \A f : Downstream(plan, f)' = Downstream(plan, f)
    BY <1>1 DEF Downstream, AbsorbsDependents
  <2> DEFINE Cascades(F) == UNION {Downstream(plan, f) : f \in F}
  <2>4. Cascades(Failed \cup {t}) = Cascades(Failed) \cup D
    BY DEF D
  <2>5. (UNION {Downstream(plan, f) : f \in Failed})' = Cascades(Failed')
    BY <2>3
  <2>6. Skipped = Failed \cup Cascades(Failed) /\ skippedIndices = Skipped
    BY DEF SkipsAreCascades, Cascade
  <2> HIDE DEF Cascades
  <2>7. Skipped' = Failed' \cup Cascades(Failed')
    BY <2>1, <2>2, <2>4, <2>6
  <2>8. skippedIndices' = Skipped'
    BY <1>1, <2>1, <2>6
  <2> QED
    BY <2>5, <2>7, <2>8 DEF SkipsAreCascades, Cascade
<1>8. GreedyWhenNoneSettled'
  BY <1>1, SettledExcusesGreed DEF TypeOK
<1> QED
  BY <1>3, <1>4, <1>5, <1>6, <1>7, <1>8, MovesKeepsMap

\* Steps that change nothing but where runDAG is, or the shutdown flag.
LEMMA OtherStepsKeepIInv ==
  ASSUME IInv,
         \/ DagComplete
         \/ /\ UNCHANGED <<plan, dag, state, phase, attempt, skippedIndices>>
            /\ isShuttingDown' \in {isShuttingDown, TRUE}
  PROVE  IInv'
<1> USE DEF IInv
<1>1. UNCHANGED <<plan, state, phase, attempt, skippedIndices>>
  BY DEF DagComplete
<1>2. /\ dag' = dag \/ (dag = "racing" /\ dag' = "done")
      /\ isShuttingDown' = isShuttingDown \/ isShuttingDown' = TRUE
  BY DEF DagComplete
<1>3. Running' = Running /\ Skipped' = Skipped /\ Failed' = Failed
  BY <1>1 DEF Running, Skipped, Failed
<1>4. TypeOK'
  BY <1>1, <1>2 DEF TypeOK
<1>5. StateAgreesWithPhase' /\ DepsDoneBeforeRun'
  BY <1>1 DEF StateAgreesWithPhase, DepsDoneBeforeRun
<1>6. SkipsAreCascades'
  BY <1>1, <1>3, SameSkips
<1>7. ConcurrencyBound'
  BY <1>3 DEF ConcurrencyBound
<1>8. GreedyWhenNoneSettled'
  BY <1>1, <1>2, <1>3 DEF GreedyWhenNoneSettled
<1>9. EmptyMapOutsideTheRace'
  BY <1>3 DEF EmptyMapOutsideTheRace, DagComplete
<1> QED
  BY <1>4, <1>5, <1>6, <1>7, <1>8, <1>9

LEMMA StepIInv == IInv /\ [Next]_vars => IInv'
<1> SUFFICES ASSUME IInv, [Next]_vars PROVE IInv'
  OBVIOUS
<1>1. CASE Begin
  BY <1>1, BeginKeepsIInv
<1>2. ASSUME NEW t \in Subtasks, AttemptSucceeds(t) PROVE IInv'
  BY <1>2, AttemptKeepsIInv
<1>3. ASSUME NEW t \in Subtasks, NEW r \in BOOLEAN, AttemptFails(t, r) PROVE IInv'
  BY <1>3, AttemptKeepsIInv
<1>4. ASSUME NEW t \in Subtasks, OnResolved(t) PROVE IInv'
  BY <1>4, OnResolvedKeepsIInv
<1>5. ASSUME NEW t \in Subtasks, OnRejected(t) PROVE IInv'
  BY <1>5, OnRejectedKeepsIInv
<1>6. ASSUME NEW t \in Subtasks, Finally(t) PROVE IInv'
  BY <1>6, FinallyKeepsIInv
<1>7. CASE DagComplete \/ Shutdown \/ UNCHANGED vars
  BY <1>7, OtherStepsKeepIInv DEF Shutdown, vars
<1> QED
  BY <1>1, <1>2, <1>3, <1>4, <1>5, <1>6, <1>7 DEF Next, Terminated

(***************************************************************************)
(* IInv holds throughout every run of the scheduler.                       *)
(***************************************************************************)
THEOREM Invariance == Spec => []IInv
BY InitIInv, StepIInv, PTL DEF Spec
-----------------------------------------------------------------------------
(***************************************************************************)
(* No order of callbacks, retries and shutdown leads out of the types; in  *)
(* particular no subtask goes through more than MaxAttempts attempts.      *)
(***************************************************************************)
THEOREM TypeCorrect == Spec => []TypeOK
BY Invariance, PTL DEF IInv

(***************************************************************************)
(* A subtask that runDAG has launched, and one that is complete, has all   *)
(* its dependencies complete, for good.                                    *)
(***************************************************************************)
THEOREM DependenciesFirst == Spec => []DepsDoneBeforeRun
BY Invariance, PTL DEF IInv

(***************************************************************************)
(* tryLaunch never lets the Map outgrow opts.maxConcurrency, whichever     *)
(* .finally calls it.                                                      *)
(***************************************************************************)
THEOREM Bound == Spec => []ConcurrencyBound
BY Invariance, PTL DEF IInv

(***************************************************************************)
(* What is skipped is what failed and its cascades, in the resolver and in *)
(* the pipeline's skippedIndices alike.                                    *)
(***************************************************************************)
THEOREM ExactCascades == Spec => []SkipsAreCascades
BY Invariance, PTL DEF IInv

(***************************************************************************)
(* No wake-up is lost: a free slot beside ready work is always about to be *)
(* filled by a .finally that is due.                                       *)
(***************************************************************************)
THEOREM Greedy == Spec => []NoIdleSlot
<1>1. IInv => NoIdleSlot
  BY DEF IInv, GreedyWhenNoneSettled, NoIdleSlot
<1> QED
  BY <1>1, Invariance, PTL

-----------------------------------------------------------------------------
(***************************************************************************)
(* Why an empty Map means that the DAG is finished: take a pending subtask *)
(* that waits for no other pending one, which exists because the plan has  *)
(* no cycle.  It is not ready, so it waits for an index the plan does not  *)
(* have, or for a skipped subtask and then is skipped too.                 *)
(***************************************************************************)
LEMMA PendingIsBlocked ==
  ASSUME TypeOK, SkipsAreCascades, Ready(plan, state) = {}
  PROVE  \A t \in Subtasks : state[t] = "pending" => t \in Blocked(plan)
<1> DEFINE P == {t \in Subtasks : state[t] = "pending" /\ t \notin Blocked(plan)}
<1>1. SUFFICES ASSUME P # {} PROVE FALSE
  OBVIOUS
<1>2. PICK t \in P : plan[t] \cap P = {}
  <2>1. P \in SUBSET Subtasks
    OBVIOUS
  <2> HIDE DEF P
  <2> QED
    BY <1>1, <2>1, PlanType DEF Acyclic
<1>3. PICK i \in plan[t] : ~ IsComplete(state, i)
  BY DEF Ready
<1>4. \A j : plan[t] \cap (Downstream(plan, j) \cup {j}) # {} => t \in Downstream(plan, j)
  BY PlanType, DownstreamAbsorbs DEF AbsorbsDependents
<1>5. CASE i \in Strangers
  <2>1. t \in Downstream(plan, i)
    BY <1>4
  <2> QED
    BY <1>5, <2>1 DEF Blocked
<1>6. CASE i \in Subtasks /\ state[i] = "pending"
  <2>1. i \in Blocked(plan)
    BY <1>2, <1>6
  <2>2. PICK j \in Strangers : i \in Downstream(plan, j)
    BY <2>1 DEF Blocked
  <2>3. t \in Downstream(plan, j)
    BY <1>4, <2>2
  <2> QED
    BY <2>3 DEF Blocked
<1>7. CASE i \in Subtasks /\ state[i] = "skipped"
  <2>1. i \in Skipped
    BY <1>7 DEF Skipped
  <2>2. PICK f \in Failed : i \in Downstream(plan, f) \cup {f}
    BY <2>1 DEF SkipsAreCascades, Cascade
  <2>3. t \in Downstream(plan, f)
    BY <1>4, <2>2
  <2>4. t \in Skipped
    BY <2>2, <2>3 DEF SkipsAreCascades, Cascade
  <2> QED
    BY <2>4 DEF Skipped
<1>8. i \in Subtasks \cup Strangers
  BY PlanType DEF Plan
<1>9. i \in Subtasks => state[i] \in {"pending", "skipped"}
  BY <1>3 DEF IsComplete, TypeOK, ResolverState
<1> QED
  BY <1>5, <1>6, <1>7, <1>8, <1>9

(***************************************************************************)
(* runDAG leaves no subtask behind when it returns: the outcome is one     *)
(* that the rest of the pipeline counts on (ReturnsWhenSettled).           *)
(***************************************************************************)
THEOREM NothingLeftBehind == Spec => []ReturnsWhenSettled
<1>1. IInv => ReturnsWhenSettled
  <2> SUFFICES ASSUME IInv, dag = "done"
               PROVE  DagOutcome(plan, Complete, Failed, isShuttingDown \/ MaxConcurrency = 0)
    BY DEF ReturnsWhenSettled
  <2>1. Complete \cap Failed = {}
    BY DEF Complete, Failed, Skipped
  <2>2. \A t \in Complete \cup Failed : plan[t] \subseteq Complete
    <3>1. ASSUME NEW t \in Complete \cup Failed PROVE plan[t] \subseteq Complete
      <4>1. t \in Subtasks /\ (phase[t] # "idle" \/ state[t] = "complete")
        BY <3>1 DEF Complete, Failed, Skipped
      <4> QED
        BY <4>1 DEF IInv, DepsDoneBeforeRun, Complete, IsComplete
    <3> QED
      BY <3>1
  <2>3. ASSUME ~ isShuttingDown, MaxConcurrency # 0
        PROVE  Subtasks \ (Complete \cup Cascade(plan, Failed)) \subseteq Blocked(plan)
    <3>1. Running = {}
      BY DEF IInv, EmptyMapOutsideTheRace
    <3>2. Cardinality(Running) < MaxConcurrency
      BY <2>3, <3>1, FS_EmptySet, DagAssumption
    <3>3. Ready(plan, state) = {}
      BY <2>3, <3>1, <3>2 DEF IInv, GreedyWhenNoneSettled
    <3>4. \A t \in Subtasks : state[t] = "pending" => t \in Blocked(plan)
      BY <3>3, PendingIsBlocked DEF IInv
    <3>5. Cascade(plan, Failed) = Skipped
      BY DEF IInv, SkipsAreCascades
    <3>6. \A t \in Subtasks : state[t] \in ResolverState
      BY DEF IInv, TypeOK
    <3> QED
      BY <3>4, <3>5, <3>6 DEF Complete, Skipped, ResolverState
  <2> QED
    BY <2>1, <2>2, <2>3 DEF DagOutcome
<1> QED
  BY <1>1, Invariance, PTL

(***************************************************************************)
(* No outcome is ever replaced by another, although markComplete and       *)
(* markSkipped overwrite the state of a subtask without looking at it.     *)
(***************************************************************************)
OutcomeStep ==
  \A t \in Subtasks :
    /\ state[t] # "pending" => state'[t] = state[t]
    /\ state'[t] # state[t] => phase[t] \in {"idle", "resolved", "rejected"}

LEMMA OutcomeStepHolds == IInv /\ [Next]_vars => OutcomeStep
<1> SUFFICES ASSUME IInv, [Next]_vars PROVE OutcomeStep
  OBVIOUS
<1>1. CASE UNCHANGED state
  BY <1>1 DEF OutcomeStep
<1>2. ASSUME NEW t \in Subtasks, OnResolved(t) PROVE OutcomeStep
  BY <1>2 DEF OnResolved, OutcomeStep, IInv, TypeOK, StateAgreesWithPhase
<1>3. ASSUME NEW t \in Subtasks, OnRejected(t) PROVE OutcomeStep
  <2>1. phase[t] = "rejected" /\ state[t] = "pending"
    BY <1>3 DEF OnRejected, IInv, StateAgreesWithPhase
  <2>2. \A u \in Downstream(plan, t) : phase[u] = "idle" /\ state[u] # "complete"
    BY <2>1, CascadeHitsOnlyIdle DEF IInv
  <2>3. \A u \in Subtasks :
          state'[u] = IF u = t \/ u \in Downstream(plan, t) THEN "skipped" ELSE state[u]
    BY <1>3 DEF OnRejected, MarkSkipped
  <2>4. \A u \in Subtasks : state[u] \in ResolverState
    BY DEF IInv, TypeOK
  <2> QED
    BY <2>1, <2>2, <2>3, <2>4 DEF OutcomeStep, ResolverState
<1> QED
  BY <1>1, <1>2, <1>3
  DEF Next, Begin, AttemptSucceeds, AttemptFails, Finally, DagComplete, Shutdown, Terminated, vars

THEOREM OutcomesNeverChange == Spec => OutcomesAreFinal
<1>1. IInv /\ [Next]_vars => [OutcomeStep]_vars
  BY OutcomeStepHolds
<1> QED
  BY <1>1, Invariance, PTL DEF Spec, OutcomesAreFinal, OutcomeStep
-----------------------------------------------------------------------------
(***************************************************************************)
(* The scheduler implements the contract: a launch is a Start, a .then is  *)
(* a Finish, a .catch is a Fail, everything else changes no status.        *)
(***************************************************************************)
StatusMap == [t \in Subtasks |-> ContractStatus(t)]

\* The contract's status of a subtask, read off its state and its phase.
LEMMA StatusCases ==
  ASSUME TypeOK, StateAgreesWithPhase, NEW t \in Subtasks
  PROVE  /\ ContractStatus(t) = "done"    <=> state[t] = "complete"
         /\ ContractStatus(t) = "failed"  <=> t \in Failed
         /\ ContractStatus(t) = "skipped" <=> t \in Skipped \ Failed
         /\ ContractStatus(t) = "active"  <=>
              phase[t] \in {"executing", "resolved", "rejected"}
         /\ ContractStatus(t) = "waiting" <=> state[t] = "pending" /\ phase[t] = "idle"
         /\ ContractStatus(t) \in {"done", "failed", "skipped", "active", "waiting"}
<1>1. CASE state[t] = "complete"
  BY <1>1 DEF ContractStatus, StateAgreesWithPhase, Skipped, Failed
<1>2. CASE state[t] = "skipped"
  BY <1>2 DEF ContractStatus, StateAgreesWithPhase, Skipped, Failed
<1>3. CASE state[t] = "pending"
  BY <1>3 DEF ContractStatus, StateAgreesWithPhase, TypeOK, Phase, InMap, Running, Skipped, Failed
<1> QED
  BY <1>1, <1>2, <1>3 DEF TypeOK, ResolverState

LEMMA InitImplements == Init => C!ContractInit
<1> SUFFICES ASSUME Init PROVE C!ContractInit
  OBVIOUS
<1>1. IInv
  BY InitIInv
<1>2. \A t \in Subtasks : ContractStatus(t) = "waiting"
  BY <1>1, StatusCases DEF Init, IInv
<1> QED
  BY <1>2 DEF Init, C!ContractInit

\* Statuses stay when states do and no subtask leaves its part of the chain.
LEMMA SameStatus ==
  ASSUME TypeOK, StateAgreesWithPhase, TypeOK', StateAgreesWithPhase',
         UNCHANGED <<plan, state>>,
         \A t \in Subtasks :
           \/ phase'[t] = phase[t]
           \/ {phase[t], phase'[t]} \subseteq {"executing", "resolved", "rejected"}
           \/ {phase[t], phase'[t]} \subseteq {"settled", "retired"}
  PROVE  UNCHANGED C!contractVars
<1>1. \A t \in Subtasks : ContractStatus(t)' = ContractStatus(t)
  BY DEF ContractStatus, Running, InMap, Failed, Skipped, TypeOK, Phase, StateAgreesWithPhase
<1> QED
  BY <1>1 DEF C!contractVars

LEMMA FinishImplements ==
  ASSUME IInv, IInv', NEW t \in Subtasks, OnResolved(t)
  PROVE  C!Finish(t)
<1>1. /\ phase[t] = "resolved" /\ phase' = [phase EXCEPT ![t] = "settled"]
      /\ state' = [state EXCEPT ![t] = "complete"] /\ plan' = plan
  BY DEF OnResolved
<1>2. ContractStatus(t) = "active"
  BY <1>1, StatusCases DEF IInv
<1>3. ContractStatus(t)' = "done"
  BY <1>1 DEF ContractStatus, IInv, TypeOK
<1>4. \A u \in Subtasks : u # t => ContractStatus(u)' = ContractStatus(u)
  BY <1>1 DEF ContractStatus, Running, Failed, Skipped, IInv, TypeOK
<1> QED
  BY <1>1, <1>2, <1>3, <1>4 DEF C!Finish

LEMMA FailImplements ==
  ASSUME IInv, IInv', NEW t \in Subtasks, OnRejected(t)
  PROVE  C!Fail(t)
<1> DEFINE D == Downstream(plan, t)
<1>1. /\ phase[t] = "rejected" /\ phase' = [phase EXCEPT ![t] = "settled"]
      /\ state' = [u \in Subtasks |-> IF u = t \/ u \in D THEN "skipped" ELSE state[u]]
      /\ plan' = plan
  BY DEF OnRejected, MarkSkipped
<1>2. state[t] = "pending" /\ ContractStatus(t) = "active"
  BY <1>1, StatusCases DEF IInv, StateAgreesWithPhase
<1>3. \A u \in D : u \in Subtasks /\ phase[u] = "idle" /\ state[u] # "complete"
  BY <1>2, CascadeHitsOnlyIdle DEF IInv
<1> HIDE DEF D
<1>4. \A u \in D : ContractStatus(u) \in {"waiting", "skipped"}
  <2> SUFFICES ASSUME NEW u \in D PROVE ContractStatus(u) \in {"waiting", "skipped"}
    OBVIOUS
  <2>1. u \in Subtasks /\ phase[u] = "idle" /\ state[u] \in {"pending", "skipped"}
    BY <1>3 DEF IInv, TypeOK, ResolverState
  <2>2. u \notin Failed
    BY <2>1 DEF Failed
  <2> QED
    BY <2>1, <2>2, StatusCases DEF Skipped, IInv
<1>5. ContractStatus(t)' = "failed"
  BY <1>1 DEF ContractStatus, Failed, Skipped, IInv, TypeOK
<1>6. \A u \in D : u # t => ContractStatus(u)' = "skipped"
  BY <1>1, <1>3 DEF ContractStatus, Failed, Skipped, IInv, TypeOK
<1>7. \A u \in Subtasks : u # t /\ u \notin D => ContractStatus(u)' = ContractStatus(u)
  BY <1>1 DEF ContractStatus, Running, Failed, Skipped, IInv, TypeOK
<1>8. StatusMap' = [u \in Subtasks |->
                      CASE u = t -> "failed"
                        [] u # t /\ u \in D -> "skipped"
                        [] OTHER -> StatusMap[u]]
  BY <1>5, <1>6, <1>7 DEF StatusMap
<1>9. C!Downstream(plan, t) = D
  BY DEF C!Downstream, C!AbsorbsDependents, D, Downstream, AbsorbsDependents
<1> QED
  BY <1>1, <1>2, <1>3, <1>4, <1>8, <1>9 DEF C!Fail, StatusMap

\* The instance's own copy of Cardinality is Cardinality.
LEMMA SameCardinality == \A S : C!Cardinality(S) = Cardinality(S)
BY DEF C!Cardinality, Cardinality

\* A callback that ends in tryLaunch, for which t is retired or nothing is.
LEMMA LaunchImplements ==
  ASSUME IInv, IInv', NEW before \in [Subtasks -> Phase], NEW busy \in SUBSET Subtasks,
         \A t \in Subtasks :
            \/ before[t] = phase[t]
            \/ phase[t] = "settled" /\ before[t] = "retired",
         busy = {t \in Subtasks : before[t] \in InMap},
         Cardinality(busy) <= MaxConcurrency,
         TryLaunch(before, state, busy),
         UNCHANGED <<plan, state, skippedIndices, isShuttingDown>>
  PROVE  [C!ContractNext]_C!contractVars
<1>1. PICK L \in SUBSET (Ready(plan, state) \ busy) : Launched(before, busy, L)
  BY TryLaunchEffect DEF IInv
<1>2. \A t \in L : t \in Subtasks /\ state[t] = "pending" /\ before[t] \notin InMap
  BY <1>1 DEF Ready
<1>3. \A t \in L : phase[t] = "idle" /\ phase'[t] = "executing"
  BY <1>1, <1>2 DEF Launched, IInv, StateAgreesWithPhase, TypeOK, Phase, InMap
<1>4. \A t \in Subtasks \ L : phase'[t] = before[t]
  BY <1>1 DEF Launched
<1>5. CASE L = {}
  <2>1. \A t \in Subtasks : \/ phase'[t] = phase[t]
                            \/ {phase[t], phase'[t]} \subseteq {"settled", "retired"}
    BY <1>4, <1>5
  <2> QED
    BY <2>1, SameStatus DEF IInv
<1>6. CASE L # {}
  <2>1. \A t \in L : C!Startable(t)
    <3> SUFFICES ASSUME NEW t \in L PROVE C!Startable(t)
      OBVIOUS
    <3>1. t \in Subtasks /\ ContractStatus(t) = "waiting"
      BY <1>2, <1>3, StatusCases DEF IInv
    <3>2. ASSUME NEW i \in plan[t] PROVE i \in Subtasks /\ ContractStatus(i) = "done"
      <4>1. IsComplete(state, i)
        BY <1>1 DEF Ready
      <4> QED
        BY <4>1, StatusCases DEF IsComplete, IInv
    <3> QED
      BY <3>1, <3>2 DEF C!Startable, C!With
  <2>2. Cardinality(C!With("active") \cup L) <= MaxConcurrency
    <3> DEFINE A == C!With("active")
    <3>1. A \subseteq busy
      <4> SUFFICES ASSUME NEW t \in A PROVE t \in busy
        OBVIOUS
      <4>1. t \in Subtasks /\ ContractStatus(t) = "active"
        BY DEF C!With
      <4>2. phase[t] \in {"executing", "resolved", "rejected"}
        BY <4>1, StatusCases DEF IInv
      <4> QED
        BY <4>1, <4>2 DEF InMap
    <3>2. IsFiniteSet(busy \cup L) /\ Cardinality(busy \cup L) \in Nat
      BY <1>2, RunningFinite
    <3> HIDE DEF A
    <3>3. Cardinality(A \cup L) <= Cardinality(busy \cup L) /\ Cardinality(A \cup L) \in Nat
      <4>1. A \cup L \subseteq busy \cup L
        BY <3>1
      <4>2. A \cup L \in SUBSET Subtasks
        BY <1>2, <3>1
      <4> QED
        BY <3>2, <4>1, <4>2, FS_Subset, RunningFinite
    <3>4. Cardinality(busy \cup L) <= MaxConcurrency
      BY <1>1 DEF Launched, Bounded
    <3>5. Cardinality(A \cup L) <= MaxConcurrency
      BY <3>2, <3>3, <3>4, DagAssumption
    <3> QED
      BY <3>5 DEF A
  <2>3. \A t \in L : ContractStatus(t)' = "active"
    BY <1>2, <1>3, StatusCases DEF ContractStatus, Running, InMap
  <2>4. ASSUME NEW t \in Subtasks \ L PROVE ContractStatus(t)' = ContractStatus(t)
    <3>1. \/ phase'[t] = phase[t]
          \/ phase[t] = "settled" /\ phase'[t] = "retired"
      BY <1>4
    <3>2. state'[t] = state[t] /\ (phase[t] = "settled" => state[t] # "pending")
      BY DEF IInv, StateAgreesWithPhase
    <3> QED
      BY <3>1, <3>2 DEF ContractStatus, Running, Failed, Skipped, IInv, TypeOK, ResolverState
  <2>5. C!Start(L)
    <3>1. StatusMap' = [t \in Subtasks |-> IF t \in L THEN "active" ELSE StatusMap[t]]
      BY <2>3, <2>4 DEF StatusMap
    <3> QED
      BY <1>6, <2>1, <2>2, <3>1, SameCardinality DEF C!Start, StatusMap
  <2> QED
    BY <1>2, <2>5 DEF C!ContractNext
<1> QED
  BY <1>5, <1>6

LEMMA BeginImplements ==
  ASSUME IInv, IInv', Begin
  PROVE  [C!ContractNext]_C!contractVars
<1>1. PICK before : before = phase
  OBVIOUS
<1>2. {t \in Subtasks : before[t] \in InMap} = {}
  BY <1>1 DEF IInv, Begin, EmptyMapOutsideTheRace, Running
<1>3. before \in [Subtasks -> Phase] /\ Cardinality({}) <= MaxConcurrency
  BY <1>1, DagAssumption, FS_EmptySet DEF IInv, TypeOK
<1> QED
  BY <1>1, <1>2, <1>3, LaunchImplements DEF Begin

LEMMA FinallyImplements ==
  ASSUME IInv, IInv', NEW t \in Subtasks, Finally(t)
  PROVE  [C!ContractNext]_C!contractVars
<1>1. PICK before \in [Subtasks -> Phase], busy \in SUBSET Subtasks : FreesSlot(t, before, busy)
  BY FinallyFreesSlot
<1> QED
  BY <1>1, LaunchImplements DEF FreesSlot, Finally

LEMMA StepImplements ==
  IInv /\ IInv' /\ [Next]_vars => [C!ContractNext]_C!contractVars
<1> SUFFICES ASSUME IInv, IInv', [Next]_vars PROVE [C!ContractNext]_C!contractVars
  OBVIOUS
<1>1. CASE Begin
  BY <1>1, BeginImplements
<1>2. ASSUME NEW t \in Subtasks, NEW r \in BOOLEAN, AttemptSucceeds(t) \/ AttemptFails(t, r)
      PROVE  UNCHANGED C!contractVars
  BY <1>2, SameStatus DEF IInv, AttemptSucceeds, AttemptFails, TypeOK
<1>3. ASSUME NEW t \in Subtasks, OnResolved(t) PROVE C!ContractNext
  BY <1>3, FinishImplements DEF C!ContractNext
<1>4. ASSUME NEW t \in Subtasks, OnRejected(t) PROVE C!ContractNext
  BY <1>4, FailImplements DEF C!ContractNext
<1>5. ASSUME NEW t \in Subtasks, Finally(t) PROVE [C!ContractNext]_C!contractVars
  BY <1>5, FinallyImplements
<1>6. CASE DagComplete \/ Shutdown \/ UNCHANGED vars
  BY <1>6, SameStatus DEF IInv, DagComplete, Shutdown, vars
<1> QED
  BY <1>1, <1>2, <1>3, <1>4, <1>5, <1>6 DEF Next, Terminated

(***************************************************************************)
(* The callbacks, retries and cascades of runDAG implement what DagContract*)
(* promises.                                                               *)
(***************************************************************************)
THEOREM Implements == Spec => ImplementsContract
BY InitImplements, StepImplements, Invariance, PTL DEF Spec, ImplementsContract, C!Contract

-----------------------------------------------------------------------------
(***************************************************************************)
(* The lines of a screen: outcomes, which are printed to stay, lines that  *)
(* announce something, and those that only the zone shows.                 *)
(***************************************************************************)
Outcomes == [kind : Final, of : Subtasks]
Announcements == [kind : {"status"}, of : Nat] \cup [kind : {"stage"}, of : Ticking]
Passing == Announcements \cup [kind : {"running"}, of : Subtasks]
                         \cup [kind : {"blocked"}, of : SUBSET Subtasks]
Kept == Outcomes \cup Announcements
Lines == Outcomes \cup Passing

Display ==
  [isTTY : BOOLEAN, active : BOOLEAN, stageLabel : Ticking \cup {"none"}, zone : Nat,
   entries : [Subtasks -> EntryState], last : [Subtasks -> EntryState],
   printed : SUBSET Subtasks, screen : Seq(Lines)]

\* The lines that stay, and the zone.
Layout(d, a, z) ==
  /\ a \in Seq(Lines) /\ z \in Seq(Passing)
  /\ d.screen = a \o z /\ d.zone = Len(z)

\* The status lines on a screen are in the order in which they were sent.
StatusOrder(s, n) ==
  /\ \A i \in DOMAIN s : s[i].kind = "status" => s[i].of \in 1 .. n
  /\ \A i, j \in DOMAIN s :
       s[i].kind = "status" /\ s[j].kind = "status" /\ i < j => s[i].of < s[j].of

\* Each outcome among the entries e is shown once, and no other is.
Shows(a, e) ==
  \A t \in Subtasks, o \in Final : CountOf(a, {Line(o, t)}) = IF e[t] = o THEN 1 ELSE 0

LEMMA KindsOfLines ==
  /\ \A l \in Lines : l.kind \in Final <=> l \in Outcomes
  /\ \A l \in Kept : l.kind \in {"status", "stage"} <=> l \in Announcements
  /\ \A l \in Kept : l.kind \in Final \cup {"status", "stage"}
  /\ \A l \in Passing : l.kind \in {"status", "stage", "running", "blocked"}
  /\ Kept \subseteq Lines /\ Passing \subseteq Lines /\ Outcomes \subseteq Kept
  /\ Announcements \subseteq Kept
BY DEF Lines, Kept, Outcomes, Announcements, Passing, Final

LEMMA LineIs ==
  ASSUME NEW k, NEW o
  PROVE  /\ Line(k, o).kind = k /\ Line(k, o).of = o
         /\ \A k2, o2 : Line(k, o) = Line(k2, o2) <=> k = k2 /\ o = o2
BY DEF Line

LEMMA LinesOfEntries ==
  ASSUME NEW t \in Subtasks
  PROVE  /\ \A o \in Final : Line(o, t) \in Outcomes
         /\ Line("running", t) \in Passing
BY DEF Line, Outcomes, Passing

LEMMA LinesOfRun ==
  /\ \A n \in Nat : Line("status", n) \in Announcements
  /\ \A label \in Ticking : Line("stage", label) \in Announcements
  /\ \A S \in SUBSET Subtasks : Line("blocked", S) \in Passing
BY DEF Line, Announcements, Passing

LEMMA WiderSeq ==
  ASSUME NEW S, NEW T, S \subseteq T, NEW s \in Seq(S)
  PROVE  s \in Seq(T)
<1>1. \A i \in 1 .. Len(s) : s[i] \in T
  BY ElementOfSeq
<1>2. Len(s) \in Nat /\ s = [i \in 1 .. Len(s) |-> s[i]]
  BY LenProperties
<1> QED
  BY <1>1, <1>2, IsASeq

-----------------------------------------------------------------------------
(***************************************************************************)
(* What the orders and counts of a screen become when lines are added.     *)
(***************************************************************************)
LEMMA OrderOfPart ==
  ASSUME NEW a \in Seq(Lines), NEW z \in Seq(Lines), NEW n \in Nat, StatusOrder(a \o z, n)
  PROVE  StatusOrder(a, n)
<1>1. \A i \in DOMAIN a : i \in DOMAIN (a \o z) /\ (a \o z)[i] = a[i]
  BY ConcatSplits
<1>2. PICK c : c = a \o z
  OBVIOUS
<1> QED
  BY <1>1, <1>2 DEF StatusOrder

LEMMA OrderOfMore ==
  ASSUME NEW a \in Seq(Lines), NEW b \in Seq(Lines), NEW n \in Nat, StatusOrder(a, n),
         \A i \in DOMAIN b : b[i].kind # "status"
  PROVE  StatusOrder(a \o b, n)
<1>1. PICK c : c = a \o b
  OBVIOUS
<1>2. \A k \in DOMAIN c :
        \/ k \in DOMAIN a /\ c[k] = a[k]
        \/ k - Len(a) \in DOMAIN b /\ c[k] = b[k - Len(a)]
  BY <1>1, ConcatSplits
<1>3. \A k \in DOMAIN c : c[k].kind = "status" => k \in DOMAIN a /\ c[k] = a[k]
  BY <1>2
<1>4. StatusOrder(c, n)
  BY <1>3 DEF StatusOrder
<1> QED
  BY <1>1, <1>4

LEMMA OrderOfNext ==
  ASSUME NEW a \in Seq(Lines), NEW n \in Nat, StatusOrder(a, n)
  PROVE  StatusOrder(a \o <<Line("status", n + 1)>>, n + 1)
<1>1. PICK c : c = a \o <<Line("status", n + 1)>>
  OBVIOUS
<1>2. PICK l : l = Line("status", n + 1) /\ l \in Lines /\ l.of = n + 1
  BY LineIs, LinesOfRun, KindsOfLines
<1>3. <<l>> \in Seq(Lines) /\ DOMAIN <<l>> = {1} /\ <<l>>[1] = l
  BY <1>2
<1>4. \A k \in DOMAIN c :
        \/ k \in DOMAIN a /\ c[k] = a[k]
        \/ k = Len(a) + 1 /\ c[k] = l
  <2>1. \A k \in DOMAIN c :
        \/ k \in DOMAIN a /\ c[k] = a[k]
        \/ k - Len(a) \in DOMAIN <<l>> /\ c[k] = <<l>>[k - Len(a)]
    BY <1>1, <1>2, <1>3, ConcatSplits
  <2>2. Len(a) \in Nat /\ \A k \in DOMAIN c : k \in Nat
    <3>1. c \in Seq(Lines)
      BY <1>1, <1>2, <1>3, ConcatSplits
    <3> QED
      BY <3>1, ElementsAre
  <2> QED
    BY <1>3, <2>1, <2>2
<1>5. \A k \in DOMAIN a : k \in Nat /\ k < Len(a) + 1
  BY ElementsAre
<1>6. \A k \in DOMAIN c : c[k].kind = "status" => c[k].of \in 1 .. n + 1
  BY <1>2, <1>4 DEF StatusOrder
<1>7. ASSUME NEW i \in DOMAIN c, NEW j \in DOMAIN c,
             c[i].kind = "status", c[j].kind = "status", i < j
      PROVE  c[i].of < c[j].of
  <2>0. Len(a) \in Nat
    BY ElementsAre
  <2>1. i \in DOMAIN a /\ c[i] = a[i]
    BY <1>4, <1>5, <1>7, <2>0
  <2>2. c[i].of \in 1 .. n
    BY <1>7, <2>1 DEF StatusOrder
  <2>3. CASE j \in DOMAIN a /\ c[j] = a[j]
    BY <1>7, <2>1, <2>3 DEF StatusOrder
  <2>4. CASE c[j] = l
    BY <1>2, <2>2, <2>4
  <2> QED
    BY <1>4, <2>3, <2>4
<1>8. StatusOrder(c, n + 1)
  BY <1>6, <1>7 DEF StatusOrder
<1> QED
  BY <1>1, <1>8

\* Lines that are no outcomes change nothing about the outcomes shown.
LEMMA ShowsStill ==
  ASSUME NEW a \in Seq(Lines), NEW b \in Seq(Passing), NEW e, Shows(a, e)
  PROVE  a \o b \in Seq(Lines) /\ Shows(a \o b, e)
<1>1. b \in Seq(Lines)
  BY WiderSeq, KindsOfLines
<1>2. ASSUME NEW t \in Subtasks, NEW o \in Final
      PROVE  CountOf(a \o b, {Line(o, t)}) = CountOf(a, {Line(o, t)})
  <2>1. \A i \in DOMAIN b : b[i] \notin {Line(o, t)}
    <3>1. \A i \in DOMAIN b : b[i].kind \in {"status", "stage", "running", "blocked"}
      BY ElementsAre, ElementOfSeq, KindsOfLines
    <3>2. Line(o, t).kind \in Final
      BY LineIs
    <3> QED
      BY <3>1, <3>2 DEF Final
  <2>2. CountOf(b, {Line(o, t)}) = 0
    BY <1>1, <2>1, CountNone
  <2> QED
    BY <1>1, <2>2, CountConcat, PositionsFinite
<1>3. a \o b \in Seq(Lines)
  BY <1>1, ConcatSplits
<1> QED
  BY <1>2, <1>3 DEF Shows
-----------------------------------------------------------------------------
(***************************************************************************)
(* The lines of entries.                                                   *)
(***************************************************************************)
LEMMA SortedIs ==
  ASSUME NEW S \in SUBSET Subtasks
  PROVE  /\ IsFiniteSet(S) /\ Cardinality(S) \in Nat
         /\ Sorted(S) \in [1 .. Cardinality(S) -> S]
         /\ \A i, j \in 1 .. Cardinality(S) : Sorted(S)[i] = Sorted(S)[j] => i = j
         /\ \A t \in S : \E i \in 1 .. Cardinality(S) : Sorted(S)[i] = t
<1>1. IsFiniteSet(S) /\ S \in SUBSET Nat /\ Cardinality(S) \in Nat
  BY SubtasksAssumption, FS_Subset, FS_CardinalityType
<1>2. PICK f : Increases(f, S)
  BY <1>1, IncreasingExists
<1>3. Increases(Sorted(S), S)
  BY <1>2 DEF Increases, Sorted
<1>4. Sorted(S) \in SetToSeqs(S)
  BY <1>1, <1>3, IncreasingIsOrder
<1>5. Sorted(S) \in Seq(S) /\ ToSet(Sorted(S)) = S /\ IsInjective(Sorted(S))
  BY <1>1, <1>4, OrderIs
<1>6. Len(Sorted(S)) = Cardinality(S)
  BY <1>1, <1>3 DEF Increases
<1>7. \A t \in S : \E i \in 1 .. Cardinality(S) : Sorted(S)[i] = t
  BY <1>5, <1>6, ElementsAre
<1>8. \A i, j \in 1 .. Cardinality(S) : Sorted(S)[i] = Sorted(S)[j] => i = j
  BY <1>5, <1>6, ElementsAre
<1> QED
  BY <1>1, <1>3, <1>7, <1>8 DEF Increases

LEMMA EntryLinesAre ==
  ASSUME NEW d, NEW S \in SUBSET Subtasks, NEW V, \A t \in S : Line(d.entries[t], t) \in V
  PROVE  /\ EntryLines(d, S) \in Seq(V)
         /\ \A i \in DOMAIN EntryLines(d, S) :
              \E t \in S : EntryLines(d, S)[i] = Line(d.entries[t], t)
         /\ \A t \in S :
              \E i \in DOMAIN EntryLines(d, S) : EntryLines(d, S)[i] = Line(d.entries[t], t)
         /\ \A t \in Subtasks, o \in EntryState :
              CountOf(EntryLines(d, S), {Line(o, t)}) = IF t \in S /\ d.entries[t] = o THEN 1 ELSE 0
<1> DEFINE L == EntryLines(d, S)
           N == Cardinality(S)
           q == Sorted(S)
<1>1. /\ N \in Nat /\ q \in [1 .. N -> S]
      /\ \A i, j \in 1 .. N : q[i] = q[j] => i = j
      /\ \A t \in S : \E i \in 1 .. N : q[i] = t
  BY SortedIs
<1>2. L = [i \in 1 .. N |-> Line(d.entries[q[i]], q[i])]
  BY DEF EntryLines
<1> HIDE DEF L, N, q
<1>3. DOMAIN L = 1 .. N /\ \A i \in 1 .. N : L[i] = Line(d.entries[q[i]], q[i]) /\ q[i] \in S
  BY <1>1, <1>2
<1>4. L \in Seq(V)
  <2>1. \A i \in 1 .. N : Line(d.entries[q[i]], q[i]) \in V
    BY <1>1
  <2> QED
    BY <1>1, <1>2, <2>1, IsASeq
<1>5. \A i \in DOMAIN L : \E t \in S : L[i] = Line(d.entries[t], t)
  BY <1>3
<1>6. \A t \in S : \E i \in DOMAIN L : L[i] = Line(d.entries[t], t)
  BY <1>1, <1>3
<1>7. ASSUME NEW t \in Subtasks, NEW o \in EntryState
      PROVE  CountOf(L, {Line(o, t)}) = IF t \in S /\ d.entries[t] = o THEN 1 ELSE 0
  <2>1. CASE t \in S /\ d.entries[t] = o
    <3>1. PICK k \in 1 .. N : q[k] = t
      BY <1>1, <2>1
    <3>2. \A i \in DOMAIN L : L[i] = Line(o, t) <=> i = k
      BY <1>1, <1>3, <2>1, <3>1, LineIs
    <3>3. PICK x : x = Line(o, t)
      OBVIOUS
    <3>4. k \in DOMAIN L /\ \A i \in DOMAIN L : L[i] = x <=> i = k
      BY <1>3, <3>2, <3>3
    <3>5. CountOf(L, {x}) = 1
      BY <1>4, <3>4, CountUnique
    <3> QED
      BY <2>1, <3>3, <3>5
  <2>2. CASE ~ (t \in S /\ d.entries[t] = o)
    <3>1. \A i \in DOMAIN L : L[i] \notin {Line(o, t)}
      BY <1>3, <2>2, LineIs
    <3>2. CountOf(L, {Line(o, t)}) = 0
      BY <1>4, <3>1, CountNone
    <3> QED
      BY <2>2, <3>2
  <2> QED
    BY <2>1, <2>2
<1> QED
  BY <1>4, <1>5, <1>6, <1>7 DEF L

\* The zone: the subtasks that run, and the list of those that are blocked.
LEMMA ZoneLinesAre ==
  ASSUME NEW d \in Display
  PROVE  /\ WaitingLine(d) \in Seq(Passing)
         /\ \A i \in DOMAIN WaitingLine(d) : WaitingLine(d)[i] = Line("blocked", BlockedEntries(d))
         /\ ZoneLines(d) \in Seq(Passing)
         /\ \A i \in DOMAIN ZoneLines(d) :
              \/ ZoneLines(d)[i] = Line("blocked", BlockedEntries(d))
              \/ \E t \in Subtasks : /\ d.entries[t] = "running"
                                     /\ ZoneLines(d)[i] = Line("running", t)
         /\ \A t \in Subtasks : d.entries[t] = "running" =>
              \E i \in DOMAIN ZoneLines(d) : ZoneLines(d)[i] = Line("running", t)
<1> DEFINE S == InState(d, {"running"})
           B == BlockedEntries(d)
           E == EntryLines(d, S)
           W == WaitingLine(d)
<1>1. S \in SUBSET Subtasks /\ \A t \in Subtasks : t \in S <=> d.entries[t] = "running"
  BY DEF InState
<1>2. W = (IF B = {} THEN <<>> ELSE <<Line("blocked", B)>>) /\ Line("blocked", B) \in Passing
  BY LinesOfRun DEF BlockedEntries, WaitingLine
<1>3. ZoneLines(d) = E \o W
  BY DEF ZoneLines
<1> HIDE DEF S, B
<1>4. \A t \in S : Line(d.entries[t], t) \in Passing
  BY <1>1, LinesOfEntries
<1>5. /\ E \in Seq(Passing)
      /\ \A i \in DOMAIN E : \E t \in S : E[i] = Line(d.entries[t], t)
      /\ \A t \in S : \E i \in DOMAIN E : E[i] = Line(d.entries[t], t)
  BY <1>1, <1>4, EntryLinesAre
<1> HIDE DEF E, W
<1>6. W \in Seq(Passing) /\ \A i \in DOMAIN W : W[i] = Line("blocked", B)
  BY <1>2
<1>7. E \o W \in Seq(Passing)
  BY <1>5, <1>6, ConcatSplits
<1>8. ASSUME NEW k \in DOMAIN (E \o W)
      PROVE  \/ (E \o W)[k] = Line("blocked", B)
             \/ \E t \in Subtasks : d.entries[t] = "running" /\ (E \o W)[k] = Line("running", t)
  <2>1. CASE k \in DOMAIN E /\ (E \o W)[k] = E[k]
    BY <1>1, <1>5, <2>1
  <2>2. CASE k - Len(E) \in DOMAIN W /\ (E \o W)[k] = W[k - Len(E)]
    BY <1>6, <2>2
  <2> QED
    BY <1>5, <1>6, <2>1, <2>2, ConcatSplits
<1>9. ASSUME NEW t \in Subtasks, d.entries[t] = "running"
      PROVE  \E i \in DOMAIN (E \o W) : (E \o W)[i] = Line("running", t)
  <2>1. PICK i \in DOMAIN E : E[i] = Line("running", t)
    BY <1>1, <1>5, <1>9
  <2>2. i \in DOMAIN (E \o W) /\ (E \o W)[i] = E[i]
    BY <1>5, <1>6, ConcatSplits
  <2> QED
    BY <2>1, <2>2
<1> QED
  BY <1>3, <1>6, <1>7, <1>8, <1>9 DEF B, W

-----------------------------------------------------------------------------
(***************************************************************************)
(* The methods of the display, seen as what they write.                    *)
(***************************************************************************)
With(d, s, k, p, q) ==
  [d EXCEPT !.screen = s, !.zone = k, !.printed = p, !.last = q]

SameRun(f, d) ==
  /\ f.isTTY = d.isTTY /\ f.active = d.active
  /\ f.stageLabel = d.stageLabel /\ f.entries = d.entries

LEMMA FieldsOfDisplay ==
  ASSUME NEW d \in Display
  PROVE  /\ d.isTTY \in BOOLEAN /\ d.active \in BOOLEAN
         /\ d.stageLabel \in Ticking \cup {"none"} /\ d.zone \in Nat
         /\ d.entries \in [Subtasks -> EntryState] /\ d.last \in [Subtasks -> EntryState]
         /\ d.printed \in SUBSET Subtasks /\ d.screen \in Seq(Lines)
BY DEF Display

LEMMA WithIs ==
  ASSUME NEW d \in Display, NEW s \in Seq(Lines), NEW k \in Nat,
         NEW p \in SUBSET Subtasks, NEW q \in [Subtasks -> EntryState]
  PROVE  /\ With(d, s, k, p, q) \in Display
         /\ With(d, s, k, p, q).screen = s /\ With(d, s, k, p, q).zone = k
         /\ With(d, s, k, p, q).printed = p /\ With(d, s, k, p, q).last = q
         /\ SameRun(With(d, s, k, p, q), d)
BY DEF With, Display, SameRun

LEMMA SameEntries ==
  ASSUME NEW d, NEW f, f.entries = d.entries
  PROVE  /\ \A S : InState(f, S) = InState(d, S) /\ EntryLines(f, S) = EntryLines(d, S)
         /\ BlockedEntries(f) = BlockedEntries(d) /\ WaitingLine(f) = WaitingLine(d)
         /\ ZoneLines(f) = ZoneLines(d)
<1>1. \A S : InState(f, S) = InState(d, S) /\ EntryLines(f, S) = EntryLines(d, S)
  BY DEF InState, EntryLines
<1>2. BlockedEntries(f) = BlockedEntries(d)
  BY DEF BlockedEntries
<1>3. WaitingLine(f) = WaitingLine(d)
  BY <1>2 DEF WaitingLine
<1> QED
  BY <1>1, <1>2, <1>3 DEF ZoneLines

(***************************************************************************)
(* What holds of a display between two writes: the entries e are those     *)
(* whose outcomes it has shown, and n status lines were sent.              *)
(***************************************************************************)
Remembers(d, e) ==
  IF d.isTTY THEN d.printed = {t \in Subtasks : e[t] \in Final}
             ELSE d.last = e /\ d.zone = 0

Base(d, a, z, n, e) ==
  /\ d \in Display /\ Layout(d, a, z)
  /\ StatusOrder(d.screen, n)
  /\ Remembers(d, e) /\ Shows(a, e)
  /\ d.isTTY => a \in Seq(Kept) /\ CountOf(a, Announcements) = n

LEMMA EraseIs ==
  ASSUME NEW d \in Display, NEW a, NEW z, Layout(d, a, z)
  PROVE  EraseZone(d) = With(d, a, 0, d.printed, d.last)
<1>1. a \in Seq(Lines) /\ z \in Seq(Lines) /\ d.screen = a \o z /\ d.zone = Len(z)
  BY WiderSeq, KindsOfLines DEF Layout
<1>2. SubSeq(d.screen, 1, Len(d.screen) - d.zone) = a
  BY <1>1, PartsOfConcat
<1> QED
  BY <1>2 DEF EraseZone, With, Display

LEMMA EmptyZone ==
  ASSUME NEW a \in Seq(Lines)
  PROVE  a \o <<>> = a /\ <<>> \in Seq(Passing) /\ Len(<<>>) = 0
BY ConcatEmptySeq, EmptySeq

LEMMA EraseBase ==
  ASSUME NEW d, NEW a, NEW z, NEW n \in Nat, NEW e, Base(d, a, z, n, e), d.isTTY
  PROVE  Base(EraseZone(d), a, <<>>, n, e) /\ SameRun(EraseZone(d), d)
<1> DEFINE f == EraseZone(d)
<1>1. d \in Display /\ a \in Seq(Lines) /\ z \in Seq(Lines) /\ d.screen = a \o z
  BY WiderSeq, KindsOfLines DEF Base, Layout
<1>2. f = With(d, a, 0, d.printed, d.last)
  BY EraseIs DEF Base
<1> HIDE DEF f
<1>3. /\ f \in Display /\ f.screen = a /\ f.zone = 0 /\ f.printed = d.printed
      /\ SameRun(f, d)
  BY <1>1, <1>2, WithIs, FieldsOfDisplay
<1>4. Layout(f, a, <<>>)
  BY <1>1, <1>3, EmptyZone DEF Layout
<1>5. StatusOrder(a, n)
  BY <1>1, OrderOfPart DEF Base
<1> QED
  BY <1>3, <1>4, <1>5 DEF Base, Remembers, SameRun, f

\* A zone is written below what stays.
LEMMA ZoneBase ==
  ASSUME NEW d, NEW a, NEW n \in Nat, NEW e, Base(d, a, <<>>, n, e), d.isTTY,
         NEW z \in Seq(Passing), \A i \in DOMAIN z : z[i].kind # "status"
  PROVE  LET f == With(d, d.screen \o z, Len(z), d.printed, d.last)
         IN  Base(f, a, z, n, e) /\ SameRun(f, d)
<1> DEFINE f == With(d, d.screen \o z, Len(z), d.printed, d.last)
<1>1. d \in Display /\ a \in Seq(Lines) /\ d.screen = a
  BY EmptyZone DEF Base, Layout
<1>2. z \in Seq(Lines) /\ a \o z \in Seq(Lines) /\ Len(z) \in Nat
  BY <1>1, WiderSeq, KindsOfLines, ConcatSplits, ElementsAre
<1>3. /\ f \in Display /\ f.screen = a \o z /\ f.zone = Len(z) /\ f.printed = d.printed
      /\ SameRun(f, d)
  <2>1. PICK s \in Seq(Lines) : s = d.screen \o z /\ s = a \o z
    BY <1>1, <1>2
  <2>2. PICK k \in Nat : k = Len(z)
    BY <1>2
  <2>3. d.printed \in SUBSET Subtasks /\ d.last \in [Subtasks -> EntryState]
    BY <1>1, FieldsOfDisplay
  <2>4. f = With(d, s, k, d.printed, d.last)
    BY <2>1, <2>2
  <2>5. PICK g : g = With(d, s, k, d.printed, d.last)
    OBVIOUS
  <2>6. /\ g \in Display /\ g.screen = s /\ g.zone = k /\ g.printed = d.printed
        /\ SameRun(g, d)
    BY <1>1, <2>3, <2>5, WithIs
  <2> QED
    BY <2>1, <2>2, <2>4, <2>5, <2>6
<1> HIDE DEF f
<1>4. StatusOrder(a \o z, n)
  BY <1>1, <1>2, OrderOfMore DEF Base
<1>5. Layout(f, a, z)
  BY <1>1, <1>3 DEF Layout
<1>6. Base(f, a, z, n, e) /\ SameRun(f, d)
  BY <1>3, <1>4, <1>5 DEF Base, Remembers, SameRun
<1> QED
  BY <1>6 DEF f

LEMMA WriteZoneIs ==
  ASSUME NEW d, NEW a, NEW z, NEW n \in Nat, NEW e, Base(d, a, z, n, e), d.isTTY
  PROVE  LET f == WriteZone(EraseZone(d))
         IN  Base(f, a, ZoneLines(d), n, e) /\ SameRun(f, d)
<1> DEFINE g == EraseZone(d)
<1>1. Base(g, a, <<>>, n, e) /\ SameRun(g, d)
  BY EraseBase
<1> HIDE DEF g
<1>2. ZoneLines(g) = ZoneLines(d) /\ g.isTTY /\ g \in Display
  BY <1>1, SameEntries DEF SameRun, Base
<1>3. ZoneLines(g) \in Seq(Passing) /\ \A i \in DOMAIN ZoneLines(g) : ZoneLines(g)[i].kind # "status"
  BY <1>2, ZoneLinesAre, LineIs
<1>4. WriteZone(g) = With(g, g.screen \o ZoneLines(g), Len(ZoneLines(g)), g.printed, g.last)
  BY <1>2 DEF WriteZone, Write, With, Display
<1>5. /\ Base(WriteZone(g), a, ZoneLines(g), n, e)
      /\ SameRun(WriteZone(g), g)
  BY <1>1, <1>2, <1>3, <1>4, ZoneBase
<1> QED
  BY <1>1, <1>2, <1>5 DEF SameRun, g

-----------------------------------------------------------------------------
(***************************************************************************)
(* A rendering: the entries may have changed since the last one, but for   *)
(* the outcomes among them.                                                *)
(***************************************************************************)
LEMMA PrintOnceIs ==
  ASSUME NEW d, NEW a, NEW n \in Nat, NEW e, Base(d, a, <<>>, n, e), d.isTTY,
         \A t \in Subtasks : e[t] \in Final => d.entries[t] = e[t],
         NEW S, Final \subseteq S, \A t \in Subtasks : d.entries[t] \in S => d.entries[t] \in Final
  PROVE  \E b \in Seq(Lines) :
           Base(PrintOnce(d, S), b, <<>>, n, d.entries) /\ SameRun(PrintOnce(d, S), d)
<1> DEFINE f == PrintOnce(d, S)
           new == InState(d, S) \ d.printed
           E == EntryLines(d, new)
           b == a \o E
<1>1. /\ d \in Display /\ a \in Seq(Lines) /\ a \in Seq(Kept) /\ d.screen = a
      /\ d.printed = {t \in Subtasks : e[t] \in Final}
  BY EmptyZone DEF Base, Layout, Remembers
<1>2. \A t \in Subtasks : t \in new <=> d.entries[t] \in Final /\ e[t] \notin Final
  BY <1>1 DEF InState
<1>3. new \in SUBSET Subtasks
  BY DEF InState
<1>4. f = With(d, b, d.zone, d.printed \cup new, d.last)
  BY <1>1 DEF PrintOnce, Write, With, Display
<1> HIDE DEF f, new
<1>5. \A t \in new : Line(d.entries[t], t) \in Outcomes
  BY <1>2, <1>3, LinesOfEntries
<1>6. /\ E \in Seq(Outcomes)
      /\ \A t \in Subtasks, o \in EntryState :
           CountOf(E, {Line(o, t)}) = IF t \in new /\ d.entries[t] = o THEN 1 ELSE 0
  BY <1>3, <1>5, EntryLinesAre
<1> HIDE DEF E
<1>7. E \in Seq(Lines) /\ E \in Seq(Kept) /\ b \in Seq(Lines) /\ b \in Seq(Kept)
  <2>1. E \in Seq(Lines) /\ E \in Seq(Kept)
    BY <1>6, WiderSeq, KindsOfLines DEF Lines
  <2> QED
    BY <1>1, <2>1, ConcatSplits
<1>8. CountOf(b, Announcements) = n
  <2>1. \A i \in DOMAIN E : E[i] \notin Announcements
    <3>1. \A l \in Outcomes : l \notin Announcements
      BY DEF Outcomes, Announcements, Final
    <3> QED
      BY <1>6, <3>1, ElementsAre, ElementOfSeq
  <2>2. CountOf(E, Announcements) = 0
    BY <1>6, <2>1, CountNone
  <2>3. CountOf(b, Announcements) = CountOf(a, Announcements) + CountOf(E, Announcements)
    BY <1>1, <1>7, CountConcat
  <2> QED
    BY <2>2, <2>3 DEF Base
<1>9. Shows(b, d.entries)
  <2> SUFFICES ASSUME NEW t \in Subtasks, NEW o \in Final
               PROVE  CountOf(b, {Line(o, t)}) = IF d.entries[t] = o THEN 1 ELSE 0
    BY DEF Shows
  <2>1. CountOf(b, {Line(o, t)}) = CountOf(a, {Line(o, t)}) + CountOf(E, {Line(o, t)})
    BY <1>1, <1>7, CountConcat
  <2>2. CountOf(a, {Line(o, t)}) = IF e[t] = o THEN 1 ELSE 0
    BY DEF Base, Shows
  <2>3. CountOf(E, {Line(o, t)}) = IF t \in new /\ d.entries[t] = o THEN 1 ELSE 0
    BY <1>6 DEF EntryState, Final
  <2> QED
    BY <1>2, <2>1, <2>2, <2>3
<1>10. StatusOrder(b, n)
  <2>1. StatusOrder(a, n)
    BY <1>1 DEF Base
  <2>2. \A i \in DOMAIN E : E[i].kind # "status"
    <3>1. \A l \in Outcomes : l.kind # "status"
      BY DEF Outcomes, Final
    <3> QED
      BY <1>6, <3>1, ElementsAre, ElementOfSeq
  <2> QED
    BY <1>1, <1>7, <2>1, <2>2, OrderOfMore
<1> HIDE DEF b
<1>11. /\ f \in Display /\ f.screen = b /\ f.zone = d.zone /\ f.printed = d.printed \cup new
       /\ SameRun(f, d)
  BY <1>1, <1>3, <1>4, <1>7, WithIs, FieldsOfDisplay
<1>12. Layout(f, b, <<>>)
  BY <1>7, <1>11, EmptyZone DEF Layout, Base
<1>13. Remembers(f, d.entries)
  <2>1. f.printed = {t \in Subtasks : d.entries[t] \in Final}
    BY <1>1, <1>2, <1>3, <1>11
  <2> QED
    BY <1>11, <2>1 DEF Remembers, SameRun
<1>14. Base(f, b, <<>>, n, d.entries)
  BY <1>7, <1>8, <1>9, <1>10, <1>11, <1>12, <1>13 DEF Base
<1> QED
  BY <1>7, <1>11, <1>14 DEF f

LEMMA RenderTTYIs ==
  ASSUME NEW d, NEW a, NEW z, NEW n \in Nat, NEW e, Base(d, a, z, n, e), d.isTTY,
         \A t \in Subtasks : e[t] \in Final => d.entries[t] = e[t]
  PROVE  \E b \in Seq(Lines) :
           /\ Base(RenderTTY(d), b, ZoneLines(d), n, d.entries)
           /\ SameRun(RenderTTY(d), d)
<1> DEFINE g == EraseZone(d)
           h == PrintOnce(g, Final)
<1>1. Base(g, a, <<>>, n, e) /\ SameRun(g, d)
  BY EraseBase
<1> HIDE DEF g
<1>2. g.isTTY /\ g.entries = d.entries
  BY <1>1 DEF SameRun
<1>3. PICK b \in Seq(Lines) : Base(h, b, <<>>, n, d.entries) /\ SameRun(h, g)
  BY <1>1, <1>2, PrintOnceIs
<1> HIDE DEF h
<1>4. SameRun(h, d) /\ h.isTTY /\ h \in Display /\ ZoneLines(h) = ZoneLines(d)
  BY <1>1, <1>2, <1>3, SameEntries DEF SameRun, Base
<1>5. ZoneLines(h) \in Seq(Passing) /\ \A i \in DOMAIN ZoneLines(h) : ZoneLines(h)[i].kind # "status"
  BY <1>4, ZoneLinesAre, LineIs
<1>6. WriteZone(h) = With(h, h.screen \o ZoneLines(h), Len(ZoneLines(h)), h.printed, h.last)
  BY <1>4 DEF WriteZone, Write, With, Display
<1>7. /\ Base(WriteZone(h), b, ZoneLines(h), n, d.entries)
      /\ SameRun(WriteZone(h), h)
  BY <1>3, <1>4, <1>5, <1>6, ZoneBase
<1>8. RenderTTY(d) = WriteZone(h)
  BY DEF RenderTTY, g, h
<1> QED
  BY <1>4, <1>7, <1>8 DEF SameRun

\* Without a terminal everything is appended.
LEMMA AppendBase ==
  ASSUME NEW d, NEW a, NEW z, NEW n \in Nat, NEW e, Base(d, a, z, n, e), ~ d.isTTY
  PROVE  z = <<>> /\ d.screen = a /\ d.zone = 0 /\ d.last = e /\ StatusOrder(a, n)
<1>1. d.zone = 0 /\ d.last = e /\ Len(z) = 0 /\ z \in Seq(Passing) /\ a \in Seq(Lines)
  BY DEF Base, Remembers, Layout
<1>2. z = <<>>
  BY <1>1, EmptySeq
<1>3. d.screen = a
  BY <1>1, <1>2, EmptyZone DEF Base, Layout
<1> QED
  BY <1>1, <1>2, <1>3 DEF Base

LEMMA RenderNonTTYIs ==
  ASSUME NEW d, NEW a, NEW z, NEW n \in Nat, NEW e, Base(d, a, z, n, e), ~ d.isTTY,
         e \in [Subtasks -> EntryState],
         \A t \in Subtasks : e[t] \in Final => d.entries[t] = e[t]
  PROVE  \E b \in Seq(Lines) :
           /\ Base(RenderNonTTY(d), b, <<>>, n, d.entries)
           /\ SameRun(RenderNonTTY(d), d)
<1> DEFINE f == RenderNonTTY(d)
           changed == {t \in InState(d, Begun) : d.entries[t] # d.last[t]}
           E == EntryLines(d, changed)
           W == WaitingLine(d)
           b == a \o (E \o W)
<1>1. /\ d \in Display /\ a \in Seq(Lines) /\ d.screen = a /\ d.zone = 0 /\ d.last = e
      /\ StatusOrder(a, n) /\ d.entries \in [Subtasks -> EntryState]
  BY AppendBase, FieldsOfDisplay DEF Base, Layout
<1>2. \A t \in Subtasks : t \in changed <=> d.entries[t] \in Begun /\ d.entries[t] # e[t]
  BY <1>1 DEF InState
<1>3. changed \in SUBSET Subtasks
  BY DEF InState
<1>4. f = With(d, b, d.zone, d.printed, d.entries)
  BY <1>1 DEF RenderNonTTY, Write, With, Display
<1> HIDE DEF f, changed
<1>5. \A t \in changed : Line(d.entries[t], t) \in Lines
  BY <1>2, <1>3, LinesOfEntries DEF Lines, Begun
<1>6. /\ E \in Seq(Lines)
      /\ \A i \in DOMAIN E : \E t \in changed : E[i] = Line(d.entries[t], t)
      /\ \A t \in Subtasks, o \in EntryState :
           CountOf(E, {Line(o, t)}) = IF t \in changed /\ d.entries[t] = o THEN 1 ELSE 0
  BY <1>3, <1>5, EntryLinesAre
<1>7. /\ W \in Seq(Passing)
      /\ \A i \in DOMAIN W : W[i] = Line("blocked", BlockedEntries(d))
  BY <1>1, ZoneLinesAre
<1> HIDE DEF E, W
<1>8. W \in Seq(Lines) /\ a \o E \in Seq(Lines) /\ b \in Seq(Lines) /\ b = (a \o E) \o W
  <2>1. W \in Seq(Lines)
    BY <1>7, WiderSeq, KindsOfLines
  <2>2. a \o E \in Seq(Lines) /\ E \o W \in Seq(Lines)
    BY <1>1, <1>6, <2>1, ConcatSplits
  <2>3. b \in Seq(Lines)
    BY <1>1, <2>2, ConcatSplits
  <2>4. b = (a \o E) \o W
    BY <1>1, <1>6, <2>1, ConcatAssociative
  <2> QED
    BY <2>1, <2>2, <2>3, <2>4
<1>9. Shows(a \o E, d.entries)
  <2> SUFFICES ASSUME NEW t \in Subtasks, NEW o \in Final
               PROVE  CountOf(a \o E, {Line(o, t)}) = IF d.entries[t] = o THEN 1 ELSE 0
    BY DEF Shows
  <2>1. CountOf(a \o E, {Line(o, t)}) = CountOf(a, {Line(o, t)}) + CountOf(E, {Line(o, t)})
    BY <1>1, <1>6, CountConcat
  <2>2. CountOf(a, {Line(o, t)}) = IF e[t] = o THEN 1 ELSE 0
    BY DEF Base, Shows
  <2>3. CountOf(E, {Line(o, t)}) = IF t \in changed /\ d.entries[t] = o THEN 1 ELSE 0
    BY <1>6 DEF EntryState, Final
  <2>4. o \in Begun
    BY DEF Begun
  <2> QED
    BY <1>2, <2>1, <2>2, <2>3, <2>4
<1>10. Shows(b, d.entries)
  BY <1>7, <1>8, <1>9, ShowsStill
<1>11. StatusOrder(b, n)
  <2>1. \A i \in DOMAIN E : E[i].kind # "status"
    BY <1>2, <1>3, <1>6, LineIs DEF Begun, Final
  <2>2. \A i \in DOMAIN W : W[i].kind # "status"
    BY <1>7, LineIs
  <2>3. StatusOrder(a \o E, n)
    BY <1>1, <1>6, <2>1, OrderOfMore
  <2> QED
    BY <1>8, <2>2, <2>3, OrderOfMore
<1> HIDE DEF b
<1>12. /\ f \in Display /\ f.screen = b /\ f.zone = 0 /\ f.last = d.entries
       /\ SameRun(f, d)
  <2>1. d.zone \in Nat /\ d.printed \in SUBSET Subtasks
    BY <1>1, FieldsOfDisplay
  <2>2. PICK k \in Nat, p \in SUBSET Subtasks, q \in [Subtasks -> EntryState] :
          k = d.zone /\ p = d.printed /\ q = d.entries
    BY <1>1, <2>1
  <2>3. PICK g : g = With(d, b, k, p, q)
    OBVIOUS
  <2>4. /\ g \in Display /\ g.screen = b /\ g.zone = k /\ g.last = q
        /\ SameRun(g, d)
    <3>1. d \in Display /\ b \in Seq(Lines)
      BY <1>1, <1>8
    <3> QED
      BY <2>2, <2>3, <3>1, WithIs
  <2> QED
    BY <1>1, <1>4, <2>2, <2>3, <2>4
<1>13. Layout(f, b, <<>>)
  BY <1>8, <1>12, EmptyZone DEF Layout
<1>14. Base(f, b, <<>>, n, d.entries)
  BY <1>10, <1>11, <1>12, <1>13 DEF Base, Remembers, SameRun
<1> QED
  BY <1>8, <1>12, <1>14 DEF f

-----------------------------------------------------------------------------
(***************************************************************************)
(* The display is right: the zone shows what it should.                    *)
(***************************************************************************)
ZoneIs(d, z, n) ==
  \/ z = <<>> /\ d.stageLabel = "none"
  \/ z = <<Line("stage", d.stageLabel)>> /\ d.stageLabel # "none"
  \/ z = <<Line("status", n)>> /\ d.stageLabel # "none" /\ ~ d.active
  \/ z = ZoneLines(d) /\ d.active

Good(d, a, z, n) ==
  /\ Base(d, a, z, n, d.entries)
  /\ d.isTTY => ZoneIs(d, z, n)

GoodDisplay(d, n) == \E a, z : Good(d, a, z, n)

LEMMA RenderIs ==
  ASSUME NEW d, NEW a, NEW z, NEW n \in Nat, NEW e, Base(d, a, z, n, e), d.active,
         e \in [Subtasks -> EntryState],
         \A t \in Subtasks : e[t] \in Final => d.entries[t] = e[t]
  PROVE  GoodDisplay(Render(d), n) /\ SameRun(Render(d), d)
<1>1. CASE d.isTTY
  <2> DEFINE f == RenderTTY(d)
  <2>1. PICK b \in Seq(Lines) : Base(f, b, ZoneLines(d), n, d.entries) /\ SameRun(f, d)
    BY <1>1, RenderTTYIs
  <2>2. Render(d) = f
    BY <1>1 DEF Render
  <2> HIDE DEF f
  <2>3. ZoneLines(f) = ZoneLines(d) /\ f.entries = d.entries /\ f.active
    BY <2>1, SameEntries DEF SameRun
  <2>4. Good(f, b, ZoneLines(d), n)
    BY <2>1, <2>3 DEF Good, ZoneIs
  <2> QED
    BY <2>1, <2>2, <2>4 DEF GoodDisplay
<1>2. CASE ~ d.isTTY
  <2> DEFINE f == RenderNonTTY(d)
  <2>1. PICK b \in Seq(Lines) : Base(f, b, <<>>, n, d.entries) /\ SameRun(f, d)
    BY <1>2, RenderNonTTYIs
  <2>2. Render(d) = f
    BY <1>2 DEF Render
  <2> HIDE DEF f
  <2>3. Good(f, b, <<>>, n)
    BY <1>2, <2>1 DEF Good, SameRun
  <2> QED
    BY <2>1, <2>2, <2>3 DEF GoodDisplay
<1> QED
  BY <1>1, <1>2

\* The entries e after an event of this type about each subtask of S.
Entered(e, type, S) == [t \in Subtasks |-> IF t \in S THEN type ELSE e[t]]

\* An event about a subtask that has no outcome yet, or again this one.
LEMMA HandleEventIs ==
  ASSUME NEW d, NEW n \in Nat, GoodDisplay(d, n), d.active,
         NEW type \in Begun, NEW t \in Subtasks,
         d.entries[t] \in Final => type = d.entries[t]
  PROVE  LET f == HandleEvent(d, Event(type, t))
         IN  /\ GoodDisplay(f, n)
             /\ f.isTTY = d.isTTY /\ f.active = d.active /\ f.stageLabel = d.stageLabel
             /\ f.entries = Entered(d.entries, type, {t})
<1> DEFINE g == [d EXCEPT !.entries[t] = type]
<1>1. PICK a, z : Good(d, a, z, n)
  BY DEF GoodDisplay
<1>2. d \in Display /\ d.entries \in [Subtasks -> EntryState]
  BY <1>1, FieldsOfDisplay DEF Good, Base
<1>3. HandleEvent(d, Event(type, t)) = Render(g)
  BY DEF HandleEvent, Event, Begun, Final
<1>4. /\ g \in Display /\ g.entries = [d.entries EXCEPT ![t] = type]
      /\ g.isTTY = d.isTTY /\ g.active = d.active /\ g.stageLabel = d.stageLabel
      /\ g.screen = d.screen /\ g.zone = d.zone /\ g.printed = d.printed /\ g.last = d.last
  <2>1. type \in EntryState
    BY DEF Begun, Final, EntryState
  <2> QED
    BY <1>2, <2>1 DEF Display
<1> HIDE DEF g
<1>5. Base(g, a, z, n, d.entries)
  BY <1>1, <1>4 DEF Good, Base, Layout, Remembers
<1>6. \A u \in Subtasks : d.entries[u] \in Final => g.entries[u] = d.entries[u]
  BY <1>2, <1>4
<1>7. GoodDisplay(Render(g), n) /\ SameRun(Render(g), g)
  BY <1>2, <1>4, <1>5, <1>6, RenderIs
<1>8. g.entries = Entered(d.entries, type, {t})
  BY <1>2, <1>4 DEF Entered
<1> QED
  BY <1>3, <1>4, <1>7, <1>8 DEF SameRun

SameStage(f, d) == f.isTTY = d.isTTY /\ f.active = d.active /\ f.stageLabel = d.stageLabel

-----------------------------------------------------------------------------
(***************************************************************************)
(* The same event about each subtask of S, one after the other.            *)
(***************************************************************************)
LEMMA HandleEachIs ==
  ASSUME NEW d, NEW n \in Nat, GoodDisplay(d, n), d.active,
         NEW type \in Begun, NEW S \in SUBSET Subtasks,
         \A t \in S : d.entries[t] \in Final => type = d.entries[t]
  PROVE  LET f == HandleEach(d, type, S)
         IN  GoodDisplay(f, n) /\ SameStage(f, d) /\ f.entries = Entered(d.entries, type, S)
<1> DEFINE N == Cardinality(S)
           q == Sorted(S)
           body(f) == [i \in 0 .. N |-> IF i = 0 THEN d ELSE HandleEvent(f[i - 1], Event(type, q[i]))]
           shown == CHOOSE f : f = body(f)
           Done(i) == {q[j] : j \in 1 .. i}
           Right(f, i) == /\ GoodDisplay(f, n) /\ SameStage(f, d)
                          /\ f.entries = Entered(d.entries, type, Done(i))
<1>1. N \in Nat /\ q \in [1 .. N -> S] /\ \A t \in S : \E i \in 1 .. N : q[i] = t
  BY SortedIs
<1>2. d \in Display /\ d.entries \in [Subtasks -> EntryState]
  BY FieldsOfDisplay DEF GoodDisplay, Good, Base
<1>3. HandleEach(d, type, S) = shown[N]
  BY DEF HandleEach
<1> HIDE DEF N, q
\* One step.
<1>4. ASSUME NEW i \in 1 .. N, NEW v, Right(v, i - 1)
      PROVE  Right(HandleEvent(v, Event(type, q[i])), i)
  <2> DEFINE w == HandleEvent(v, Event(type, q[i]))
  <2>1. q[i] \in S /\ q[i] \in Subtasks
    BY <1>1
  <2>2. v.entries[q[i]] \in Final => type = v.entries[q[i]]
    BY <1>4, <2>1 DEF Entered
  <2>3. GoodDisplay(v, n) /\ v.active
    BY <1>4 DEF SameStage
  <2>4. /\ GoodDisplay(w, n)
        /\ w.isTTY = v.isTTY /\ w.active = v.active /\ w.stageLabel = v.stageLabel
        /\ w.entries = Entered(v.entries, type, {q[i]})
    <3>1. PICK t \in Subtasks : t = q[i]
      BY <2>1
    <3>2. PICK x : x = HandleEvent(v, Event(type, t))
      OBVIOUS
    <3>3. /\ GoodDisplay(x, n)
          /\ x.isTTY = v.isTTY /\ x.active = v.active /\ x.stageLabel = v.stageLabel
          /\ x.entries = Entered(v.entries, type, {t})
      <4>1. v.entries[t] \in Final => type = v.entries[t]
        BY <2>2, <3>1
      <4> QED
        BY <2>3, <3>2, <4>1, HandleEventIs
    <3> QED
      BY <3>1, <3>2, <3>3
  <2> HIDE DEF w
  <2>5. Done(i) = Done(i - 1) \cup {q[i]}
    <3>1. 1 .. i = (1 .. i - 1) \cup {i}
      BY <1>1
    <3> QED
      BY <3>1
  <2> HIDE DEF Done
  <2>6. w.entries = Entered(d.entries, type, Done(i))
    BY <1>4, <2>1, <2>4, <2>5 DEF Entered
  <2> QED
    BY <1>4, <2>4, <2>6 DEF SameStage, w
<1>5. Right(d, 0)
  <2>1. Done(0) = {}
    OBVIOUS
  <2> HIDE DEF Done
  <2>2. d.entries = Entered(d.entries, type, Done(0))
    BY <1>2, <2>1 DEF Entered
  <2> QED
    BY <2>2 DEF SameStage
\* The recursion has a solution.
<1>6. \E f : f = body(f)
  <2> DEFINE I == {k \in 0 .. N :
                     \E g : /\ g[0] = d
                            /\ \A i \in 1 .. k : g[i] = HandleEvent(g[i - 1], Event(type, q[i]))}
  <2>1. 0 \in I
    <3> DEFINE g == [i \in 0 .. 0 |-> d]
    <3>1. g[0] = d /\ \A i \in 1 .. 0 : g[i] = HandleEvent(g[i - 1], Event(type, q[i]))
      OBVIOUS
    <3> HIDE DEF g
    <3>2. \E h : h[0] = d /\ \A i \in 1 .. 0 : h[i] = HandleEvent(h[i - 1], Event(type, q[i]))
      BY <3>1
    <3> QED
      BY <1>1, <3>2
  <2>2. ASSUME NEW k \in 1 .. N, k - 1 \in I PROVE k \in I
    <3>1. PICK g : /\ g[0] = d
                   /\ \A i \in 1 .. k - 1 : g[i] = HandleEvent(g[i - 1], Event(type, q[i]))
      BY <2>2
    <3> DEFINE h == [i \in 0 .. k |-> IF i = k THEN HandleEvent(g[k - 1], Event(type, q[k])) ELSE g[i]]
    <3>2. k \in Nat /\ k # 0 /\ \A i \in 1 .. k : i - 1 \in 0 .. k /\ i - 1 # k
                                                 /\ i \in 0 .. k /\ (i # k => i \in 1 .. k - 1)
      BY <1>1
    <3>3. h[0] = d
      BY <3>1, <3>2
    <3>4. ASSUME NEW i \in 1 .. k PROVE h[i] = HandleEvent(h[i - 1], Event(type, q[i]))
      <4>1. h[i - 1] = g[i - 1]
        BY <3>2
      <4>2. CASE i = k
        BY <3>2, <4>1, <4>2
      <4>3. CASE i # k
        BY <3>1, <3>2, <4>1, <4>3
      <4> QED
        BY <4>2, <4>3
    <3> HIDE DEF h
    <3> QED
      BY <1>1, <3>3, <3>4
  <2> HIDE DEF I
  <2>3. 0 .. N \subseteq I
    BY <1>1, <2>1, <2>2, UpTo
  <2>4. N \in I
    BY <1>1, <2>3
  <2>5. PICK g : /\ g[0] = d
                 /\ \A i \in 1 .. N : g[i] = HandleEvent(g[i - 1], Event(type, q[i]))
    BY <2>4 DEF I
  <2> DEFINE h == [i \in 0 .. N |-> g[i]]
  <2>6. h = body(h)
    <3>1. \A i \in 0 .. N : i # 0 => i \in 1 .. N /\ i - 1 \in 0 .. N
      BY <1>1
    <3>2. \A i \in 0 .. N : h[i] = IF i = 0 THEN d ELSE HandleEvent(h[i - 1], Event(type, q[i]))
      BY <2>5, <3>1
    <3> QED
      BY <3>2
  <2> QED
    BY <2>6
<1>7. shown = body(shown)
  <2> HIDE DEF body
  <2> QED
    BY <1>6
<1> HIDE DEF shown
<1>8. shown[0] = d /\ \A i \in 1 .. N : shown[i] = HandleEvent(shown[i - 1], Event(type, q[i]))
  <2>1. 0 \in 0 .. N /\ \A i \in 1 .. N : i \in 0 .. N /\ i # 0
    BY <1>1
  <2> QED
    BY <1>7, <2>1
<1>9. Right(shown[N], N)
  <2> DEFINE I == {i \in 0 .. N : Right(shown[i], i)}
  <2> HIDE DEF Right
  <2>1. 0 \in I
    BY <1>1, <1>5, <1>8
  <2>2. ASSUME NEW i \in 1 .. N, i - 1 \in I PROVE i \in I
    <3>1. i \in 0 .. N /\ Right(shown[i - 1], i - 1)
      BY <1>1, <2>2
    <3> QED
      BY <1>4, <1>8, <3>1
  <2> HIDE DEF I
  <2>3. 0 .. N \subseteq I
    BY <1>1, <2>1, <2>2, UpTo
  <2> QED
    BY <1>1, <2>3 DEF I
<1>10. Done(N) = S
  BY <1>1
<1> QED
  BY <1>3, <1>9, <1>10

-----------------------------------------------------------------------------
(***************************************************************************)
(* The line of the stage, and status lines.                                *)
(***************************************************************************)
LEMMA StageLineIs ==
  ASSUME NEW d, NEW n \in Nat, NEW a, NEW z, Base(d, a, z, n, d.entries),
         d.stageLabel # "none"
  PROVE  GoodDisplay(StageLine(d), n) /\ SameRun(StageLine(d), d)
<1> DEFINE l == Line("stage", d.stageLabel)
<1>1. d \in Display /\ l \in Announcements /\ l.kind # "status"
  BY LinesOfRun, LineIs, FieldsOfDisplay DEF Base
<1> HIDE DEF l
<1>2. <<l>> \in Seq(Passing) /\ Len(<<l>>) = 1 /\ \A i \in DOMAIN <<l>> : <<l>>[i].kind # "status"
  BY <1>1 DEF Passing
<1>3. CASE d.isTTY
  <2> DEFINE g == EraseZone(d)
  <2>1. Base(g, a, <<>>, n, d.entries) /\ SameRun(g, d)
    BY <1>3, EraseBase
  <2>2. StageLine(d) = [Write(g, <<l>>) EXCEPT !.zone = 1]
    BY <1>3 DEF StageLine, l
  <2> HIDE DEF g
  <2>3. g \in Display /\ g.isTTY
    BY <1>3, <2>1 DEF Base, SameRun
  <2>4. StageLine(d) = With(g, g.screen \o <<l>>, Len(<<l>>), g.printed, g.last)
    BY <1>2, <2>2, <2>3 DEF Write, With, Display
  <2>5. Base(StageLine(d), a, <<l>>, n, d.entries) /\ SameRun(StageLine(d), g)
    BY <1>2, <2>1, <2>3, <2>4, ZoneBase
  <2>6. SameRun(StageLine(d), d)
    BY <2>1, <2>5 DEF SameRun
  <2>7. Good(StageLine(d), a, <<l>>, n)
    BY <2>5, <2>6 DEF Good, ZoneIs, SameRun, l
  <2> QED
    BY <2>6, <2>7 DEF GoodDisplay
<1>4. CASE ~ d.isTTY
  <2>1. z = <<>> /\ d.screen = a /\ d.zone = 0 /\ StatusOrder(a, n) /\ a \in Seq(Lines)
    BY <1>4, AppendBase DEF Base, Layout
  <2>2. PICK b : b = a \o <<l>>
    OBVIOUS
  <2>3. b \in Seq(Lines) /\ Shows(b, d.entries) /\ StatusOrder(b, n)
    <3>1. <<l>> \in Seq(Lines)
      BY <1>2, WiderSeq, KindsOfLines
    <3>2. b \in Seq(Lines) /\ Shows(b, d.entries)
      BY <1>2, <2>1, <2>2, ShowsStill DEF Base
    <3> QED
      BY <1>2, <2>1, <2>2, <3>1, <3>2, OrderOfMore
  <2>4. PICK p, q : p = d.printed /\ q = d.last /\ p \in SUBSET Subtasks
                    /\ q \in [Subtasks -> EntryState]
    BY <1>1, FieldsOfDisplay
  <2>5. PICK f : f = With(d, b, 0, p, q)
    OBVIOUS
  <2>6. StageLine(d) = f
    BY <1>1, <1>4, <2>1, <2>2, <2>4, <2>5 DEF StageLine, Write, With, Display, l
  <2>7. f \in Display /\ f.screen = b /\ f.zone = 0 /\ f.last = d.last /\ SameRun(f, d)
    BY <1>1, <2>3, <2>4, <2>5, WithIs
  <2>8. Layout(f, b, <<>>)
    BY <2>3, <2>7, EmptyZone DEF Layout
  <2>9. Good(f, b, <<>>, n)
    BY <1>4, <2>3, <2>7, <2>8 DEF Good, Base, Remembers, SameRun
  <2> QED
    BY <2>6, <2>7, <2>9 DEF GoodDisplay
<1> QED
  BY <1>3, <1>4

LEMMA StageStartIs ==
  ASSUME NEW d, NEW n \in Nat, GoodDisplay(d, n), NEW label \in Ticking
  PROVE  LET f == StageStart(d, label)
         IN  /\ GoodDisplay(f, n)
             /\ f.isTTY = d.isTTY /\ f.active = d.active /\ f.stageLabel = label
             /\ f.entries = d.entries
<1> DEFINE g == [d EXCEPT !.stageLabel = label]
<1>1. PICK a, z : Base(d, a, z, n, d.entries)
  BY DEF GoodDisplay, Good
<1>2. d \in Display
  BY <1>1 DEF Base
<1>3. /\ g \in Display /\ g.entries = d.entries
      /\ g.isTTY = d.isTTY /\ g.active = d.active /\ g.stageLabel = label
      /\ g.screen = d.screen /\ g.zone = d.zone /\ g.printed = d.printed /\ g.last = d.last
  BY <1>2 DEF Display
<1>4. StageStart(d, label) = StageLine(g)
  BY DEF StageStart
<1> HIDE DEF g
<1>5. Base(g, a, z, n, g.entries)
  BY <1>1, <1>3 DEF Base, Layout, Remembers
<1>6. g.stageLabel # "none"
  BY <1>3 DEF Ticking
<1>7. GoodDisplay(StageLine(g), n) /\ SameRun(StageLine(g), g)
  BY <1>5, <1>6, StageLineIs
<1> QED
  BY <1>3, <1>4, <1>7 DEF SameRun

LEMMA StageEndIs ==
  ASSUME NEW d, NEW n \in Nat, NEW a, NEW z, Base(d, a, z, n, d.entries),
         d.stageLabel # "none" \/ z = <<>>, ~ d.active
  PROVE  LET f == StageEnd(d)
         IN  /\ GoodDisplay(f, n)
             /\ f.isTTY = d.isTTY /\ f.active = d.active /\ f.stageLabel = "none"
             /\ f.entries = d.entries
<1> DEFINE g == IF d.isTTY /\ d.stageLabel # "none" THEN EraseZone(d) ELSE d
           f == StageEnd(d)
<1>1. Base(g, a, <<>>, n, d.entries) /\ SameRun(g, d)
  <2>1. CASE d.isTTY /\ d.stageLabel # "none"
    BY <2>1, EraseBase
  <2>2. CASE d.isTTY /\ d.stageLabel = "none"
    BY <2>2 DEF SameRun
  <2>3. CASE ~ d.isTTY
    BY <2>3, AppendBase DEF SameRun
  <2> QED
    BY <2>1, <2>2, <2>3
<1>2. f = [g EXCEPT !.stageLabel = "none", !.zone = 0]
  BY DEF StageEnd
<1> HIDE DEF g, f
<1>3. g \in Display
  BY <1>1 DEF Base
<1>4. g.zone = 0
  BY <1>1, EmptyZone DEF Base, Layout
<1>5. /\ f \in Display /\ f.entries = g.entries
      /\ f.isTTY = g.isTTY /\ f.active = g.active /\ f.stageLabel = "none"
      /\ f.screen = g.screen /\ f.zone = 0 /\ f.printed = g.printed /\ f.last = g.last
  BY <1>2, <1>3 DEF Display
<1>6. Base(f, a, <<>>, n, f.entries)
  BY <1>1, <1>4, <1>5 DEF Base, Layout, Remembers, SameRun
<1>7. Good(f, a, <<>>, n)
  BY <1>5, <1>6 DEF Good, ZoneIs
<1> QED
  BY <1>1, <1>5, <1>7 DEF GoodDisplay, SameRun, f

\* A status line where there is no zone.
LEMMA StatusBase ==
  ASSUME NEW d, NEW n \in Nat, NEW a, NEW e, Base(d, a, <<>>, n, e)
  PROVE  LET l == Line("status", n + 1)
             f == Write(d, <<l>>)
         IN  Base(f, a \o <<l>>, <<>>, n + 1, e) /\ SameRun(f, d)
<1> DEFINE l == Line("status", n + 1)
           f == Write(d, <<l>>)
           b == a \o <<l>>
<1>1. /\ d \in Display /\ a \in Seq(Lines) /\ d.screen = a /\ StatusOrder(a, n)
      /\ d.zone \in Nat /\ d.printed \in SUBSET Subtasks /\ d.last \in [Subtasks -> EntryState]
  BY EmptyZone, FieldsOfDisplay DEF Base, Layout
<1>2. f = With(d, b, d.zone, d.printed, d.last)
  BY <1>1 DEF Write, With, Display
<1>3. StatusOrder(b, n + 1)
  BY <1>1, OrderOfNext
<1>4. l \in Announcements
  BY LinesOfRun
<1> HIDE DEF l, f
<1>5. /\ <<l>> \in Seq(Passing) /\ <<l>> \in Seq(Lines) /\ <<l>> \in Seq(Kept)
      /\ CountOf(<<l>>, Announcements) = 1
  BY <1>4, KindsOfLines, CountOne DEF Passing
<1>6. b \in Seq(Lines) /\ Shows(b, e)
  BY <1>1, <1>5, ShowsStill DEF Base
<1>7. d.isTTY => b \in Seq(Kept) /\ CountOf(b, Announcements) = n + 1
  <2> SUFFICES ASSUME d.isTTY PROVE b \in Seq(Kept) /\ CountOf(b, Announcements) = n + 1
    OBVIOUS
  <2>1. a \in Seq(Kept) /\ CountOf(a, Announcements) = n
    BY DEF Base
  <2>2. b \in Seq(Kept)
    BY <1>5, <2>1, ConcatSplits
  <2>3. CountOf(b, Announcements) = CountOf(a, Announcements) + CountOf(<<l>>, Announcements)
    <3>1. PICK u \in Seq(Kept) : u = <<l>>
      BY <1>5
    <3>2. CountOf(a \o u, Announcements) = CountOf(a, Announcements) + CountOf(u, Announcements)
      BY <2>1, CountConcat
    <3> QED
      BY <3>1, <3>2
  <2> HIDE DEF b
  <2> QED
    BY <1>5, <2>1, <2>2, <2>3
<1> HIDE DEF b
<1>8. /\ f \in Display /\ f.screen = b /\ f.zone = d.zone /\ f.printed = d.printed
      /\ f.last = d.last /\ SameRun(f, d)
  BY <1>1, <1>2, <1>6, WithIs
<1>9. Layout(f, b, <<>>)
  BY <1>6, <1>8, EmptyZone DEF Layout, Base
<1>10. Remembers(f, e)
  BY <1>8 DEF Remembers, Base, SameRun
<1>11. Base(f, b, <<>>, n + 1, e)
  BY <1>3, <1>6, <1>7, <1>8, <1>9, <1>10 DEF Base, SameRun
<1> QED
  BY <1>8, <1>11 DEF f, b, l

\* A status line below the one line of a zone, which it leaves behind.
LEMMA StatusBelow ==
  ASSUME NEW d, NEW n \in Nat, NEW a, NEW e, NEW x \in Announcements,
         Base(d, a, <<x>>, n, e), d.isTTY
  PROVE  LET l == Line("status", n + 1)
             f == Write(d, <<l>>)
         IN  Base(f, a \o <<x>>, <<l>>, n + 1, e) /\ SameRun(f, d)
<1> DEFINE l == Line("status", n + 1)
           f == Write(d, <<l>>)
           b == a \o <<x>>
<1>1. /\ d \in Display /\ a \in Seq(Lines) /\ a \in Seq(Kept) /\ CountOf(a, Announcements) = n
      /\ d.screen = b /\ StatusOrder(b, n) /\ d.zone = 1
      /\ d.zone \in Nat /\ d.printed \in SUBSET Subtasks /\ d.last \in [Subtasks -> EntryState]
  BY FieldsOfDisplay DEF Base, Layout
<1>2. /\ <<x>> \in Seq(Passing) /\ <<x>> \in Seq(Lines) /\ <<x>> \in Seq(Kept)
      /\ CountOf(<<x>>, Announcements) = 1
  BY KindsOfLines, CountOne DEF Passing
<1>3. b \in Seq(Lines) /\ Shows(b, e)
  BY <1>1, <1>2, ShowsStill DEF Base
<1>4. b \in Seq(Kept) /\ CountOf(b, Announcements) = n + 1
  <2>1. b \in Seq(Kept)
    BY <1>1, <1>2, ConcatSplits
  <2>2. CountOf(b, Announcements) = CountOf(a, Announcements) + CountOf(<<x>>, Announcements)
    <3>1. PICK u \in Seq(Kept) : u = <<x>>
      BY <1>2
    <3>2. a \in Seq(Kept)
      BY <1>1
    <3>3. CountOf(a \o u, Announcements) = CountOf(a, Announcements) + CountOf(u, Announcements)
      BY <3>2, CountConcat
    <3> QED
      BY <3>1, <3>3
  <2> HIDE DEF b
  <2> QED
    BY <1>1, <1>2, <2>1, <2>2
<1> HIDE DEF b
<1>5. StatusOrder(b \o <<l>>, n + 1)
  BY <1>1, <1>3, OrderOfNext
<1>6. l \in Announcements
  BY LinesOfRun
<1>7. f = With(d, b \o <<l>>, d.zone, d.printed, d.last)
  BY <1>1 DEF Write, With, Display
<1> HIDE DEF l, f
<1>8. <<l>> \in Seq(Passing) /\ <<l>> \in Seq(Lines) /\ Len(<<l>>) = 1
  BY <1>6, KindsOfLines DEF Passing
<1>9. PICK s \in Seq(Lines) : s = b \o <<l>>
  BY <1>3, <1>8, ConcatSplits
<1>10. /\ f \in Display /\ f.screen = s /\ f.zone = d.zone /\ f.printed = d.printed
       /\ f.last = d.last /\ SameRun(f, d)
  <2>1. PICK k \in Nat, p \in SUBSET Subtasks, q \in [Subtasks -> EntryState] :
          k = d.zone /\ p = d.printed /\ q = d.last
    BY <1>1
  <2>2. PICK g : g = With(d, s, k, p, q)
    OBVIOUS
  <2>3. d \in Display
    BY <1>1
  <2>4. /\ g \in Display /\ g.screen = s /\ g.zone = k /\ g.printed = p /\ g.last = q
        /\ SameRun(g, d)
    BY <2>2, <2>3, WithIs
  <2> QED
    BY <1>7, <1>9, <2>1, <2>2, <2>4
<1>11. Layout(f, b, <<l>>)
  BY <1>1, <1>3, <1>8, <1>9, <1>10 DEF Layout
<1>12. Remembers(f, e)
  BY <1>10 DEF Remembers, Base, SameRun
<1>13. Base(f, b, <<l>>, n + 1, e)
  BY <1>3, <1>4, <1>5, <1>9, <1>10, <1>11, <1>12 DEF Base
<1> QED
  BY <1>10, <1>13 DEF f, b, l

LEMMA WriteStatusIs ==
  ASSUME NEW d, NEW n \in Nat, GoodDisplay(d, n)
  PROVE  LET f == WriteStatus(d, Line("status", n + 1))
         IN  GoodDisplay(f, n + 1) /\ SameRun(f, d)
<1> DEFINE l == Line("status", n + 1)
           f == WriteStatus(d, l)
<1>1. PICK a, z : Good(d, a, z, n)
  BY DEF GoodDisplay
<1>2. Base(d, a, z, n, d.entries) /\ d \in Display
  BY <1>1 DEF Good, Base
<1>3. CASE d.isTTY /\ d.active
  <2> DEFINE g == EraseZone(d)
             h == Write(g, <<l>>)
             b == a \o <<l>>
  <2>1. Base(g, a, <<>>, n, d.entries) /\ SameRun(g, d)
    BY <1>2, <1>3, EraseBase
  <2>2. Base(h, b, <<>>, n + 1, d.entries) /\ SameRun(h, g)
    BY <2>1, StatusBase
  <2>3. f = WriteZone(h)
    BY <1>3 DEF WriteStatus
  <2> HIDE DEF f, g, h, b
  <2>4. h.isTTY /\ h \in Display /\ n + 1 \in Nat /\ SameRun(h, d)
    BY <1>3, <2>1, <2>2 DEF SameRun, Base
  <2>5. ZoneLines(h) \in Seq(Passing) /\ \A i \in DOMAIN ZoneLines(h) : ZoneLines(h)[i].kind # "status"
    BY <2>4, ZoneLinesAre, LineIs
  <2>6. WriteZone(h) = With(h, h.screen \o ZoneLines(h), Len(ZoneLines(h)), h.printed, h.last)
    BY <2>4 DEF WriteZone, Write, With, Display
  <2>7. Base(f, b, ZoneLines(h), n + 1, d.entries) /\ SameRun(f, h)
    BY <2>2, <2>3, <2>4, <2>5, <2>6, ZoneBase
  <2>8. SameRun(f, d) /\ ZoneLines(h) = ZoneLines(f)
    BY <2>4, <2>7, SameEntries DEF SameRun
  <2>9. Good(f, b, ZoneLines(h), n + 1)
    BY <1>3, <2>7, <2>8 DEF Good, ZoneIs, SameRun
  <2> QED
    BY <2>8, <2>9 DEF GoodDisplay, f, l
<1>4. CASE ~ (d.isTTY /\ d.active)
  <2>1. f = Write(d, <<l>>)
    BY <1>4 DEF WriteStatus
  <2>2. CASE z = <<>>
    <3> DEFINE b == a \o <<l>>
    <3>1. Base(f, b, <<>>, n + 1, d.entries) /\ SameRun(f, d)
      BY <1>2, <2>1, <2>2, StatusBase
    <3> HIDE DEF f, b
    <3>2. d.isTTY => d.stageLabel = "none"
      BY <1>1, <1>4, <2>2 DEF Good, ZoneIs
    <3>3. Good(f, b, <<>>, n + 1)
      BY <3>1, <3>2 DEF Good, ZoneIs, SameRun
    <3> QED
      BY <3>1, <3>3 DEF GoodDisplay, f, l
  <2>3. CASE z # <<>>
    <3>1. d.isTTY
      BY <1>2, <2>3, AppendBase
    <3>2. d.stageLabel # "none" /\ \E x : x \in Announcements /\ z = <<x>>
      <4>1. d.stageLabel \in Ticking \cup {"none"}
        BY <1>2, FieldsOfDisplay
      <4>2. d.stageLabel # "none"
        BY <1>1, <1>4, <2>3, <3>1 DEF Good, ZoneIs
      <4> QED
        BY <1>1, <1>4, <2>3, <3>1, <4>1, <4>2, LinesOfRun DEF Good, ZoneIs
    <3>3. PICK x \in Announcements : z = <<x>>
      BY <3>2
    <3> DEFINE b == a \o <<x>>
    <3>4. Base(f, b, <<l>>, n + 1, d.entries) /\ SameRun(f, d)
      BY <1>2, <2>1, <3>1, <3>3, StatusBelow
    <3>5. ZoneIs(f, <<l>>, n + 1)
      <4> HIDE DEF f
      <4>1. f.stageLabel # "none" /\ ~ f.active
        BY <1>4, <3>1, <3>2, <3>4 DEF SameRun
      <4> QED
        BY <4>1 DEF ZoneIs
    <3> HIDE DEF f, b
    <3>6. Good(f, b, <<l>>, n + 1)
      BY <3>4, <3>5 DEF Good, SameRun
    <3> QED
      BY <3>4, <3>6 DEF GoodDisplay, f, l
  <2> QED
    BY <2>2, <2>3
<1> QED
  BY <1>3, <1>4

-----------------------------------------------------------------------------
(***************************************************************************)
(* The events that begin and end a DAG, the ticks, and the first line.     *)
(***************************************************************************)
LEMMA DagStartIs ==
  ASSUME NEW d, NEW n \in Nat, GoodDisplay(d, n), \A t \in Subtasks : d.entries[t] = "absent"
  PROVE  LET f == HandleEvent(d, [type |-> "dag-start"])
         IN  /\ GoodDisplay(f, n)
             /\ f.isTTY = d.isTTY /\ f.active = TRUE /\ f.stageLabel = d.stageLabel
             /\ \A t \in Subtasks : f.entries[t] = "waiting"
<1> DEFINE g == [d EXCEPT !.active = TRUE, !.entries = [t \in Subtasks |-> "waiting"]]
<1>1. PICK a, z : Good(d, a, z, n)
  BY DEF GoodDisplay
<1>2. d \in Display /\ d.entries \in [Subtasks -> EntryState]
  BY <1>1, FieldsOfDisplay DEF Good, Base
<1>3. HandleEvent(d, [type |-> "dag-start"]) = Render(g)
  BY DEF HandleEvent
<1>4. /\ g \in Display /\ \A t \in Subtasks : g.entries[t] = "waiting"
      /\ g.isTTY = d.isTTY /\ g.active = TRUE /\ g.stageLabel = d.stageLabel
      /\ g.screen = d.screen /\ g.zone = d.zone /\ g.printed = d.printed /\ g.last = d.last
  BY <1>2 DEF Display, EntryState
<1> HIDE DEF g
<1>5. Base(g, a, z, n, d.entries)
  BY <1>1, <1>4 DEF Good, Base, Layout, Remembers
<1>6. \A u \in Subtasks : d.entries[u] \notin Final
  BY DEF Final
<1>7. GoodDisplay(Render(g), n) /\ SameRun(Render(g), g)
  BY <1>2, <1>4, <1>5, <1>6, RenderIs
<1> QED
  BY <1>3, <1>4, <1>7 DEF SameRun

\* The end of a DAG in which nothing runs any more, and of its stage.
LEMMA DagCompleteIs ==
  ASSUME NEW d, NEW n \in Nat, GoodDisplay(d, n), \A t \in Subtasks : d.entries[t] # "running"
  PROVE  LET f == StageEnd(HandleEvent(d, [type |-> "dag-complete"]))
         IN  /\ GoodDisplay(f, n)
             /\ f.isTTY = d.isTTY /\ f.active = FALSE /\ f.stageLabel = "none"
             /\ f.entries = d.entries
<1> DEFINE g == [d EXCEPT !.active = FALSE]
           h == Finalize(d)
<1>1. PICK a, z : Base(d, a, z, n, d.entries)
  BY DEF GoodDisplay, Good
<1>2. d \in Display
  BY <1>1 DEF Base
<1>3. /\ g \in Display /\ g.entries = d.entries
      /\ g.isTTY = d.isTTY /\ g.active = FALSE /\ g.stageLabel = d.stageLabel
      /\ g.screen = d.screen /\ g.zone = d.zone /\ g.printed = d.printed /\ g.last = d.last
  BY <1>2 DEF Display
<1>4. HandleEvent(d, [type |-> "dag-complete"]) = h
  BY DEF HandleEvent
<1>5. h = IF d.isTTY THEN PrintOnce(EraseZone(g), Begun) ELSE g
  BY <1>3 DEF Finalize
<1> HIDE DEF g, h
<1>6. Base(g, a, z, n, g.entries)
  BY <1>1, <1>3 DEF Base, Layout, Remembers
<1>7. \E b : Base(h, b, <<>>, n, g.entries) /\ SameRun(h, g)
  <2>1. CASE d.isTTY
    <3> DEFINE k == EraseZone(g)
    <3>1. Base(k, a, <<>>, n, g.entries) /\ SameRun(k, g) /\ k.isTTY /\ k.entries = g.entries
      BY <1>3, <1>6, <2>1, EraseBase DEF SameRun
    <3> HIDE DEF k
    <3>2. Final \subseteq Begun /\ \A t \in Subtasks : k.entries[t] \in Begun => k.entries[t] \in Final
      BY <1>3, <3>1 DEF Begun
    <3>3. PICK b \in Seq(Lines) : Base(PrintOnce(k, Begun), b, <<>>, n, k.entries)
                                  /\ SameRun(PrintOnce(k, Begun), k)
      BY <3>1, <3>2, PrintOnceIs
    <3>4. h = PrintOnce(k, Begun)
      BY <1>5, <2>1 DEF k
    <3> QED
      BY <3>1, <3>3, <3>4 DEF SameRun
  <2>2. CASE ~ d.isTTY
    <3>1. z = <<>>
      BY <1>3, <1>6, <2>2, AppendBase
    <3> QED
      BY <1>5, <1>6, <2>2, <3>1 DEF SameRun
  <2> QED
    BY <2>1, <2>2
<1>8. PICK b : Base(h, b, <<>>, n, h.entries) /\ SameRun(h, g)
  BY <1>7 DEF SameRun
<1>9. ~ h.active
  BY <1>3, <1>8 DEF SameRun
<1>10. /\ GoodDisplay(StageEnd(h), n)
       /\ StageEnd(h).isTTY = h.isTTY /\ StageEnd(h).active = h.active
       /\ StageEnd(h).stageLabel = "none" /\ StageEnd(h).entries = h.entries
  BY <1>8, <1>9, StageEndIs
<1> QED
  BY <1>3, <1>4, <1>8, <1>10 DEF SameRun

LEMMA DagTickIs ==
  ASSUME NEW d, NEW n \in Nat, GoodDisplay(d, n), d.isTTY, d.active
  PROVE  LET f == WriteZone(EraseZone(d))
         IN  GoodDisplay(f, n) /\ SameRun(f, d)
<1> DEFINE f == WriteZone(EraseZone(d))
<1>1. PICK a, z : Base(d, a, z, n, d.entries)
  BY DEF GoodDisplay, Good
<1>2. Base(f, a, ZoneLines(d), n, d.entries) /\ SameRun(f, d)
  BY <1>1, WriteZoneIs
<1> HIDE DEF f
<1>3. f.active /\ f.entries = d.entries /\ ZoneLines(f) = ZoneLines(d)
  BY <1>2, SameEntries DEF SameRun
<1>4. Good(f, a, ZoneLines(d), n)
  BY <1>2, <1>3 DEF Good, ZoneIs
<1> QED
  BY <1>2, <1>4 DEF GoodDisplay, f

LEMMA FirstLine ==
  ASSUME NEW tty \in BOOLEAN
  PROVE  LET none == [t \in Subtasks |-> "absent"]
             d == [isTTY |-> tty, active |-> FALSE, stageLabel |-> "none", zone |-> 0,
                   entries |-> none, last |-> none, printed |-> {}, screen |-> <<>>]
             f == StageStart(d, "Plan")
         IN  /\ GoodDisplay(f, 0)
             /\ f.active = FALSE /\ f.stageLabel = "Plan"
             /\ \A t \in Subtasks : f.entries[t] = "absent"
<1> DEFINE none == [t \in Subtasks |-> "absent"]
           d == [isTTY |-> tty, active |-> FALSE, stageLabel |-> "none", zone |-> 0,
                 entries |-> none, last |-> none, printed |-> {}, screen |-> <<>>]
<1>1. <<>> \in Seq(Lines) /\ <<>> \in Seq(Kept) /\ <<>> \in Seq(Passing) /\ Len(<<>>) = 0
      /\ <<>> \o <<>> = <<>> /\ DOMAIN <<>> = {}
  OBVIOUS
<1>2. none \in [Subtasks -> EntryState] /\ \A t \in Subtasks : none[t] = "absent"
  BY DEF EntryState
<1>3. \A S : CountOf(<<>>, S) = 0
  BY <1>1, CountNone
<1>4. Shows(<<>>, none)
  BY <1>2, <1>3 DEF Shows, Final
<1>5. StatusOrder(<<>>, 0)
  BY <1>1 DEF StatusOrder
<1>6. d.printed = {t \in Subtasks : none[t] \in Final}
  BY <1>2 DEF Final
<1> HIDE DEF none
<1>7. /\ d \in Display /\ d.entries = none /\ d.isTTY = tty /\ d.active = FALSE
      /\ d.stageLabel = "none" /\ d.screen = <<>> /\ d.zone = 0 /\ d.last = none
  BY <1>1, <1>2 DEF Display
<1> HIDE DEF d
<1>8. Base(d, <<>>, <<>>, 0, none)
  BY <1>1, <1>3, <1>4, <1>5, <1>6, <1>7 DEF Base, Layout, Remembers
<1>9. Good(d, <<>>, <<>>, 0)
  BY <1>7, <1>8 DEF Good, ZoneIs
<1>10. GoodDisplay(d, 0) /\ "Plan" \in Ticking /\ 0 \in Nat
  BY <1>9 DEF GoodDisplay, Ticking
<1> DEFINE f == StageStart(d, "Plan")
<1>11. GoodDisplay(f, 0) /\ f.active = d.active /\ f.stageLabel = "Plan" /\ f.entries = d.entries
  BY <1>10, StageStartIs
<1> QED
  BY <1>2, <1>7, <1>11 DEF d, none

(***************************************************************************)
(* What a good display says of its screen.                                 *)
(***************************************************************************)
LEMMA OutcomesShown ==
  ASSUME NEW d, NEW n \in Nat, GoodDisplay(d, n), NEW t \in Subtasks, NEW o \in Final
  PROVE  CountOf(d.screen, {Line(o, t)}) = IF d.entries[t] = o THEN 1 ELSE 0
<1>1. PICK a, z : Base(d, a, z, n, d.entries)
  BY DEF GoodDisplay, Good
<1>2. /\ a \in Seq(Lines) /\ z \in Seq(Passing) /\ d.screen = a \o z
      /\ Shows(a, d.entries)
  BY <1>1 DEF Base, Layout
<1>3. Shows(a \o z, d.entries)
  BY <1>2, ShowsStill
<1> QED
  BY <1>2, <1>3 DEF Shows

LEMMA PartsOfScreen ==
  ASSUME NEW d, NEW n \in Nat, GoodDisplay(d, n), d.isTTY
  PROVE  \E a, z :
           /\ SubSeq(d.screen, 1, Len(d.screen) - d.zone) = a
           /\ SubSeq(d.screen, Len(a) + 1, Len(d.screen)) = z
           /\ OfKind(a, Final \cup {"status", "stage"}) = DOMAIN a
           /\ \A i, j \in OfKind(a, {"status"}) : i < j => a[i].of < a[j].of
           /\ n = Cardinality(OfKind(a, {"status", "stage"}))
           /\ ZoneIs(d, z, n)
<1>1. PICK a, z : Base(d, a, z, n, d.entries) /\ ZoneIs(d, z, n)
  BY DEF GoodDisplay, Good
<1>2. /\ a \in Seq(Lines) /\ z \in Seq(Lines) /\ a \in Seq(Kept)
      /\ d.screen = a \o z /\ d.zone = Len(z) /\ StatusOrder(a \o z, n)
      /\ CountOf(a, Announcements) = n
  BY <1>1, WiderSeq, KindsOfLines DEF Base, Layout
<1>3. SubSeq(d.screen, 1, Len(d.screen) - d.zone) = a
  BY <1>2, PartsOfConcat
<1>4. SubSeq(d.screen, Len(a) + 1, Len(d.screen)) = z
  <2>1. Len(a \o z) = Len(a) + Len(z) /\ Len(a) \in Nat /\ Len(z) \in Nat
    BY <1>2, ConcatProperties, LenProperties
  <2>2. Len(a) + 1 = Len(a \o z) - Len(z) + 1
    BY <2>1
  <2> QED
    BY <1>2, <2>2, PartsOfConcat
<1>5. \A i \in DOMAIN a : a[i] \in Kept
  BY <1>2, ElementsAre, ElementOfSeq
<1>6. OfKind(a, Final \cup {"status", "stage"}) = DOMAIN a
  BY <1>5, KindsOfLines DEF OfKind
<1>7. \A i, j \in OfKind(a, {"status"}) : i < j => a[i].of < a[j].of
  <2>1. StatusOrder(a, n)
    BY <1>2, OrderOfPart
  <2> QED
    BY <2>1 DEF StatusOrder, OfKind
<1>8. OfKind(a, {"status", "stage"}) = Positions(a, Announcements)
  BY <1>5, KindsOfLines DEF OfKind, Positions
<1>9. n = Cardinality(OfKind(a, {"status", "stage"}))
  BY <1>2, <1>8 DEF CountOf
<1> QED
  BY <1>1, <1>3, <1>4, <1>6, <1>7, <1>9

-----------------------------------------------------------------------------
(***************************************************************************)
(* The inductive invariant of the composition.                             *)
(***************************************************************************)
Expected(t) ==
  CASE state[t] = "complete" -> "completed"
    [] state[t] = "skipped" /\ t \in Failed -> "failed"
    [] state[t] = "skipped" /\ t \notin Failed -> "skipped"
    [] state[t] = "pending" /\ phase[t] # "idle" -> "running"
    [] state[t] = "pending" /\ phase[t] = "idle" -> IF dag = "entered" THEN "absent" ELSE "waiting"

EntriesAgree == \A t \in Subtasks : display.entries[t] = Expected(t)

StagesAgree ==
  /\ stage \in Stage
  /\ display.stageLabel = IF stage \in Ticking THEN stage ELSE "none"
  /\ display.active <=> stage = "Execute"
  /\ stage = "Execute" <=> dag = "racing"
  /\ stage \in {"Plan", "approval"} => dag = "entered"

NothingBefore ==
  dag = "entered" => \A t \in Subtasks : state[t] = "pending" /\ phase[t] = "idle"

DisplayIInv ==
  /\ IInv
  /\ NothingBefore
  /\ said \in Nat
  /\ GoodDisplay(display, said)
  /\ EntriesAgree
  /\ StagesAgree

\* What a subtask's entry says of it.
LEMMA EntryIs ==
  ASSUME IInv, NEW t \in Subtasks
  PROVE  /\ Expected(t) = "completed" <=> state[t] = "complete"
         /\ Expected(t) = "failed" <=> state[t] = "skipped" /\ t \in Failed
         /\ Expected(t) = "skipped" <=> state[t] = "skipped" /\ t \notin Failed
         /\ Expected(t) = "running" <=> phase[t] \in {"executing", "resolved", "rejected"}
         /\ Expected(t) = "absent" <=> state[t] = "pending" /\ phase[t] = "idle" /\ dag = "entered"
         /\ Expected(t) = "waiting" <=> state[t] = "pending" /\ phase[t] = "idle" /\ dag # "entered"
<1>1. state[t] \in ResolverState /\ phase[t] \in Phase
  BY DEF IInv, TypeOK
<1>2. /\ phase[t] = "idle" => state[t] \in {"pending", "skipped"}
      /\ phase[t] \in {"executing", "resolved", "rejected"} => state[t] = "pending"
      /\ phase[t] \in {"settled", "retired"} => state[t] \in {"complete", "skipped"}
  BY DEF IInv, StateAgreesWithPhase
<1>3. CASE state[t] = "complete"
  BY <1>2, <1>3 DEF Expected
<1>4. CASE state[t] = "skipped"
  BY <1>2, <1>4 DEF Expected
<1>5. CASE state[t] = "pending"
  BY <1>1, <1>2, <1>5 DEF Expected, Phase, InMap
<1> QED
  BY <1>1, <1>3, <1>4, <1>5 DEF ResolverState

LEMMA OutcomesStayHolds == DisplayIInv => OutcomesStay
<1> SUFFICES ASSUME DisplayIInv, NEW t \in Subtasks, NEW o \in Final
             PROVE  Shown(Line(o, t)) = IF o = OutcomeOf(t) THEN 1 ELSE 0
  BY DEF OutcomesStay
<1>1. Shown(Line(o, t)) = CountOf(display.screen, {Line(o, t)})
  <2>1. {i \in DOMAIN display.screen : display.screen[i] = Line(o, t)}
          = Positions(display.screen, {Line(o, t)})
    BY DEF Positions
  <2> QED
    BY <2>1 DEF Shown, CountOf
<1>2. CountOf(display.screen, {Line(o, t)}) = IF display.entries[t] = o THEN 1 ELSE 0
  BY OutcomesShown DEF DisplayIInv
<1>3. display.entries[t] = Expected(t)
  BY DEF DisplayIInv, EntriesAgree
<1>4. Expected(t) = o <=> OutcomeOf(t) = o
  <2>1. state[t] \in ResolverState
    BY DEF DisplayIInv, IInv, TypeOK
  <2>2. CASE state[t] = "complete"
    BY <2>2 DEF Expected, OutcomeOf
  <2>3. CASE state[t] = "skipped"
    BY <2>3 DEF Expected, OutcomeOf
  <2>4. CASE state[t] = "pending"
    BY <2>4 DEF Expected, OutcomeOf, Final
  <2> QED
    BY <2>1, <2>2, <2>3, <2>4 DEF ResolverState
<1> QED
  BY <1>1, <1>2, <1>3, <1>4

LEMMA ScreenIsRightHolds == DisplayIInv => ScreenIsRight
<1> SUFFICES ASSUME DisplayIInv, display.isTTY PROVE ScreenIsRight
  BY DEF ScreenIsRight
<1>1. said \in Nat /\ GoodDisplay(display, said) /\ IInv /\ display \in Display
  BY DEF DisplayIInv, GoodDisplay, Good, Base
<1>2. PICK a, z :
         /\ SubSeq(display.screen, 1, Len(display.screen) - display.zone) = a
         /\ SubSeq(display.screen, Len(a) + 1, Len(display.screen)) = z
         /\ OfKind(a, Final \cup {"status", "stage"}) = DOMAIN a
         /\ \A i, j \in OfKind(a, {"status"}) : i < j => a[i].of < a[j].of
         /\ said = Cardinality(OfKind(a, {"status", "stage"}))
         /\ ZoneIs(display, z, said)
  BY <1>1, PartsOfScreen
<1> DEFINE running == {t \in Subtasks : phase[t] = "executing"}
           Blank == z = <<>> /\ stage \notin Ticking
           OfStage == z = <<Line("stage", stage)>> /\ stage \in Ticking
           OfStatus == z = <<Line("status", said)>> /\ stage \in Ticking /\ ~ display.active
           OfDag == /\ stage = "Execute"
                    /\ \A t \in running : Line("running", t) \in ToSet(z)
                    /\ \A t \in Subtasks : Line("running", t) \in ToSet(z) => t \in Running
                    /\ \A t \in Subtasks : state[t] = "skipped" \/ phase[t] = "retired" =>
                         \A i \in DOMAIN z : z[i].kind = "blocked" => t \notin z[i].of
<1>3. StagesAgree /\ "none" \notin Ticking
  BY DEF DisplayIInv, Ticking
<1>4. ASSUME z = <<>> /\ display.stageLabel = "none"
      PROVE  Blank
  BY <1>3, <1>4 DEF StagesAgree
<1>5. ASSUME z = <<Line("stage", display.stageLabel)>> /\ display.stageLabel # "none"
      PROVE  OfStage
  BY <1>3, <1>5 DEF StagesAgree
<1>6. ASSUME z = <<Line("status", said)>> /\ display.stageLabel # "none" /\ ~ display.active
      PROVE  OfStatus
  BY <1>3, <1>6 DEF StagesAgree
<1>7. ASSUME z = ZoneLines(display) /\ display.active
      PROVE  OfDag
  <2>0. /\ \A i \in DOMAIN z :
              \/ z[i] = Line("blocked", BlockedEntries(display))
              \/ \E t \in Subtasks : display.entries[t] = "running" /\ z[i] = Line("running", t)
        /\ \A t \in Subtasks : display.entries[t] = "running" =>
              \E i \in DOMAIN z : z[i] = Line("running", t)
    BY <1>1, <1>7, ZoneLinesAre
  <2>1. stage = "Execute"
    BY <1>3, <1>7 DEF StagesAgree
  <2>2. \A t \in Subtasks :
          display.entries[t] = "running" <=> phase[t] \in {"executing", "resolved", "rejected"}
    BY <1>1, EntryIs DEF DisplayIInv, EntriesAgree
  <2>3. \A t \in running : Line("running", t) \in ToSet(z)
    BY <2>0, <2>2 DEF ToSet
  <2>4. ASSUME NEW t \in Subtasks, Line("running", t) \in ToSet(z) PROVE t \in Running
    <3>1. PICK i \in DOMAIN z : z[i] = Line("running", t)
      BY <2>4 DEF ToSet
    <3>2. display.entries[t] = "running"
      BY <2>0, <3>1, LineIs
    <3> QED
      BY <2>2, <3>2 DEF Running, InMap
  <2>5. ASSUME NEW t \in Subtasks, state[t] = "skipped" \/ phase[t] = "retired",
               NEW i \in DOMAIN z, z[i].kind = "blocked"
        PROVE  t \notin z[i].of
    <3>1. z[i].of = BlockedEntries(display)
      BY <2>0, <2>5, LineIs
    <3>2. display.entries[t] = Expected(t)
      BY DEF DisplayIInv, EntriesAgree
    <3>3. state[t] # "pending"
      BY <1>1, <2>5 DEF IInv, StateAgreesWithPhase
    <3>4. display.entries[t] # "waiting"
      BY <1>1, <3>2, <3>3, EntryIs
    <3> QED
      BY <3>1, <3>4 DEF BlockedEntries
  <2> QED
    BY <2>1, <2>3, <2>4, <2>5
<1>8. Blank \/ OfStage \/ OfStatus \/ OfDag
  <2> HIDE DEF Blank, OfStage, OfStatus, OfDag
  <2> QED
    BY <1>2, <1>4, <1>5, <1>6, <1>7 DEF ZoneIs
<1> QED
  BY <1>2, <1>8 DEF ScreenIsRight

\* The display does not look at anything but the plan.
LEMMA SamePlan ==
  ASSUME UNCHANGED plan, GoodDisplay(display', said')
  PROVE  GoodDisplay(display, said)'
<1>1. PICK a, z : /\ Base(display', a, z, said', display'.entries)
                  /\ display'.isTTY => ZoneIs(display', z, said')
  BY DEF GoodDisplay, Good
<1>2. ZoneLines(display)' = ZoneLines(display')
  BY DEF ZoneLines, WaitingLine, BlockedEntries
<1>3. (display.isTTY => ZoneIs(display, z, said))'
  BY <1>1, <1>2 DEF ZoneIs
<1>4. Base(display, a, z, said, display.entries)'
  BY <1>1
<1> QED
  BY <1>3, <1>4 DEF GoodDisplay, Good

\* The end of a stage other than Execute.
LEMMA StageEndShown ==
  ASSUME NEW d, NEW n \in Nat, GoodDisplay(d, n), d.stageLabel # "none", ~ d.active
  PROVE  LET f == StageEnd(d)
         IN  /\ GoodDisplay(f, n)
             /\ f.isTTY = d.isTTY /\ f.active = d.active /\ f.stageLabel = "none"
             /\ f.entries = d.entries
<1>1. PICK a, z : Base(d, a, z, n, d.entries)
  BY DEF GoodDisplay, Good
<1> QED
  BY <1>1, StageEndIs

LEMMA StageTickIs ==
  ASSUME NEW d, NEW n \in Nat, GoodDisplay(d, n), d.stageLabel # "none"
  PROVE  GoodDisplay(StageLine(d), n) /\ SameRun(StageLine(d), d)
<1>1. PICK a, z : Base(d, a, z, n, d.entries)
  BY DEF GoodDisplay, Good
<1> QED
  BY <1>1, StageLineIs

-----------------------------------------------------------------------------
(***************************************************************************)
(* Steps in which runDAG does nothing.                                     *)
(***************************************************************************)
LEMMA ExpectedStays ==
  ASSUME UNCHANGED <<state, phase, dag>>, NEW t \in Subtasks
  PROVE  Expected(t)' = Expected(t)
BY DEF Expected, Failed, Skipped

LEMMA QuietStep ==
  ASSUME DisplayIInv, UNCHANGED <<plan, dag, state, phase>>, IInv',
         said' \in Nat, GoodDisplay(display', said'), display'.entries = display.entries,
         display'.active = display.active, StagesAgree'
  PROVE  DisplayIInv'
<1>1. GoodDisplay(display, said)'
  BY SamePlan
<1>2. EntriesAgree'
  BY ExpectedStays DEF DisplayIInv, EntriesAgree
<1>3. NothingBefore'
  BY DEF DisplayIInv, NothingBefore
<1> QED
  BY <1>1, <1>2, <1>3 DEF DisplayIInv

LEMMA StageSteps ==
  ASSUME DisplayIInv, PlanEnds \/ Refused \/ VerifyEnds \/ Recheck
  PROVE  DisplayIInv'
<1>1. /\ GoodDisplay(display, said) /\ said \in Nat /\ StagesAgree
      /\ UNCHANGED <<vars, said>>
      /\ stage \in {"Plan", "approval", "Verify", "retry"} /\ ~ display.active
  BY DEF DisplayIInv, PlanEnds, Refused, VerifyEnds, Recheck, StagesAgree
<1>2. UNCHANGED <<plan, dag, state, phase, attempt, skippedIndices, isShuttingDown>>
  BY <1>1 DEF vars
<1>3. IInv'
  BY <1>2, OtherStepsKeepIInv DEF DisplayIInv
<1>4. PICK d : d = display
  OBVIOUS
<1>5. CASE display' = StageEnd(display) /\ stage \in {"Plan", "Verify"}
           /\ stage' \in {"approval", "done", "retry"} /\ (stage' = "approval" => stage = "Plan")
  <2>1. PICK f : f = StageEnd(d)
    OBVIOUS
  <2>2. d.stageLabel # "none" /\ ~ d.active /\ GoodDisplay(d, said)
    BY <1>1, <1>4, <1>5 DEF StagesAgree, Ticking
  <2>3. /\ GoodDisplay(f, said) /\ f.active = d.active /\ f.stageLabel = "none"
        /\ f.entries = d.entries
    BY <1>1, <2>1, <2>2, StageEndShown
  <2>4. StagesAgree'
    BY <1>1, <1>2, <1>4, <1>5, <2>1, <2>3 DEF StagesAgree, Stage, Ticking
  <2> QED
    BY <1>1, <1>2, <1>3, <1>4, <1>5, <2>1, <2>3, <2>4, QuietStep
<1>6. CASE display' = StageStart(display, "Verify") /\ stage = "retry" /\ stage' = "Verify"
  <2>1. PICK f : f = StageStart(d, "Verify")
    OBVIOUS
  <2>2. "Verify" \in Ticking
    BY DEF Ticking
  <2>3. /\ GoodDisplay(f, said) /\ f.active = d.active /\ f.stageLabel = "Verify"
        /\ f.entries = d.entries
    BY <1>1, <1>4, <2>1, <2>2, StageStartIs
  <2>4. StagesAgree'
    BY <1>1, <1>2, <1>4, <1>6, <2>1, <2>3 DEF StagesAgree, Stage, Ticking
  <2> QED
    BY <1>1, <1>2, <1>3, <1>4, <1>6, <2>1, <2>3, <2>4, QuietStep
<1>7. CASE display' = display /\ stage \in {"approval", "retry"} /\ stage' = "done"
  <2>1. StagesAgree'
    BY <1>1, <1>2, <1>7 DEF StagesAgree, Stage, Ticking
  <2> QED
    BY <1>1, <1>2, <1>3, <1>7, <2>1, QuietStep
<1> QED
  BY <1>5, <1>6, <1>7 DEF PlanEnds, Refused, VerifyEnds, Recheck

LEMMA TickSteps ==
  ASSUME DisplayIInv, StageTick \/ DagTick
  PROVE  DisplayIInv'
<1>1. GoodDisplay(display, said) /\ said \in Nat /\ StagesAgree
  BY DEF DisplayIInv
<1>2. UNCHANGED <<vars, said, stage>>
  BY DEF StageTick, DagTick
<1>3. UNCHANGED <<plan, dag, state, phase, attempt, skippedIndices, isShuttingDown>>
  BY <1>2 DEF vars
<1>4. IInv'
  BY <1>3, OtherStepsKeepIInv DEF DisplayIInv
<1>5. PICK d : d = display
  OBVIOUS
<1>6. GoodDisplay(display', said) /\ SameRun(display', d)
  <2>1. CASE StageTick
    BY <1>1, <1>5, <2>1, StageTickIs DEF StageTick
  <2>2. CASE DagTick
    BY <1>1, <1>5, <2>2, DagTickIs DEF DagTick
  <2> QED
    BY <2>1, <2>2
<1>7. StagesAgree'
  BY <1>1, <1>2, <1>3, <1>5, <1>6 DEF StagesAgree, SameRun
<1> QED
  BY <1>1, <1>2, <1>3, <1>4, <1>5, <1>6, <1>7, QuietStep DEF SameRun

LEMMA SaySteps ==
  ASSUME DisplayIInv, Status \/ ShutdownShown
  PROVE  DisplayIInv'
<1>1. GoodDisplay(display, said) /\ said \in Nat /\ StagesAgree
  BY DEF DisplayIInv
<1>2. /\ UNCHANGED <<plan, dag, state, phase, attempt, skippedIndices, stage>>
      /\ isShuttingDown' \in {isShuttingDown, TRUE}
      /\ said' = said + 1 /\ display' = WriteStatus(display, Line("status", said'))
  BY DEF Status, ShutdownShown, Say, vars
<1>3. IInv'
  BY <1>2, OtherStepsKeepIInv DEF DisplayIInv
<1>4. PICK d, n : d = display /\ n = said /\ n \in Nat
  BY <1>1
<1>5. PICK f : f = WriteStatus(d, Line("status", n + 1))
  OBVIOUS
<1>6. GoodDisplay(f, n + 1) /\ SameRun(f, d)
  BY <1>1, <1>4, <1>5, WriteStatusIs
<1>7. StagesAgree'
  BY <1>1, <1>2, <1>4, <1>5, <1>6 DEF StagesAgree, SameRun
<1> QED
  BY <1>1, <1>2, <1>3, <1>4, <1>5, <1>6, <1>7, QuietStep DEF SameRun
-----------------------------------------------------------------------------
(***************************************************************************)
(* Steps of runDAG, which show what became of the subtasks.                *)
(***************************************************************************)
LEMMA ShownStep ==
  ASSUME DisplayIInv, IInv', UNCHANGED <<plan, dag, stage, said>>, dag = "racing",
         GoodDisplay(display', said), SameStage(display', display),
         \A t \in Subtasks : display'.entries[t] = Expected(t)'
  PROVE  DisplayIInv'
<1>1. GoodDisplay(display, said)'
  BY SamePlan
<1>2. EntriesAgree' /\ NothingBefore'
  BY DEF EntriesAgree, NothingBefore
<1>3. StagesAgree'
  BY DEF DisplayIInv, StagesAgree, SameStage
<1> QED
  BY <1>1, <1>2, <1>3 DEF DisplayIInv

\* While runDAG races, the display is active.
LEMMA ShownWhileRacing ==
  ASSUME DisplayIInv, NEW t \in Subtasks, phase[t] \in InMap
  PROVE  /\ dag = "racing" /\ display.active /\ said \in Nat /\ GoodDisplay(display, said)
         /\ IInv /\ \A u \in Subtasks : display.entries[u] = Expected(u)
<1>1. dag = "racing"
  BY InMapWhileRacing DEF DisplayIInv
<1> QED
  BY <1>1 DEF DisplayIInv, StagesAgree, EntriesAgree

LEMMA AttemptSucceedsKeeps ==
  ASSUME DisplayIInv, NEW t \in Subtasks, AttemptSucceedsShown(t)
  PROVE  DisplayIInv'
<1>1. /\ phase[t] = "executing" /\ phase' = [phase EXCEPT ![t] = "resolved"]
      /\ UNCHANGED <<plan, dag, state, stage, display, said>>
  BY DEF AttemptSucceedsShown, AttemptSucceeds
<1>2. IInv'
  BY AttemptKeepsIInv DEF AttemptSucceedsShown, DisplayIInv
<1>3. /\ dag = "racing" /\ GoodDisplay(display, said)
      /\ IInv /\ \A u \in Subtasks : display.entries[u] = Expected(u)
  BY <1>1, ShownWhileRacing DEF InMap
<1>4. \A u \in Subtasks : Expected(u)' = Expected(u)
  <2>1. state[t] = "pending" /\ phase \in [Subtasks -> Phase]
    BY <1>1, <1>3 DEF IInv, StateAgreesWithPhase, TypeOK
  <2> QED
    BY <1>1, <2>1 DEF Expected, Failed, Skipped
<1> QED
  BY <1>1, <1>2, <1>3, <1>4, ShownStep DEF SameStage

LEMMA AttemptFailsKeeps ==
  ASSUME DisplayIInv, NEW t \in Subtasks, NEW r \in BOOLEAN, AttemptFailsShown(t, r)
  PROVE  DisplayIInv'
<1>1. /\ phase[t] = "executing" /\ UNCHANGED <<plan, dag, state, stage, said>>
      /\ display' = IF phase'[t] = "executing" THEN HandleEvent(display, Event("running", t))
                                               ELSE display
  BY DEF AttemptFailsShown, AttemptFails
<1>2. IInv'
  BY AttemptKeepsIInv DEF AttemptFailsShown, DisplayIInv
<1>3. /\ dag = "racing" /\ display.active /\ said \in Nat /\ GoodDisplay(display, said)
      /\ IInv /\ \A u \in Subtasks : display.entries[u] = Expected(u)
  BY <1>1, ShownWhileRacing DEF InMap
<1>4. \A u \in Subtasks : Expected(u)' = Expected(u)
  <2>1. state[t] = "pending" /\ phase \in [Subtasks -> Phase]
    BY <1>1, <1>3 DEF IInv, StateAgreesWithPhase, TypeOK
  <2>2. \E p \in {"executing", "rejected"} : phase' = [phase EXCEPT ![t] = p]
    BY <1>1, <2>1 DEF AttemptFailsShown, AttemptFails
  <2> QED
    BY <1>1, <2>1, <2>2 DEF Expected, Failed, Skipped
<1>5. display.entries[t] = "running"
  BY <1>1, <1>3, EntryIs
<1>6. CASE phase'[t] = "executing"
  <2>1. PICK d, n : d = display /\ n = said /\ n \in Nat
    BY <1>3
  <2>2. PICK f : f = HandleEvent(d, Event("running", t))
    OBVIOUS
  <2>3. "running" \in Begun
    BY DEF Begun
  <2>4. /\ GoodDisplay(f, n) /\ f.isTTY = d.isTTY /\ f.active = d.active
        /\ f.stageLabel = d.stageLabel /\ f.entries = Entered(d.entries, "running", {t})
    <3>1. GoodDisplay(d, n) /\ d.active /\ (d.entries[t] \in Final => "running" = d.entries[t])
      BY <1>3, <1>5, <2>1
    <3> QED
      BY <2>1, <2>2, <2>3, <3>1, HandleEventIs
  <2>5. \A u \in Subtasks : f.entries[u] = Expected(u)'
    BY <1>3, <1>4, <1>5, <2>1, <2>4 DEF Entered
  <2> QED
    BY <1>1, <1>2, <1>3, <1>6, <2>1, <2>2, <2>4, <2>5, ShownStep DEF SameStage
<1>7. CASE phase'[t] # "executing"
  BY <1>1, <1>2, <1>3, <1>4, <1>7, ShownStep DEF SameStage
<1> QED
  BY <1>6, <1>7

LEMMA OnResolvedKeeps ==
  ASSUME DisplayIInv, NEW t \in Subtasks, OnResolvedShown(t)
  PROVE  DisplayIInv'
<1>1. /\ phase[t] = "resolved" /\ UNCHANGED <<plan, dag, stage, said>>
      /\ state' = [state EXCEPT ![t] = "complete"] /\ phase' = [phase EXCEPT ![t] = "settled"]
      /\ display' = HandleEvent(display, Event("completed", t))
  BY DEF OnResolvedShown, OnResolved
<1>2. IInv'
  BY OnResolvedKeepsIInv DEF OnResolvedShown, DisplayIInv
<1>3. /\ dag = "racing" /\ display.active /\ said \in Nat /\ GoodDisplay(display, said)
      /\ IInv /\ \A u \in Subtasks : display.entries[u] = Expected(u)
  BY <1>1, ShownWhileRacing DEF InMap
<1>4. display.entries[t] = "running"
  BY <1>1, <1>3, EntryIs
<1>5. \A u \in Subtasks : Expected(u)' = IF u = t THEN "completed" ELSE Expected(u)
  <2>1. state \in [Subtasks -> ResolverState] /\ phase \in [Subtasks -> Phase]
    BY <1>3 DEF IInv, TypeOK
  <2>2. Expected(t)' = "completed"
    BY <1>1, <2>1 DEF Expected
  <2>3. \A u \in Subtasks : u # t => Expected(u)' = Expected(u)
    BY <1>1, <2>1 DEF Expected, Failed, Skipped
  <2> QED
    BY <2>2, <2>3
<1>6. PICK d, n : d = display /\ n = said /\ n \in Nat
  BY <1>3
<1>7. PICK f : f = HandleEvent(d, Event("completed", t))
  OBVIOUS
<1>8. "completed" \in Begun
  BY DEF Begun, Final
<1>9. /\ GoodDisplay(f, n) /\ f.isTTY = d.isTTY /\ f.active = d.active
      /\ f.stageLabel = d.stageLabel /\ f.entries = Entered(d.entries, "completed", {t})
  <2>1. GoodDisplay(d, n) /\ d.active /\ (d.entries[t] \in Final => "completed" = d.entries[t])
    BY <1>3, <1>4, <1>6 DEF Final
  <2> QED
    BY <1>6, <1>7, <1>8, <2>1, HandleEventIs
<1>10. \A u \in Subtasks : f.entries[u] = Expected(u)'
  BY <1>3, <1>5, <1>6, <1>9 DEF Entered
<1> QED
  BY <1>1, <1>2, <1>3, <1>6, <1>7, <1>9, <1>10, ShownStep DEF SameStage

LEMMA OnRejectedKeeps ==
  ASSUME DisplayIInv, NEW t \in Subtasks, OnRejectedShown(t)
  PROVE  DisplayIInv'
<1> DEFINE D == Downstream(plan, t)
<1>1. /\ phase[t] = "rejected" /\ UNCHANGED <<plan, dag, stage, said>>
      /\ state' = [u \in Subtasks |-> IF u = t \/ u \in D THEN "skipped" ELSE state[u]]
      /\ phase' = [phase EXCEPT ![t] = "settled"]
      /\ display' = HandleEach(HandleEvent(display, Event("failed", t)), "skipped", D)
  BY DEF OnRejectedShown, OnRejected, MarkSkipped
<1>2. IInv'
  BY OnRejectedKeepsIInv DEF OnRejectedShown, DisplayIInv
<1>3. /\ dag = "racing" /\ display.active /\ said \in Nat /\ GoodDisplay(display, said)
      /\ IInv /\ \A u \in Subtasks : display.entries[u] = Expected(u)
  BY <1>1, ShownWhileRacing DEF InMap
<1>4. display.entries[t] = "running"
  BY <1>1, <1>3, EntryIs
<1>5. \A u \in D : u \in Subtasks /\ u # t /\ phase[u] = "idle" /\ state[u] # "complete"
  <2>1. state[t] = "pending"
    BY <1>1, <1>3 DEF IInv, StateAgreesWithPhase
  <2> QED
    BY <1>1, <1>3, <2>1, CascadeHitsOnlyIdle DEF IInv
<1> HIDE DEF D
<1>6. \A u \in Subtasks : Expected(u)' = IF u = t THEN "failed"
                                         ELSE IF u \in D THEN "skipped" ELSE Expected(u)
  <2>1. phase \in [Subtasks -> Phase]
    BY <1>3 DEF IInv, TypeOK
  <2>2. Expected(t)' = "failed"
    BY <1>1, <2>1 DEF Expected, Failed, Skipped
  <2>3. \A u \in D : Expected(u)' = "skipped"
    BY <1>1, <1>5, <2>1 DEF Expected, Failed, Skipped
  <2>4. \A u \in Subtasks : u # t /\ u \notin D => Expected(u)' = Expected(u)
    BY <1>1, <2>1 DEF Expected, Failed, Skipped
  <2> QED
    BY <2>2, <2>3, <2>4
<1>7. \A u \in D : display.entries[u] \in Final => display.entries[u] = "skipped"
  <2> SUFFICES ASSUME NEW u \in D, display.entries[u] \in Final
               PROVE  display.entries[u] = "skipped"
    OBVIOUS
  <2>1. u \in Subtasks /\ phase[u] = "idle" /\ state[u] # "complete"
    BY <1>5
  <2>2. u \notin Failed
    BY <2>1 DEF Failed
  <2> QED
    BY <1>3, <2>1, <2>2, EntryIs DEF Final
<1>8. PICK d, n : d = display /\ n = said /\ n \in Nat
  BY <1>3
<1>9. PICK f : f = HandleEvent(d, Event("failed", t))
  OBVIOUS
<1>10. {"failed", "skipped"} \subseteq Begun
  BY DEF Begun, Final
<1>11. /\ GoodDisplay(f, n) /\ f.isTTY = d.isTTY /\ f.active = d.active
       /\ f.stageLabel = d.stageLabel /\ f.entries = Entered(d.entries, "failed", {t})
  <2>1. /\ GoodDisplay(d, n) /\ d.active /\ "failed" \in Begun
        /\ d.entries[t] \in Final => "failed" = d.entries[t]
    BY <1>3, <1>4, <1>8, <1>10 DEF Final
  <2> QED
    BY <1>8, <1>9, <2>1, HandleEventIs
<1>12. PICK g : g = HandleEach(f, "skipped", D)
  OBVIOUS
<1>13. GoodDisplay(g, n) /\ SameStage(g, f) /\ g.entries = Entered(f.entries, "skipped", D)
  <2>1. D \in SUBSET Subtasks /\ "skipped" \in Begun /\ f.active /\ GoodDisplay(f, n)
    BY <1>3, <1>5, <1>8, <1>10, <1>11
  <2>2. \A u \in D : f.entries[u] \in Final => "skipped" = f.entries[u]
    BY <1>5, <1>7, <1>8, <1>11 DEF Entered
  <2> QED
    BY <1>8, <1>12, <2>1, <2>2, HandleEachIs
<1>14. \A u \in Subtasks : g.entries[u] = Expected(u)'
  BY <1>3, <1>5, <1>6, <1>8, <1>11, <1>13 DEF Entered
<1>15. display' = g
  BY <1>1, <1>8, <1>9, <1>12
<1>16. SameStage(g, d)
  BY <1>11, <1>13 DEF SameStage
<1> QED
  BY <1>1, <1>2, <1>3, <1>8, <1>13, <1>14, <1>15, <1>16, ShownStep

-----------------------------------------------------------------------------
(***************************************************************************)
(* Launches: the display shows the subtasks that tryLaunch has launched.   *)
(***************************************************************************)
LEMMA LaunchesAre ==
  ASSUME IInv, NEW before \in [Subtasks -> Phase], NEW busy \in SUBSET Subtasks,
         \A t \in Subtasks :
            \/ before[t] = phase[t]
            \/ phase[t] = "settled" /\ before[t] = "retired",
         busy = {t \in Subtasks : before[t] \in InMap},
         Cardinality(busy) <= MaxConcurrency,
         TryLaunch(before, state, busy), UNCHANGED state, dag' = "racing"
  PROVE  \A t \in Subtasks :
            /\ t \in Launches => Expected(t) \in {"absent", "waiting"}
            /\ Expected(t)' = IF t \in Launches THEN "running"
                              ELSE IF Expected(t) = "absent" THEN "waiting" ELSE Expected(t)
<1>1. PICK L \in SUBSET (Ready(plan, state) \ busy) : Launched(before, busy, L)
  BY TryLaunchEffect DEF IInv
<1>2. \A t \in Subtasks : phase'[t] = IF t \in L THEN "executing" ELSE before[t]
  BY <1>1 DEF Launched
<1>3. ASSUME NEW t \in Subtasks
      PROVE  /\ t \in Launches => Expected(t) \in {"absent", "waiting"}
             /\ Expected(t)' = IF t \in Launches THEN "running"
                               ELSE IF Expected(t) = "absent" THEN "waiting" ELSE Expected(t)
  <2>1. /\ state[t] \in ResolverState /\ phase[t] \in Phase /\ state'[t] = state[t]
        /\ phase[t] = "idle" => state[t] \in {"pending", "skipped"}
        /\ phase[t] \in {"executing", "resolved", "rejected"} => state[t] = "pending"
        /\ phase[t] \in {"settled", "retired"} => state[t] \in {"complete", "skipped"}
    BY DEF IInv, TypeOK, StateAgreesWithPhase
  <2>2. CASE t \in L
    <3>1. state[t] = "pending" /\ before[t] \notin InMap
      BY <2>2 DEF Ready
    <3>2. phase[t] = "idle" /\ phase'[t] = "executing"
      BY <1>2, <2>1, <2>2, <3>1 DEF Phase, InMap
    <3>3. t \in Launches
      BY <3>2 DEF Launches
    <3>4. Expected(t) \in {"absent", "waiting"}
      BY <3>1, <3>2 DEF Expected
    <3>5. Expected(t)' = "running"
      BY <2>1, <3>1, <3>2 DEF Expected
    <3> QED
      BY <3>3, <3>4, <3>5
  <2>3. CASE t \notin L
    <3>1. phase'[t] = phase[t] \/ (phase[t] = "settled" /\ phase'[t] = "retired")
      BY <1>2, <2>3
    <3>2. t \notin Launches
      BY <3>1 DEF Launches
    <3>3. (t \in Failed)' <=> t \in Failed
      BY <2>1, <3>1 DEF Failed, Skipped
    <3>4. CASE state[t] = "complete"
      BY <2>1, <3>2, <3>4 DEF Expected
    <3>5. CASE state[t] = "skipped"
      BY <2>1, <3>2, <3>3, <3>5 DEF Expected
    <3>6. CASE state[t] = "pending"
      <4>1. phase'[t] = phase[t]
        BY <2>1, <3>1, <3>6
      <4> QED
        BY <2>1, <3>2, <3>6, <4>1 DEF Expected
    <3> QED
      BY <2>1, <3>4, <3>5, <3>6 DEF ResolverState
  <2> QED
    BY <2>2, <2>3
<1> QED
  BY <1>3

LEMMA FinallyKeeps ==
  ASSUME DisplayIInv, NEW t \in Subtasks, FinallyShown(t)
  PROVE  DisplayIInv'
<1>1. /\ phase[t] = "settled" /\ UNCHANGED <<plan, dag, state, stage, said>>
      /\ display' = HandleEach(display, "running", Launches)
  BY DEF FinallyShown, Finally
<1>2. IInv'
  BY FinallyKeepsIInv DEF FinallyShown, DisplayIInv
<1>3. /\ dag = "racing" /\ display.active /\ said \in Nat /\ GoodDisplay(display, said)
      /\ IInv /\ \A u \in Subtasks : display.entries[u] = Expected(u)
  BY <1>1, ShownWhileRacing DEF InMap
<1>4. PICK before \in [Subtasks -> Phase], busy \in SUBSET Subtasks : FreesSlot(t, before, busy)
  BY <1>3, FinallyFreesSlot DEF FinallyShown
<1>5. TryLaunch(before, state, busy)
  BY <1>4 DEF FinallyShown, Finally, FreesSlot
<1>6. \A u \in Subtasks :
        /\ u \in Launches => Expected(u) \in {"absent", "waiting"}
        /\ Expected(u)' = IF u \in Launches THEN "running"
                          ELSE IF Expected(u) = "absent" THEN "waiting" ELSE Expected(u)
  BY <1>1, <1>3, <1>4, <1>5, LaunchesAre DEF FreesSlot
<1>7. PICK d, n, S : d = display /\ n = said /\ n \in Nat /\ S = Launches
  BY <1>3
<1>8. S \in SUBSET Subtasks
  BY <1>7 DEF Launches
<1>9. PICK f : f = HandleEach(d, "running", S)
  OBVIOUS
<1>10. GoodDisplay(f, n) /\ SameStage(f, d) /\ f.entries = Entered(d.entries, "running", S)
  <2>1. GoodDisplay(d, n) /\ d.active /\ n \in Nat /\ "running" \in Begun
    BY <1>3, <1>7 DEF Begun
  <2>2. \A u \in S : d.entries[u] \in Final => "running" = d.entries[u]
    BY <1>3, <1>6, <1>7, <1>8 DEF Final
  <2> QED
    BY <1>8, <1>9, <2>1, <2>2, HandleEachIs
<1>11. \A u \in Subtasks : f.entries[u] = Expected(u)'
  <2>1. \A u \in Subtasks : Expected(u) # "absent"
    BY <1>3, EntryIs
  <2> QED
    BY <1>3, <1>6, <1>7, <1>10, <2>1 DEF Entered
<1>12. display' = f
  BY <1>1, <1>7, <1>9
<1> QED
  BY <1>1, <1>2, <1>3, <1>7, <1>10, <1>11, <1>12, ShownStep

-----------------------------------------------------------------------------
(***************************************************************************)
(* The steps with which the DAG begins and ends.                           *)
(***************************************************************************)
LEMMA BeginKeeps == ASSUME DisplayIInv, BeginShown PROVE DisplayIInv'
<1>1. /\ stage = "approval" /\ stage' = "Execute" /\ Begin /\ said' = said + 1
      /\ dag = "entered" /\ dag' = "racing" /\ UNCHANGED <<plan, state>>
      /\ display' =
           HandleEach(HandleEvent(WriteStatus(StageStart(display, "Execute"), Line("status", said')),
                                  [type |-> "dag-start"]), "running", Launches)
  BY DEF BeginShown, Begin
<1>2. IInv /\ said \in Nat /\ GoodDisplay(display, said) /\ EntriesAgree /\ StagesAgree
      /\ NothingBefore
  BY DEF DisplayIInv
<1>3. IInv'
  BY <1>1, <1>2, BeginKeepsIInv
<1>4. \A u \in Subtasks :
        /\ state[u] = "pending" /\ phase[u] = "idle"
        /\ Expected(u) = "absent" /\ display.entries[u] = "absent"
  BY <1>1, <1>2 DEF NothingBefore, EntriesAgree, Expected
<1>5. \A u \in Subtasks : Expected(u)' = IF u \in Launches THEN "running" ELSE "waiting"
  <2>1. PICK before : before = phase
    OBVIOUS
  <2>2. {u \in Subtasks : before[u] \in InMap} = {}
    BY <1>4, <2>1 DEF InMap
  <2>3. before \in [Subtasks -> Phase] /\ Cardinality({}) <= MaxConcurrency
    BY <1>2, <2>1, DagAssumption, FS_EmptySet DEF IInv, TypeOK
  <2>4. TryLaunch(before, state, {})
    BY <1>1, <2>1 DEF Begin
  <2> QED
    BY <1>1, <1>2, <1>4, <2>1, <2>2, <2>3, <2>4, LaunchesAre
<1>6. PICK d, n, S : d = display /\ n = said /\ n \in Nat /\ S = Launches
  BY <1>2
<1>7. PICK e : e = StageStart(d, "Execute")
  OBVIOUS
<1>8. /\ GoodDisplay(e, n) /\ e.stageLabel = "Execute" /\ e.entries = d.entries
  <2>1. "Execute" \in Ticking /\ GoodDisplay(d, n)
    BY <1>2, <1>6 DEF Ticking
  <2> QED
    BY <1>6, <1>7, <2>1, StageStartIs
<1>9. PICK f : f = WriteStatus(e, Line("status", n + 1))
  OBVIOUS
<1>10. GoodDisplay(f, n + 1) /\ SameRun(f, e)
  BY <1>6, <1>8, <1>9, WriteStatusIs
<1>11. PICK g : g = HandleEvent(f, [type |-> "dag-start"])
  OBVIOUS
<1>12. PICK k \in Nat : k = n + 1
  BY <1>6
<1>13. /\ GoodDisplay(g, k) /\ g.active = TRUE /\ g.stageLabel = f.stageLabel
       /\ \A u \in Subtasks : g.entries[u] = "waiting"
  <2>1. GoodDisplay(f, k) /\ \A u \in Subtasks : f.entries[u] = "absent"
    BY <1>4, <1>6, <1>8, <1>10, <1>12 DEF SameRun
  <2>2. /\ GoodDisplay(HandleEvent(f, [type |-> "dag-start"]), k)
        /\ HandleEvent(f, [type |-> "dag-start"]).active = TRUE
        /\ HandleEvent(f, [type |-> "dag-start"]).stageLabel = f.stageLabel
        /\ \A u \in Subtasks : HandleEvent(f, [type |-> "dag-start"]).entries[u] = "waiting"
    BY <2>1, DagStartIs, Zenon
  <2> QED
    BY <1>11, <2>2
<1>14. PICK h : h = HandleEach(g, "running", S)
  OBVIOUS
<1>15. GoodDisplay(h, k) /\ SameStage(h, g) /\ h.entries = Entered(g.entries, "running", S)
  <2>1. S \in SUBSET Subtasks /\ g.active /\ "running" \in Begun
    BY <1>6, <1>13 DEF Launches, Begun
  <2>2. \A u \in S : g.entries[u] \in Final => "running" = g.entries[u]
    BY <1>13, <2>1 DEF Final
  <2> QED
    BY <1>13, <1>14, <2>1, <2>2, HandleEachIs
<1>16. display' = h /\ said' = k
  BY <1>1, <1>6, <1>7, <1>9, <1>11, <1>12, <1>14
<1>17. GoodDisplay(display, said)'
  BY <1>1, <1>15, <1>16, SamePlan
<1>18. EntriesAgree'
  <2>1. \A u \in Subtasks : h.entries[u] = IF u \in Launches THEN "running" ELSE "waiting"
    BY <1>6, <1>13, <1>15 DEF Entered
  <2> QED
    BY <1>5, <1>16, <2>1 DEF EntriesAgree
<1>19. StagesAgree'
  <2>1. h.stageLabel = "Execute" /\ h.active = TRUE
    BY <1>8, <1>10, <1>13, <1>15 DEF SameStage, SameRun
  <2> QED
    BY <1>1, <1>16, <2>1 DEF StagesAgree, Stage, Ticking
<1>20. NothingBefore'
  BY <1>1 DEF NothingBefore
<1> QED
  BY <1>3, <1>12, <1>16, <1>17, <1>18, <1>19, <1>20 DEF DisplayIInv

LEMMA DagCompleteKeeps == ASSUME DisplayIInv, DagCompleteShown PROVE DisplayIInv'
<1> DEFINE over == StageEnd(HandleEvent(display, [type |-> "dag-complete"]))
<1>1. /\ DagComplete /\ dag = "racing" /\ dag' = "done" /\ Running = {}
      /\ UNCHANGED <<plan, state, phase, said>>
      /\ \/ stage' = "done" /\ display' = over
         \/ stage' = "Verify" /\ display' = StageStart(over, "Verify")
  BY DEF DagCompleteShown, DagComplete
<1>2. IInv /\ said \in Nat /\ GoodDisplay(display, said) /\ EntriesAgree /\ StagesAgree
  BY DEF DisplayIInv
<1>3. IInv'
  BY <1>1, <1>2, OtherStepsKeepIInv
<1>4. PICK d, n : d = display /\ n = said /\ n \in Nat
  BY <1>2
<1>5. PICK f : f = over /\ f = StageEnd(HandleEvent(d, [type |-> "dag-complete"]))
  BY <1>4
<1>6. \A u \in Subtasks : d.entries[u] # "running"
  <2>1. \A u \in Subtasks : phase[u] \notin InMap
    BY <1>1 DEF Running
  <2> QED
    BY <1>2, <1>4, <2>1, EntryIs DEF EntriesAgree, InMap
<1>7. /\ GoodDisplay(f, n) /\ f.active = FALSE /\ f.stageLabel = "none"
      /\ f.entries = d.entries
  <2>1. GoodDisplay(d, n)
    BY <1>2, <1>4
  <2> QED
    BY <1>4, <1>5, <1>6, <2>1, DagCompleteIs
<1> HIDE DEF over
<1>8. PICK g : g = StageStart(f, "Verify")
  OBVIOUS
<1>9. /\ GoodDisplay(g, n) /\ g.active = f.active /\ g.stageLabel = "Verify"
      /\ g.entries = f.entries
  <2>1. "Verify" \in Ticking
    BY DEF Ticking
  <2> QED
    BY <1>4, <1>7, <1>8, <2>1, StageStartIs
<1>10. \/ stage' = "done" /\ display' = f
       \/ stage' = "Verify" /\ display' = g
  BY <1>1, <1>5, <1>8
<1>11. GoodDisplay(display, said)'
  <2>1. GoodDisplay(display', said')
    BY <1>1, <1>4, <1>7, <1>9, <1>10
  <2> QED
    BY <1>1, <2>1, SamePlan
<1>12. EntriesAgree'
  <2>1. \A u \in Subtasks : Expected(u)' = Expected(u)
    BY <1>1 DEF Expected, Failed, Skipped
  <2> QED
    BY <1>2, <1>4, <1>7, <1>9, <1>10, <2>1 DEF EntriesAgree
<1>13. StagesAgree'
  BY <1>1, <1>7, <1>9, <1>10 DEF StagesAgree, Stage, Ticking
<1>14. NothingBefore'
  BY <1>1 DEF NothingBefore
<1> QED
  BY <1>1, <1>2, <1>3, <1>11, <1>12, <1>13, <1>14 DEF DisplayIInv

-----------------------------------------------------------------------------
(***************************************************************************)
(* The invariant of the composition is inductive.                          *)
(***************************************************************************)
LEMMA DisplayInitIInv == DisplayInit => DisplayIInv
<1> SUFFICES ASSUME DisplayInit PROVE DisplayIInv
  OBVIOUS
<1>1. Init /\ stage = "Plan" /\ said = 0
  BY DEF DisplayInit
<1>2. PICK tty \in BOOLEAN :
        display = StageStart(
          [isTTY |-> tty, active |-> FALSE, stageLabel |-> "none", zone |-> 0,
           entries |-> [t \in Subtasks |-> "absent"], last |-> [t \in Subtasks |-> "absent"],
           printed |-> {}, screen |-> <<>>], "Plan")
  BY DEF DisplayInit
<1>3. /\ GoodDisplay(display, 0) /\ display.active = FALSE /\ display.stageLabel = "Plan"
      /\ \A t \in Subtasks : display.entries[t] = "absent"
  BY <1>2, FirstLine
<1>4. NothingBefore /\ dag = "entered" /\ \A t \in Subtasks : state[t] = "pending" /\ phase[t] = "idle"
  BY <1>1 DEF Init, NothingBefore
<1>5. EntriesAgree
  BY <1>3, <1>4 DEF EntriesAgree, Expected
<1>6. StagesAgree
  BY <1>1, <1>3, <1>4 DEF StagesAgree, Stage, Ticking
<1>7. IInv
  BY <1>1, InitIInv
<1> QED
  BY <1>1, <1>3, <1>4, <1>5, <1>6, <1>7 DEF DisplayIInv

LEMMA DisplayStep == DisplayIInv /\ [DisplayNext]_displayVars => DisplayIInv'
<1> SUFFICES ASSUME DisplayIInv, [DisplayNext]_displayVars PROVE DisplayIInv'
  OBVIOUS
<1>1. CASE PlanEnds \/ Refused \/ VerifyEnds \/ Recheck
  BY <1>1, StageSteps
<1>2. CASE StageTick \/ DagTick
  BY <1>2, TickSteps
<1>3. CASE Status \/ ShutdownShown
  BY <1>3, SaySteps
<1>4. CASE BeginShown
  BY <1>4, BeginKeeps
<1>5. CASE DagCompleteShown
  BY <1>5, DagCompleteKeeps
<1>6. ASSUME NEW t \in Subtasks, AttemptSucceedsShown(t) PROVE DisplayIInv'
  BY <1>6, AttemptSucceedsKeeps
<1>7. ASSUME NEW t \in Subtasks, NEW r \in BOOLEAN, AttemptFailsShown(t, r) PROVE DisplayIInv'
  BY <1>7, AttemptFailsKeeps
<1>8. ASSUME NEW t \in Subtasks, OnResolvedShown(t) PROVE DisplayIInv'
  BY <1>8, OnResolvedKeeps
<1>9. ASSUME NEW t \in Subtasks, OnRejectedShown(t) PROVE DisplayIInv'
  BY <1>9, OnRejectedKeeps
<1>10. ASSUME NEW t \in Subtasks, FinallyShown(t) PROVE DisplayIInv'
  BY <1>10, FinallyKeeps
<1>11. CASE UNCHANGED displayVars
  <2>1. UNCHANGED <<plan, dag, state, phase, attempt, skippedIndices, isShuttingDown>>
        /\ UNCHANGED <<stage, display, said>>
    BY <1>11 DEF displayVars, vars
  <2>2. IInv' /\ GoodDisplay(display', said')
    BY <2>1, OtherStepsKeepIInv DEF DisplayIInv
  <2>3. StagesAgree'
    BY <2>1 DEF DisplayIInv, StagesAgree
  <2> QED
    BY <2>1, <2>2, <2>3, QuietStep DEF DisplayIInv
<1> QED
  BY <1>1, <1>2, <1>3, <1>4, <1>5, <1>6, <1>7, <1>8, <1>9, <1>10, <1>11 DEF DisplayNext

(***************************************************************************)
(* Whatever order the events of runDAG, the two tickers and the status     *)
(* lines come in, DisplayIInv holds: the display agrees with the scheduler *)
(* and its screen with itself.                                             *)
(***************************************************************************)
THEOREM DisplayInvariance == DisplaySpec => []DisplayIInv
BY DisplayInitIInv, DisplayStep, PTL DEF DisplaySpec

(***************************************************************************)
(* What became of a subtask is on the screen once, from the step that      *)
(* settles it on: no erasure of a zone reaches it and no later rendering   *)
(* repeats it, on a terminal (printedIndices) or not (lastNonTTYState).      *)
(***************************************************************************)
THEOREM OutcomesAreShownOnce == DisplaySpec => []OutcomesStay
BY DisplayInvariance, OutcomesStayHolds, PTL

(***************************************************************************)
(* On a terminal the lines above the zone are those printed to stay, with  *)
(* the status lines in their order, and the zone shows what runs now, or   *)
(* the stage, although four parties erase and write it.                    *)
(***************************************************************************)
THEOREM ScreenAlwaysRight == DisplaySpec => []ScreenIsRight
BY DisplayInvariance, ScreenIsRightHolds, PTL
=============================================================================
