------------------------- MODULE TaskLifecycleProofs ------------------------
(***************************************************************************)
(* Proofs about TaskLifecycle, for any tasks and any number of slots.      *)
(*                                                                         *)
(* The queue, the slots, the statuses and the runs are written by three    *)
(* classes, and agree only together: that a queued task has no run is what *)
(* keeps drain from giving it a second slot, and that a slot belongs to a  *)
(* run is what gives it back.                                              *)
(***************************************************************************)
EXTENDS TaskLifecycle, FiniteSetTheorems, SequenceTheorems, TLAPS

Elems(q) == {q[i] : i \in 1 .. Len(q)}

NoDup(q) == \A i, j \in 1 .. Len(q) : q[i] = q[j] => i = j

\* What a status s and a run r of a task say of each other; down, if it was
\* shut down.
Match(s, r, down) ==
  /\ s \in {"absent", "todo", "queued"} => r = "none"
  /\ s \in {"completed", "failed"} => r = "ended"
  /\ r = "ended" => s \in {"completed", "failed", "cancelled"}
  /\ s = "awaiting_approval" => r = "asking"
  /\ r = "asking" /\ ~ down => s = "awaiting_approval"
  /\ r = "active" /\ ~ down => s = "running"
  /\ r = "refused" => s = "cancelled"

\* A refused run has cancelled its task.
RefusedIsCancelled == \A t \in Tasks : run[t] = "refused" => status[t] = "cancelled"

IInv ==
  /\ TypeOK
  /\ QueueMatchesStatus
  /\ SlotsWellUsed
  /\ NoSlotLeak
  /\ StatusMatchesRun
  /\ RefusedIsCancelled

\* What holds before drain starts anything: slots may be free.
Drainable(q, held, st, rn, down) ==
  /\ q \in Seq(Tasks) /\ NoDup(q) /\ Elems(q) = {t \in Tasks : st[t] = "queued"}
  /\ held \in SUBSET Tasks /\ Cardinality(held) <= MaxConcurrent
  /\ st \in [Tasks -> Status] /\ rn \in [Tasks -> RunState] /\ down \in SUBSET Tasks
  /\ \A t \in held : rn[t] \in Live \cup {"failing"}
  /\ \A t \in Tasks : rn[t] \in Live /\ t \notin down => t \in held
  /\ \A t \in Tasks : Match(st[t], rn[t], t \in down)

\* Nothing in q is started before what is in front of it.
InOrder(q) ==
  \A i, j \in 1 .. Len(q) : i < j /\ status'[q[j]] = "running" => status'[q[i]] # "queued"

-----------------------------------------------------------------------------
(***************************************************************************)
(* What drain starts.                                                      *)
(***************************************************************************)
LEMMA StartedIs ==
  ASSUME NEW q \in Seq(Tasks), NoDup(q), NEW held \in SUBSET Tasks,
         Cardinality(held) <= MaxConcurrent
  PROVE  \E k \in 0 .. Len(q) :
           /\ Started(q, held) = {q[i] : i \in 1 .. k}
           /\ IsFiniteSet(Started(q, held)) /\ Cardinality(Started(q, held)) = k
           /\ Cardinality(held) + k <= MaxConcurrent
           /\ k < Len(q) => Cardinality(held) + k = MaxConcurrent
<1> DEFINE k == Least(Len(q), MaxConcurrent - Cardinality(held))
           S == {q[i] : i \in 1 .. k}
<1>1. IsFiniteSet(held) /\ Cardinality(held) \in Nat
  BY TasksAssumption, FS_Subset, FS_CardinalityType
<1>2. /\ k \in 0 .. Len(q) /\ Cardinality(held) + k <= MaxConcurrent
      /\ k < Len(q) => Cardinality(held) + k = MaxConcurrent
  BY <1>1, TasksAssumption DEF Least
<1>3. Started(q, held) = S
  BY DEF Started
<1> HIDE DEF k
<1>4. IsFiniteSet(1 .. k) /\ Cardinality(1 .. k) = k
  BY <1>2, FS_Interval
<1>5. [i \in 1 .. k |-> q[i]] \in Bijection(1 .. k, S)
  <2> DEFINE f == [i \in 1 .. k |-> q[i]]
  <2>1. f \in [1 .. k -> S]
    OBVIOUS
  <2>2. \A i, j \in 1 .. k : f[i] = f[j] => i = j
    BY <1>2 DEF NoDup
  <2>3. \A s \in S : \E i \in 1 .. k : f[i] = s
    OBVIOUS
  <2> QED
    BY <2>1, <2>2, <2>3 DEF Bijection, Injection, Surjection, IsInjective
<1>6. IsFiniteSet(S) /\ Cardinality(S) = k
  BY <1>4, <1>5, FS_Bijection DEF ExistsBijection
<1> QED
  BY <1>2, <1>3, <1>6

LEMMA DrainPreserves ==
  ASSUME NEW q, NEW held, NEW st, NEW rn,
         Drainable(q, held, st, rn, shutdown'), Drain(q, held, st, rn)
  PROVE  /\ IInv' /\ InOrder(q)
         /\ \A t \in Tasks \ Elems(q) : status'[t] = st[t] /\ run'[t] = rn[t]
<1> DEFINE S == Started(q, held)
<1>1. q \in Seq(Tasks) /\ NoDup(q) /\ held \in SUBSET Tasks /\ Cardinality(held) <= MaxConcurrent
  BY DEF Drainable
<1>2. PICK k \in 0 .. Len(q) :
        /\ S = {q[i] : i \in 1 .. k}
        /\ IsFiniteSet(S) /\ Cardinality(S) = k
        /\ Cardinality(held) + k <= MaxConcurrent
        /\ k < Len(q) => Cardinality(held) + k = MaxConcurrent
  BY <1>1, StartedIs
<1>3. /\ queue' = SubSeq(q, k + 1, Len(q))
      /\ running' = held \cup S
      /\ status' = [t \in Tasks |-> IF t \in S THEN "running" ELSE st[t]]
      /\ run' = [t \in Tasks |->
                   CASE t \in S \cap Misconfigured -> "failing"
                     [] t \in S \ Misconfigured -> "active"
                     [] OTHER -> rn[t]]
  BY <1>2 DEF Drain
<1>4. Len(q) \in Nat /\ \A i \in 1 .. Len(q) : q[i] \in Tasks
  BY <1>1
<1>5. S \subseteq Tasks /\ S \subseteq Elems(q)
  BY <1>2, <1>4 DEF Elems
<1>6. \A t \in Elems(q) : st[t] = "queued" /\ rn[t] = "none" /\ t \notin held
  BY DEF Drainable, Match, Live
<1> HIDE DEF S
<1>7. ASSUME NEW t \in Tasks
      PROVE  \/ t \in S /\ status'[t] = "running" /\ run'[t] \in {"failing", "active"}
             \/ t \notin S /\ status'[t] = st[t] /\ run'[t] = rn[t]
  BY <1>3, <1>7
<1>8. queue' \in Seq(Tasks) /\ Len(queue') = Len(q) - k
      /\ \A i \in 1 .. Len(queue') : queue'[i] = q[k + i]
  <2>1. \A i \in k + 1 .. Len(q) : q[i] \in Tasks
    BY <1>2, <1>4
  <2> QED
    BY <1>2, <1>3, <1>4, <2>1, SubSeqProperties
<1>9. TypeOK'
  <2>1. status' \in [Tasks -> Status]
    BY <1>3 DEF Drainable, Status
  <2>2. run' \in [Tasks -> RunState]
    BY <1>3, <1>7 DEF Drainable, RunState, Live
  <2> QED
    BY <1>1, <1>3, <1>5, <1>8, <2>1, <2>2 DEF TypeOK, Drainable
<1>10. \A i \in 1 .. Len(q) : q[i] \in S <=> i <= k
  BY <1>1, <1>2 DEF NoDup
<1>11. QueueMatchesStatus'
  <2>1. \A i, j \in 1 .. Len(queue') : queue'[i] = queue'[j] => i = j
    BY <1>1, <1>2, <1>4, <1>8 DEF NoDup
  <2>2. ASSUME NEW t \in Tasks
        PROVE  t \in Queued' <=> status'[t] = "queued"
    <3>1. t \in Queued' <=> \E i \in 1 .. Len(queue') : queue'[i] = t
      BY DEF Queued
    <3>2. t \in Queued' <=> \E i \in k + 1 .. Len(q) : q[i] = t
      <4>1. ASSUME NEW i \in 1 .. Len(queue') PROVE k + i \in k + 1 .. Len(q) /\ queue'[i] = q[k + i]
        BY <1>2, <1>4, <1>8
      <4>2. ASSUME NEW i \in k + 1 .. Len(q) PROVE i - k \in 1 .. Len(queue') /\ queue'[i - k] = q[i]
        BY <1>2, <1>4, <1>8
      <4> QED
        BY <3>1, <4>1, <4>2
    <3>3. (\E i \in k + 1 .. Len(q) : q[i] = t) <=> t \in Elems(q) /\ t \notin S
      BY <1>2, <1>4, <1>10 DEF Elems
    <3>4. t \in Elems(q) <=> st[t] = "queued"
      BY DEF Drainable
    <3> QED
      BY <3>2, <3>3, <3>4, <1>7
  <2>3. Queued' \subseteq Tasks
    BY <1>8 DEF Queued
  <2> QED
    BY <2>1, <2>2, <2>3 DEF QueueMatchesStatus
<1>12. SlotsWellUsed'
  <2>1. IsFiniteSet(held) /\ Cardinality(held) \in Nat
    BY <1>1, TasksAssumption, FS_Subset, FS_CardinalityType
  <2>2. held \cap S = {}
    BY <1>5, <1>6
  <2>3. Cardinality(held \cap S) = 0
    BY <2>2, FS_EmptySet
  <2>4. Cardinality(running') = Cardinality(held) + k
    <3>1. Cardinality(held \cup S) = Cardinality(held) + Cardinality(S) - Cardinality(held \cap S)
      BY <1>2, <2>1, FS_Union
    <3> QED
      BY <1>2, <1>3, <2>1, <2>3, <3>1
  <2>5. queue' # <<>> => k < Len(q)
    BY <1>2, <1>4, <1>8, EmptySeq
  <2> QED
    BY <1>2, <2>4, <2>5 DEF SlotsWellUsed
<1>13. NoSlotLeak'
  BY <1>1, <1>3, <1>5, <1>7 DEF NoSlotLeak, Drainable, Live
<1>14. ASSUME NEW t \in Tasks PROVE Match(status'[t], run'[t], t \in shutdown')
  BY <1>7 DEF Drainable, Match
<1>15. StatusMatchesRun' /\ RefusedIsCancelled'
  BY <1>14 DEF Match, StatusMatchesRun, RefusedIsCancelled
<1>16. InOrder(q)
  <2> SUFFICES ASSUME NEW i \in 1 .. Len(q), NEW j \in 1 .. Len(q), i < j,
                      status'[q[j]] = "running"
               PROVE  status'[q[i]] # "queued"
    BY DEF InOrder
  <2>1. q[i] \in Elems(q) /\ q[j] \in Elems(q) /\ q[i] \in Tasks /\ q[j] \in Tasks
    BY <1>4 DEF Elems
  <2>2. q[j] \in S
    BY <2>1, <1>6, <1>7
  <2>3. q[i] \in S
    BY <2>2, <1>2, <1>4, <1>10
  <2> QED
    BY <2>1, <2>3, <1>7
<1>17. \A t \in Tasks \ Elems(q) : status'[t] = st[t] /\ run'[t] = rn[t]
  BY <1>5, <1>7
<1> QED
  BY <1>9, <1>11, <1>12, <1>13, <1>15, <1>16, <1>17 DEF IInv

-----------------------------------------------------------------------------
(***************************************************************************)
(* What is drained, or left, by the operations.                            *)
(***************************************************************************)
LEMMA Matches ==
  ASSUME IInv, NEW t \in Tasks
  PROVE  Match(status[t], run[t], t \in shutdown)
BY DEF IInv, StatusMatchesRun, RefusedIsCancelled, Match

LEMMA QueueIs ==
  ASSUME IInv
  PROVE  /\ queue \in Seq(Tasks) /\ NoDup(queue) /\ Len(queue) \in Nat
         /\ Elems(queue) = {t \in Tasks : status[t] = "queued"}
         /\ \A i \in 1 .. Len(queue) : queue[i] \in Tasks /\ status[queue[i]] = "queued"
<1>1. queue \in Seq(Tasks) /\ NoDup(queue) /\ Len(queue) \in Nat
      /\ Elems(queue) = {t \in Tasks : status[t] = "queued"}
  BY DEF IInv, TypeOK, QueueMatchesStatus, Queued, NoDup, Elems
<1>2. \A i \in 1 .. Len(queue) : queue[i] \in Elems(queue)
  BY DEF Elems
<1> QED
  BY <1>1, <1>2

LEMMA AppendedIs ==
  ASSUME NEW q \in Seq(Tasks), NoDup(q), NEW t \in Tasks, t \notin Elems(q)
  PROVE  /\ Append(q, t) \in Seq(Tasks) /\ NoDup(Append(q, t))
         /\ Elems(Append(q, t)) = Elems(q) \cup {t}
         /\ \A i \in 1 .. Len(q) : Append(q, t)[i] = q[i]
         /\ Len(Append(q, t)) = Len(q) + 1 /\ Append(q, t)[Len(q) + 1] = t
<1>1. /\ Append(q, t) \in Seq(Tasks)
      /\ \A i \in 1 .. Len(q) : Append(q, t)[i] = q[i]
      /\ Len(Append(q, t)) = Len(q) + 1 /\ Append(q, t)[Len(q) + 1] = t
  BY AppendProperties
<1>2. Len(q) \in Nat
  OBVIOUS
<1> DEFINE a == Append(q, t)
<1> HIDE DEF a
<1>3. \A i \in 1 .. Len(a) : \/ i \in 1 .. Len(q) /\ a[i] = q[i]
                             \/ i = Len(q) + 1 /\ a[i] = t
  BY <1>1, <1>2 DEF a
<1>4. \A i \in 1 .. Len(q) : q[i] # t
  BY DEF Elems
<1>5. NoDup(a)
  BY <1>3, <1>4 DEF NoDup
<1>6. Elems(a) = Elems(q) \cup {t}
  <2>1. \A i \in 1 .. Len(q) : i \in 1 .. Len(a) /\ a[i] = q[i]
    BY <1>1, <1>2 DEF a
  <2>2. Len(q) + 1 \in 1 .. Len(a) /\ a[Len(q) + 1] = t
    BY <1>1, <1>2 DEF a
  <2> QED
    BY <1>3, <2>1, <2>2 DEF Elems
<1> QED
  BY <1>1, <1>5, <1>6 DEF a

\* The place in the queue without t of what was at place k.
Place(k, i) == IF k < i THEN k ELSE k - 1

LEMMA DequeuedIs ==
  ASSUME NEW q \in Seq(Tasks), NoDup(q), NEW t \in Elems(q)
  PROVE  \E i \in 1 .. Len(q) :
           LET d == Dequeued(q, t)
           IN  /\ q[i] = t
               /\ d \in Seq(Tasks) /\ Len(d) = Len(q) - 1
               /\ \A k \in 1 .. Len(d) : d[k] = IF k < i THEN q[k] ELSE q[k + 1]
               /\ NoDup(d) /\ Elems(d) = Elems(q) \ {t}
<1> DEFINE i == CHOOSE k \in 1 .. Len(q) : q[k] = t /\ \A j \in 1 .. k - 1 : q[j] # t
           front == SubSeq(q, 1, i - 1)
           back == SubSeq(q, i + 1, Len(q))
           d == Dequeued(q, t)
<1>1. Len(q) \in Nat /\ \A k \in 1 .. Len(q) : q[k] \in Tasks
  OBVIOUS
<1>2. i \in 1 .. Len(q) /\ q[i] = t
  <2>1. PICK n \in 1 .. Len(q) : q[n] = t
    BY DEF Elems
  <2>2. q[n] = t /\ \A j \in 1 .. n - 1 : q[j] # t
    BY <1>1, <2>1 DEF NoDup
  <2> QED
    BY <2>2
<1>3. d = front \o back
  BY DEF Dequeued, Elems
<1> HIDE DEF i
<1>4. front \in Seq(Tasks) /\ Len(front) = i - 1 /\ \A k \in 1 .. i - 1 : front[k] = q[k]
  <2>1. /\ front \in Seq(Tasks)
        /\ Len(front) = IF 1 <= i - 1 THEN i - 1 - 1 + 1 ELSE 0
        /\ \A k \in 1 .. i - 1 - 1 + 1 : front[k] = q[1 + k - 1]
    BY <1>1, <1>2, SubSeqProperties
  <2> HIDE DEF front
  <2>2. i \in Nat \ {0}
    BY <1>1, <1>2
  <2>3. Len(front) = i - 1
    BY <2>1, <2>2
  <2>4. ASSUME NEW k \in 1 .. i - 1 PROVE front[k] = q[k]
    <3>1. k \in 1 .. i - 1 - 1 + 1 /\ 1 + k - 1 = k
      BY <2>2
    <3> QED
      BY <2>1, <3>1
  <2> QED
    BY <2>1, <2>3, <2>4
<1>5. back \in Seq(Tasks) /\ Len(back) = Len(q) - i /\ \A k \in 1 .. Len(q) - i : back[k] = q[i + k]
  <2>1. /\ back \in Seq(Tasks)
        /\ Len(back) = IF i + 1 <= Len(q) THEN Len(q) - (i + 1) + 1 ELSE 0
        /\ \A k \in 1 .. Len(q) - (i + 1) + 1 : back[k] = q[i + 1 + k - 1]
    BY <1>1, <1>2, SubSeqProperties
  <2> HIDE DEF back
  <2>2. i \in Nat \ {0} /\ i <= Len(q)
    BY <1>1, <1>2
  <2>3. Len(back) = Len(q) - i
    BY <1>1, <2>1, <2>2
  <2>4. ASSUME NEW k \in 1 .. Len(q) - i PROVE back[k] = q[i + k]
    <3>1. k \in 1 .. Len(q) - (i + 1) + 1 /\ i + 1 + k - 1 = i + k
      BY <1>1, <2>2
    <3> QED
      BY <2>1, <3>1
  <2> QED
    BY <2>1, <2>3, <2>4
<1> HIDE DEF front, back
<1>6. /\ front \o back \in Seq(Tasks) /\ Len(front \o back) = Len(front) + Len(back)
      /\ \A k \in 1 .. Len(front) + Len(back) :
           (front \o back)[k] = IF k <= Len(front) THEN front[k] ELSE back[k - Len(front)]
  BY <1>4, <1>5, ConcatProperties
<1>7. d \in Seq(Tasks) /\ Len(d) = Len(q) - 1
  BY <1>1, <1>2, <1>3, <1>4, <1>5, <1>6
<1>8. ASSUME NEW k \in 1 .. Len(d)
      PROVE  d[k] = IF k < i THEN q[k] ELSE q[k + 1]
  <2>1. k \in 1 .. Len(front) + Len(back)
    BY <1>1, <1>2, <1>4, <1>5, <1>7
  <2>2. d[k] = IF k <= i - 1 THEN front[k] ELSE back[k - (i - 1)]
    BY <1>3, <1>4, <1>6, <2>1
  <2>3. CASE k < i
    BY <1>1, <1>2, <1>4, <1>7, <2>2, <2>3
  <2>4. CASE ~ (k < i)
    <3>1. k - (i - 1) \in 1 .. Len(q) - i
      BY <1>1, <1>2, <1>7, <2>4
    <3>2. i + (k - (i - 1)) = k + 1
      BY <1>1, <1>2, <1>7
    <3> QED
      BY <1>1, <1>2, <1>5, <1>7, <2>2, <2>4, <3>1, <3>2
  <2> QED
    BY <2>3, <2>4
<1> HIDE DEF d
<1>9. NoDup(d)
  BY <1>1, <1>2, <1>7, <1>8 DEF NoDup
<1>10. ASSUME NEW k \in 1 .. Len(q), k # i
       PROVE  Place(k, i) \in 1 .. Len(d) /\ d[Place(k, i)] = q[k]
  BY <1>1, <1>2, <1>7, <1>8, <1>10 DEF Place
<1>11. Elems(d) = Elems(q) \ {t}
  <2>1. ASSUME NEW k \in 1 .. Len(d) PROVE d[k] \in Elems(q) /\ d[k] # t
    BY <1>1, <1>2, <1>7, <1>8 DEF NoDup, Elems
  <2>2. ASSUME NEW k \in 1 .. Len(q), q[k] # t PROVE q[k] \in Elems(d)
    BY <1>2, <1>10, <2>2 DEF Elems
  <2> QED
    BY <2>1, <2>2 DEF Elems
<1> QED
  BY <1>2, <1>7, <1>8, <1>9, <1>11 DEF d

-----------------------------------------------------------------------------
(***************************************************************************)
(* Every operation keeps the invariant, the order of the queue and a       *)
(* rejection.                                                              *)
(***************************************************************************)
StepOK ==
  /\ IInv' /\ InOrder(queue)
  /\ \A t \in Tasks : run[t] = "refused" => status'[t] = "cancelled"

\* An operation that leaves the queue alone, and concerns the task t.
LEMMA QuietStep ==
  ASSUME IInv, NEW t \in Tasks, NEW s \in Status, NEW r \in RunState,
         status' = [status EXCEPT ![t] = s], run' = [run EXCEPT ![t] = r],
         UNCHANGED <<queue, running, shutdown>>,
         status[t] # "queued", s # "queued", run[t] # "refused",
         r = run[t] \/ (r \in Live /\ run[t] \in Live),
         Match(s, r, t \in shutdown)
  PROVE  StepOK
<1>1. status \in [Tasks -> Status] /\ run \in [Tasks -> RunState] /\ shutdown \in SUBSET Tasks
      /\ running \in SUBSET Tasks
  BY DEF IInv, TypeOK
<1>2. /\ status'[t] = s /\ run'[t] = r
      /\ \A u \in Tasks \ {t} : status'[u] = status[u] /\ run'[u] = run[u]
  BY <1>1
<1>3. TypeOK'
  BY <1>1 DEF IInv, TypeOK
<1>4. QueueMatchesStatus'
  BY <1>2 DEF IInv, QueueMatchesStatus, Queued
<1>5. SlotsWellUsed'
  BY DEF IInv, SlotsWellUsed
<1>6. NoSlotLeak'
  BY <1>1, <1>2 DEF IInv, NoSlotLeak, Live, RunState
<1>7. \A u \in Tasks : Match(status'[u], run'[u], u \in shutdown)
  BY <1>2, Matches
<1>8. StatusMatchesRun' /\ RefusedIsCancelled'
  BY <1>7 DEF Match, StatusMatchesRun, RefusedIsCancelled
<1>9. InOrder(queue)
  BY <1>2, QueueIs DEF InOrder
<1>10. \A u \in Tasks : run[u] = "refused" => status'[u] = "cancelled"
  BY <1>2, Matches DEF Match
<1> QED
  BY <1>3, <1>4, <1>5, <1>6, <1>8, <1>9, <1>10 DEF IInv, StepOK

LEMMA QuietSteps ==
  ASSUME IInv, NEW t \in Tasks,
         CreateTodoTask(t) \/ ApproveTask(t) \/ RejectTask(t) \/ AskApproval(t)
  PROVE  StepOK
<1>1. status[t] \in Status /\ run[t] \in RunState /\ run = [run EXCEPT ![t] = run[t]]
      /\ Match(status[t], run[t], t \in shutdown)
  BY Matches DEF IInv, TypeOK
<1>2. {"todo", "running", "cancelled", "awaiting_approval"} \subseteq Status
      /\ {"none", "active", "refused", "asking"} \subseteq RunState
  BY DEF Status, RunState, Live
<1>3. CASE CreateTodoTask(t)
  <2>1. run[t] = "none" /\ Match("todo", "none", t \in shutdown)
    BY <1>1, <1>3 DEF CreateTodoTask, Match
  <2>2. run' = [run EXCEPT ![t] = "none"]
    BY <1>1, <1>3, <2>1 DEF CreateTodoTask
  <2> QED
    BY <1>2, <1>3, <2>1, <2>2, QuietStep DEF CreateTodoTask, Live
<1>4. CASE ApproveTask(t)
  <2>1. Match("running", "active", t \in shutdown) /\ status[t] # "queued"
    BY <1>1, <1>4 DEF ApproveTask, Match
  <2> QED
    BY <1>2, <1>4, <2>1, QuietStep DEF ApproveTask, Live
<1>5. CASE RejectTask(t)
  <2>1. Match("cancelled", "refused", t \in shutdown) /\ status[t] # "queued"
    BY <1>1, <1>5 DEF RejectTask, Match
  <2> QED
    BY <1>2, <1>5, <2>1, QuietStep DEF RejectTask, Live
<1>6. CASE AskApproval(t)
  <2>1. Match("awaiting_approval", "asking", t \in shutdown) /\ status[t] # "queued"
    BY <1>1, <1>6 DEF AskApproval, Match
  <2> QED
    BY <1>2, <1>6, <2>1, QuietStep DEF AskApproval, Live
<1> QED
  BY <1>3, <1>4, <1>5, <1>6

LEMMA EnqueuePreserves ==
  ASSUME IInv, NEW t \in Tasks, status[t] \in {"absent", "todo"}, Enqueue(t), shutdown' = shutdown
  PROVE  StepOK
<1> DEFINE q == Append(queue, t)
           st == [status EXCEPT ![t] = "queued"]
<1>1. status \in [Tasks -> Status] /\ run \in [Tasks -> RunState] /\ shutdown \in SUBSET Tasks
      /\ running \in SUBSET Tasks
  BY DEF IInv, TypeOK
<1>2. /\ q \in Seq(Tasks) /\ NoDup(q) /\ Elems(q) = Elems(queue) \cup {t}
      /\ \A i \in 1 .. Len(queue) : q[i] = queue[i]
      /\ Len(q) = Len(queue) + 1
  BY QueueIs, AppendedIs
<1>3. st \in [Tasks -> Status] /\ st[t] = "queued" /\ \A u \in Tasks \ {t} : st[u] = status[u]
  BY <1>1 DEF Status
<1>4. Drain(q, running, st, run)
  BY DEF Enqueue
<1> HIDE DEF q, st
<1>5. run[t] = "none" /\ Match("queued", "none", t \in shutdown)
  BY Matches DEF Match
<1>6. Drainable(q, running, st, run, shutdown')
  <2>1. Elems(q) = {u \in Tasks : st[u] = "queued"}
    BY <1>2, <1>3, QueueIs
  <2>2. \A u \in Tasks : Match(st[u], run[u], u \in shutdown')
    BY <1>3, <1>5, Matches
  <2> QED
    BY <1>1, <1>2, <1>3, <2>1, <2>2 DEF Drainable, IInv, SlotsWellUsed, NoSlotLeak
<1>7. IInv' /\ InOrder(q) /\ \A u \in Tasks \ Elems(q) : status'[u] = st[u]
  BY <1>4, <1>6, DrainPreserves
<1>8. InOrder(queue)
  BY <1>2, <1>7, QueueIs DEF InOrder
<1>9. ASSUME NEW u \in Tasks, run[u] = "refused" PROVE status'[u] = "cancelled"
  <2>1. status[u] = "cancelled" /\ u # t
    BY <1>5, <1>9, Matches DEF Match
  <2> QED
    BY <1>2, <1>3, <1>7, <2>1, QueueIs
<1> QED
  BY <1>7, <1>8, <1>9 DEF StepOK

LEMMA FinishPreserves ==
  ASSUME IInv, NEW t \in Tasks, NEW s \in Status, NEW r \in RunState,
         Finish(t, s, r), shutdown' = shutdown, status[t] # "queued", s # "queued",
         run[t] = "refused" => s = "cancelled",
         r \notin Live, Match(s, r, t \in shutdown)
  PROVE  StepOK
<1> DEFINE held == running \ {t}
           st == [status EXCEPT ![t] = s]
           rn == [run EXCEPT ![t] = r]
<1>1. status \in [Tasks -> Status] /\ run \in [Tasks -> RunState] /\ shutdown \in SUBSET Tasks
      /\ running \in SUBSET Tasks
  BY DEF IInv, TypeOK
<1>2. held \in SUBSET Tasks /\ Cardinality(held) <= MaxConcurrent
  <2>1. IsFiniteSet(running) /\ Cardinality(running) \in Nat
    BY <1>1, TasksAssumption, FS_Subset, FS_CardinalityType
  <2>2. Cardinality(held) <= Cardinality(running) /\ Cardinality(held) \in Nat
    BY <2>1, FS_Subset, FS_CardinalityType
  <2> QED
    BY <1>1, <2>1, <2>2, TasksAssumption DEF IInv, SlotsWellUsed
<1>3. /\ st \in [Tasks -> Status] /\ st[t] = s /\ \A u \in Tasks \ {t} : st[u] = status[u]
      /\ rn \in [Tasks -> RunState] /\ rn[t] = r /\ \A u \in Tasks \ {t} : rn[u] = run[u]
  BY <1>1
<1>4. Drain(queue, held, st, rn)
  BY DEF Finish
<1> HIDE DEF st, rn
<1>5. Drainable(queue, held, st, rn, shutdown')
  <2>1. Elems(queue) = {u \in Tasks : st[u] = "queued"}
    BY <1>3, QueueIs
  <2>2. \A u \in Tasks : Match(st[u], rn[u], u \in shutdown')
    BY <1>3, Matches
  <2>3. /\ \A u \in held : rn[u] \in Live \cup {"failing"}
        /\ \A u \in Tasks : rn[u] \in Live /\ u \notin shutdown' => u \in held
    BY <1>1, <1>3 DEF IInv, NoSlotLeak
  <2> QED
    BY <1>1, <1>2, <1>3, <2>1, <2>2, <2>3, QueueIs DEF Drainable
<1>6. IInv' /\ InOrder(queue) /\ \A u \in Tasks \ Elems(queue) : status'[u] = st[u]
  BY <1>4, <1>5, DrainPreserves
<1>7. ASSUME NEW u \in Tasks, run[u] = "refused" PROVE status'[u] = "cancelled"
  <2>1. status[u] = "cancelled"
    BY <1>7, Matches DEF Match
  <2> QED
    BY <1>3, <1>6, <1>7, <2>1, QueueIs
<1> QED
  BY <1>6, <1>7 DEF StepOK

LEMMA RunStepsPreserve ==
  ASSUME IInv, NEW t \in Tasks,
         RunSucceeds(t) \/ RunUnsuccessful(t) \/ RunFails(t) \/ StartRejected(t)
  PROVE  StepOK
<1>1. status[t] \in Status /\ Match(status[t], run[t], t \in shutdown) /\ shutdown' = shutdown
  BY Matches DEF IInv, TypeOK, RunSucceeds, RunUnsuccessful, RunFails, StartRejected
<1>2. /\ {"completed", "failed", "cancelled"} \subseteq Status
      /\ {"ended", "none"} \subseteq RunState /\ "ended" \notin Live /\ "none" \notin Live
  BY DEF Status, RunState, Live
<1>3. \A s \in {"completed", "failed", "cancelled"} : Match(s, "ended", t \in shutdown)
  BY DEF Match
<1>4. run[t] # "none" => status[t] # "queued"
  BY <1>1 DEF Match
<1>5. CASE RunSucceeds(t)
  BY <1>1, <1>2, <1>3, <1>4, <1>5, FinishPreserves DEF RunSucceeds
<1>6. CASE RunFails(t)
  BY <1>1, <1>2, <1>3, <1>4, <1>6, FinishPreserves DEF RunFails
<1>7. CASE RunUnsuccessful(t)
  <2> DEFINE s == IF status[t] \in {"failed", "cancelled"} THEN status[t] ELSE "failed"
  <2>1. Finish(t, s, "ended") /\ run[t] \in {"active", "refused"}
    BY <1>7 DEF RunUnsuccessful
  <2>2. s \in {"failed", "cancelled"}
    OBVIOUS
  <2>3. run[t] = "refused" => s = "cancelled"
    BY <1>1 DEF Match
  <2> HIDE DEF s
  <2> QED
    BY <1>1, <1>2, <1>3, <1>4, <2>1, <2>2, <2>3, FinishPreserves
<1>8. CASE StartRejected(t)
  <2>1. run[t] = "failing" /\ Finish(t, status[t], "none")
    BY <1>8 DEF StartRejected
  <2>2. Match(status[t], "none", t \in shutdown)
    BY <1>1, <2>1 DEF Match
  <2> QED
    BY <1>1, <1>2, <1>4, <2>1, <2>2, FinishPreserves
<1> QED
  BY <1>5, <1>6, <1>7, <1>8

LEMMA CancelPreserves ==
  ASSUME IInv, NEW t \in Tasks, CancelTask(t)
  PROVE  StepOK
<1> DEFINE held == running \ {t}
           st == [status EXCEPT ![t] = "cancelled"]
           q == IF status[t] = "queued" THEN Dequeued(queue, t) ELSE queue
<1>1. status \in [Tasks -> Status] /\ run \in [Tasks -> RunState] /\ shutdown \in SUBSET Tasks
      /\ running \in SUBSET Tasks
  BY DEF IInv, TypeOK
<1>2. status[t] # "absent" /\ Drain(q, held, st, run)
      /\ shutdown' = IF run[t] \in Live \cup {"ended"} THEN shutdown \cup {t} ELSE shutdown
  BY DEF CancelTask
<1>3. /\ q \in Seq(Tasks) /\ NoDup(q) /\ Elems(q) = Elems(queue) \ {t}
      /\ \A i, j \in 1 .. Len(queue) : i < j /\ queue[i] # t /\ queue[j] # t =>
           \E k, l \in 1 .. Len(q) : k < l /\ q[k] = queue[i] /\ q[l] = queue[j]
  <2>1. CASE status[t] # "queued"
    BY <2>1, QueueIs
  <2>2. CASE status[t] = "queued"
    <3>1. q = Dequeued(queue, t) /\ t \in Elems(queue) /\ Len(queue) \in Nat
      BY <2>2, QueueIs
    <3> HIDE DEF q
    <3>2. queue \in Seq(Tasks) /\ NoDup(queue)
      BY QueueIs
    <3>3. PICK n \in 1 .. Len(queue) :
            /\ queue[n] = t
            /\ q \in Seq(Tasks) /\ Len(q) = Len(queue) - 1
            /\ \A k \in 1 .. Len(q) : q[k] = IF k < n THEN queue[k] ELSE queue[k + 1]
            /\ NoDup(q) /\ Elems(q) = Elems(queue) \ {t}
      BY <3>1, <3>2, DequeuedIs
    <3>4. ASSUME NEW i \in 1 .. Len(queue), queue[i] # t
          PROVE  Place(i, n) \in 1 .. Len(q) /\ q[Place(i, n)] = queue[i]
      BY <3>1, <3>3, <3>4 DEF Place
    <3>5. ASSUME NEW i \in 1 .. Len(queue), NEW j \in 1 .. Len(queue), i < j, i # n, j # n
          PROVE  Place(i, n) < Place(j, n)
      BY <3>5 DEF Place
    <3> QED
      BY <3>3, <3>4, <3>5
  <2> QED
    BY <2>1, <2>2
<1>4. held \in SUBSET Tasks /\ Cardinality(held) <= MaxConcurrent
  <2>1. IsFiniteSet(running) /\ Cardinality(running) \in Nat
    BY <1>1, TasksAssumption, FS_Subset, FS_CardinalityType
  <2>2. Cardinality(held) <= Cardinality(running) /\ Cardinality(held) \in Nat
    BY <2>1, FS_Subset, FS_CardinalityType
  <2> QED
    BY <1>1, <2>1, <2>2, TasksAssumption DEF IInv, SlotsWellUsed
<1>5. st \in [Tasks -> Status] /\ st[t] = "cancelled" /\ \A u \in Tasks \ {t} : st[u] = status[u]
  BY <1>1 DEF Status
<1> HIDE DEF st, q
<1>6. shutdown' \in SUBSET Tasks /\ \A u \in Tasks \ {t} : u \in shutdown' <=> u \in shutdown
  BY <1>1, <1>2
<1>7. run[t] \in Live => t \in shutdown'
  BY <1>2
<1>8. Drainable(q, held, st, run, shutdown')
  <2>1. Elems(q) = {u \in Tasks : st[u] = "queued"}
    BY <1>3, <1>5, QueueIs
  <2>2. Match("cancelled", run[t], t \in shutdown')
    BY <1>7 DEF Match, Live
  <2>3. \A u \in Tasks : Match(st[u], run[u], u \in shutdown')
    <3>1. ASSUME NEW u \in Tasks, u # t PROVE Match(st[u], run[u], u \in shutdown')
      <4>1. Match(status[u], run[u], u \in shutdown) /\ st[u] = status[u]
        BY <1>5, <3>1, Matches
      <4>2. u \in shutdown' <=> u \in shutdown
        BY <1>6, <3>1
      <4> QED
        BY <4>1, <4>2 DEF Match
    <3> QED
      BY <3>1, <2>2, <1>5
  <2>4. /\ \A u \in held : run[u] \in Live \cup {"failing"}
        /\ \A u \in Tasks : run[u] \in Live /\ u \notin shutdown' => u \in held
    BY <1>6, <1>7 DEF IInv, NoSlotLeak
  <2> QED
    BY <1>1, <1>3, <1>4, <1>5, <1>6, <2>1, <2>3, <2>4 DEF Drainable
<1>9. IInv' /\ InOrder(q) /\ \A u \in Tasks \ Elems(q) : status'[u] = st[u]
  BY <1>2, <1>8, DrainPreserves
<1>10. status'[t] = "cancelled"
  BY <1>3, <1>5, <1>9
<1>11. InOrder(queue)
  BY <1>3, <1>9, <1>10 DEF InOrder
<1>12. ASSUME NEW u \in Tasks, run[u] = "refused" PROVE status'[u] = "cancelled"
  <2>1. status[u] = "cancelled"
    BY <1>12, Matches DEF Match
  <2> QED
    BY <1>3, <1>5, <1>9, <1>10, <2>1, QueueIs
<1> QED
  BY <1>9, <1>11, <1>12 DEF StepOK

LEMMA StepIsOK ==
  ASSUME IInv, Next
  PROVE  StepOK
<1>1. ASSUME NEW t \in Tasks, CreateTask(t) \/ ExecuteTask(t) PROVE StepOK
  BY <1>1, EnqueuePreserves DEF CreateTask, ExecuteTask
<1>2. ASSUME NEW o \in Tasks, NEW t \in Tasks, RetryTask(o, t) PROVE StepOK
  BY <1>1, <1>2 DEF RetryTask
<1> QED
  BY <1>1, <1>2, QuietSteps, RunStepsPreserve, CancelPreserves DEF Next

LEMMA InitIInv == Init => IInv
<1> SUFFICES ASSUME Init PROVE IInv
  OBVIOUS
<1>1. TypeOK
  BY DEF Init, TypeOK, Status, RunState
<1>2. QueueMatchesStatus /\ NoSlotLeak /\ StatusMatchesRun /\ RefusedIsCancelled
  BY EmptySeq DEF Init, QueueMatchesStatus, Queued, NoSlotLeak, StatusMatchesRun,
     RefusedIsCancelled, Live
<1>3. SlotsWellUsed
  BY TasksAssumption, FS_EmptySet DEF Init, SlotsWellUsed
<1> QED
  BY <1>1, <1>2, <1>3 DEF IInv

LEMMA NextIInv == IInv /\ [Next]_vars => IInv'
<1> SUFFICES ASSUME IInv, [Next]_vars PROVE IInv'
  OBVIOUS
<1>1. CASE Next
  BY <1>1, StepIsOK DEF StepOK
<1>2. CASE UNCHANGED vars
  BY <1>2 DEF vars, IInv, TypeOK, QueueMatchesStatus, Queued, SlotsWellUsed, NoSlotLeak,
     StatusMatchesRun, RefusedIsCancelled
<1> QED
  BY <1>1, <1>2

LEMMA Invariance == Spec => []IInv
BY InitIInv, NextIInv, PTL DEF Spec

(***************************************************************************)
(* Queue, slots, statuses and runs keep their types.                       *)
(***************************************************************************)
THEOREM TypeCorrect == Spec => []TypeOK
<1>1. IInv => TypeOK
  BY DEF IInv
<1> QED
  BY <1>1, Invariance, PTL

(***************************************************************************)
(* For any tasks and slots, the scheduler's queue holds exactly the queued *)
(* tasks, each once, whoever wrote their status.                           *)
(***************************************************************************)
THEOREM QueueAgrees == Spec => []QueueMatchesStatus
<1>1. IInv => QueueMatchesStatus
  BY DEF IInv
<1> QED
  BY <1>1, Invariance, PTL

(***************************************************************************)
(* drain never overdraws the slots, and never leaves a task waiting beside *)
(* a free one.                                                             *)
(***************************************************************************)
THEOREM SlotsAreWellUsed == Spec => []SlotsWellUsed
<1>1. IInv => SlotsWellUsed
  BY DEF IInv
<1> QED
  BY <1>1, Invariance, PTL

(***************************************************************************)
(* Every slot is held by a run that will give it back, however runs end,   *)
(* fail to start or are cancelled.                                         *)
(***************************************************************************)
THEOREM SlotsAreGivenBack == Spec => []NoSlotLeak
<1>1. IInv => NoSlotLeak
  BY DEF IInv
<1> QED
  BY <1>1, Invariance, PTL

(***************************************************************************)
(* What the user is shown of a task agrees with its run, though both sides *)
(* write the status without waiting for each other.                        *)
(***************************************************************************)
THEOREM StatusIsTrue == Spec => []StatusMatchesRun
<1>1. IInv => StatusMatchesRun
  BY DEF IInv
<1> QED
  BY <1>1, Invariance, PTL

(***************************************************************************)
(* Nothing that a refused run does takes back the user's rejection.        *)
(***************************************************************************)
THEOREM RejectionIsFinal == Spec => RejectionStays
<1>1. IInv /\ [Next]_vars =>
        [\A t \in Tasks : run[t] = "refused" => status'[t] = "cancelled"]_vars
  BY StepIsOK DEF StepOK
<1> QED
  BY <1>1, Invariance, PTL DEF Spec, RejectionStays

(***************************************************************************)
(* No task overtakes another in the queue, even when one between them is   *)
(* cancelled.                                                              *)
(***************************************************************************)
THEOREM NobodyOvertakes == Spec => FirstComeFirstServed
<1>1. IInv /\ [Next]_vars =>
        [\A i, j \in 1 .. Len(queue) :
           i < j /\ status'[queue[j]] = "running" => status'[queue[i]] # "queued"]_vars
  BY StepIsOK DEF StepOK, InOrder
<1> QED
  BY <1>1, Invariance, PTL DEF Spec, FirstComeFirstServed
=============================================================================
