-------------------------- MODULE PersistenceProofs -------------------------
(***************************************************************************)
(* The safety properties of Persistence, for any tasks, slots and runs.    *)
(***************************************************************************)
EXTENDS Persistence, SequenceFacts, TLAPS

P == INSTANCE TaskLifecycleProofs

-----------------------------------------------------------------------------
(***************************************************************************)
(* The inductive invariant relates, task by task, what the board says to   *)
(* what the files say: s is the status of the task, r the state of its     *)
(* run, m the status in its manifest, v its saved number and n the one on  *)
(* the board; filed, listed and told say whether it is in tasks.json,      *)
(* whether its run has a manifest and whether it was shut down.            *)
(***************************************************************************)
FileOK(s, r, m, filed, listed) ==
  /\ filed => s \in {"todo", "cancelled"} /\ r = "none" /\ m = "none"
  /\ listed <=> m # "none"
  /\ m # "none" => s \notin {"todo", "queued"}
  /\ s \in {"absent", "todo", "queued"} => r = "none"
  /\ r \in Board!Live => s \notin {"completed", "failed"}

\* A task of the board, and the outcome of its run.
OutcomeOK(s, r, m, filed, told) ==
  /\ s = "absent" => m = "none"
  /\ s = "todo" => filed
  /\ s = "completed" => m = "completed"
  /\ s = "failed" => m \in {"none", "running", "failed"}
  /\ r = "active" => m # "cancelled"
  /\ r = "asking" => m = "running"
  /\ r = "refused" => m \in {"running", "cancelled"} /\ s = "cancelled"
  /\ r \in {"active", "asking"} /\ ~ told => s \in {"running", "awaiting_approval"}
  /\ r = "ended" /\ ~ told => m = "none" \/ s = Outcome(m)

\* A run of the command line is on the board at most as something that ended.
CliOK(s, r, filed) ==
  r = "none" /\ ~ filed /\ s \in {"absent", "completed", "failed", "cancelled"}

NumberOK(cli, s, m, v, n, filed, bound) ==
  /\ n < bound
  /\ v \in {0, n}
  /\ s = "absent" <=> n = 0
  /\ filed => v # 0
  /\ ~ cli /\ m # "none" => v # 0
  /\ cli /\ s # "absent" => v # 0

TaskFits(t, s, r, m, v, n, filed, listed, told, bound) ==
  /\ FileOK(s, r, m, filed, listed)
  /\ t \notin CliRuns => OutcomeOK(s, r, m, filed, told)
  /\ t \in CliRuns => CliOK(s, r, filed)
  /\ NumberOK(t \in CliRuns, s, m, v, n, filed, bound)

TaskOK(t) ==
  TaskFits(t, status[t], run[t], manifest[t], saved[t], number[t],
           t \in InFile, t \in ToSet(runs), t \in shutdown, next)

NewTasksDiffer ==
  \A t, u \in Tasks \ (CliRuns \cup Unnumbered) :
    number[t] = number[u] /\ number[t] # 0 => t = u

\* The queue holds the queued tasks, each once.
QueueIs(q, st) ==
  q \in Seq(Tasks) /\ IsInjective(q) /\ ToSet(q) = {t \in Tasks : st[t] = "queued"}

IInv ==
  /\ TypeOK
  /\ QueueIs(queue, status)
  /\ Cardinality(running) <= MaxConcurrent
  /\ IsInjective(todoFile) /\ IsInjective(runs)
  /\ \A t \in Tasks : TaskOK(t)
  /\ NewTasksDiffer

-----------------------------------------------------------------------------
(***************************************************************************)
(* The operators of the modules that are instanced are those of this one.  *)
(***************************************************************************)
LEMMA SameOperators ==
  ASSUME NEW S
  PROVE  /\ Board!IsFiniteSet(S) = IsFiniteSet(S) /\ P!IsFiniteSet(S) = IsFiniteSet(S)
         /\ Board!Cardinality(S) = Cardinality(S) /\ P!Cardinality(S) = Cardinality(S)
BY DEF Board!IsFiniteSet, P!IsFiniteSet, IsFiniteSet, Board!Cardinality, P!Cardinality,
   Cardinality

LEMMA SameTasks == P!TasksAssumption
BY PersistenceAssumption, SameOperators DEF P!TasksAssumption, PersistenceAssumption

-----------------------------------------------------------------------------
LEMMA BoardElements ==
  ASSUME NEW S, NEW s \in Seq(S)
  PROVE  ToSet(s) = P!Elems(s) /\ (IsInjective(s) <=> P!NoDup(s))
BY ElementsAre DEF ToSet, P!Elems, P!NoDup

-----------------------------------------------------------------------------
(***************************************************************************)
(* What the recursive functions of the model compute.                      *)
(***************************************************************************)
LEMMA FilteredIs ==
  ASSUME NEW S, NEW s \in Seq(S), NEW out
  PROVE  /\ Filtered(s, out) \in Seq(S)
         /\ ToSet(Filtered(s, out)) = ToSet(s) \ out
         /\ IsInjective(s) => IsInjective(Filtered(s, out))
<1> DEFINE n == Len(s)
           V == Seq(S)
           step == [i \in 1 .. n |-> [v \in V |-> IF s[i] \in out THEN v ELSE Append(v, s[i])]]
           body(f) == [i \in 0 .. n |-> CASE i = 0 -> <<>>
                                          [] i > 0 /\ s[i] \in out -> f[i - 1]
                                          [] OTHER -> Append(f[i - 1], s[i])]
           kept == CHOOSE f : f = body(f)
<1>1. n \in Nat /\ \A i \in 1 .. n : s[i] \in S
  BY ElementsAre, ElementOfSeq
<1>2. \E f : f = body(f)
  <2>1. <<>> \in V /\ StepsStay(step, n, V)
    BY <1>1 DEF StepsStay
  <2> HIDE DEF step, V
  <2>2. PICK f : Solution(f, n, V, <<>>, step)
    BY <1>1, <2>1, Recursion
  <2>3. ASSUME NEW i \in 0 .. n
        PROVE  f[i] = CASE i = 0 -> <<>>
                        [] i > 0 /\ s[i] \in out -> f[i - 1]
                        [] OTHER -> Append(f[i - 1], s[i])
    <3>1. CASE i = 0
      BY <2>2, <3>1 DEF Solution
    <3>2. CASE i # 0
      <4>1. i > 0 /\ i \in 1 .. n /\ i - 1 \in 0 .. n
        BY <1>1, <3>2
      <4>2. f[i] = step[i][f[i - 1]] /\ f[i - 1] \in V
        BY <2>2, <3>2, <4>1 DEF Solution
      <4>3. f[i] = IF s[i] \in out THEN f[i - 1] ELSE Append(f[i - 1], s[i])
        BY <4>1, <4>2 DEF step
      <4> QED
        BY <3>2, <4>1, <4>3
    <3> QED
      BY <3>1, <3>2
  <2>4. f = body(f)
    BY <2>2, <2>3 DEF Solution
  <2> QED
    BY <2>4
<1>3. kept = body(kept)
  <2> HIDE DEF body
  <2> QED
    BY <1>2
<1>4. Filtered(s, out) = kept[n]
  BY DEF Filtered
<1>5. kept[0] = <<>> /\ \A i \in 1 .. n :
        kept[i] = IF s[i] \in out THEN kept[i - 1] ELSE Append(kept[i - 1], s[i])
  <2> HIDE DEF kept
  <2>1. \A i \in 0 .. n : kept[i] = CASE i = 0 -> <<>>
                                      [] i > 0 /\ s[i] \in out -> kept[i - 1]
                                      [] OTHER -> Append(kept[i - 1], s[i])
    BY <1>3
  <2>2. 0 \in 0 .. n /\ \A i \in 1 .. n : i \in 0 .. n /\ i > 0 /\ i # 0
    BY <1>1
  <2> QED
    BY <2>1, <2>2
<1> HIDE DEF kept
<1> DEFINE I == {i \in 0 .. n :
                   /\ kept[i] \in Seq(S)
                   /\ ToSet(kept[i]) = {s[j] : j \in 1 .. i} \ out
                   /\ IsInjective(s) => IsInjective(kept[i])}
<1>6. 0 \in I
  <2>1. {s[j] : j \in 1 .. 0} = {} /\ 0 \in 0 .. n
    BY <1>1
  <2> QED
    BY <1>5, <2>1, EmptyIs
<1>7. ASSUME NEW i \in 1 .. n, i - 1 \in I
      PROVE  i \in I
  <2>1. /\ kept[i - 1] \in Seq(S) /\ i \in 0 .. n /\ s[i] \in S
        /\ ToSet(kept[i - 1]) = {s[j] : j \in 1 .. i - 1} \ out
        /\ IsInjective(s) => IsInjective(kept[i - 1])
    BY <1>1, <1>7
  <2>2. {s[j] : j \in 1 .. i} = {s[j] : j \in 1 .. i - 1} \cup {s[i]}
    <3>1. 1 .. i = 1 .. i - 1 \cup {i}
      OBVIOUS
    <3> QED
      BY <3>1
  <2>3. CASE s[i] \in out
    BY <1>5, <2>1, <2>2, <2>3
  <2>4. CASE s[i] \notin out
    <3>1. kept[i] = Append(kept[i - 1], s[i])
      BY <1>5, <2>4
    <3>2. IsInjective(s) => s[i] \notin ToSet(kept[i - 1])
      <4>1. IsInjective(s) => \A j \in 1 .. i - 1 : s[j] # s[i]
        BY <1>1, ElementsAre
      <4> QED
        BY <2>1, <4>1
    <3>3. /\ kept[i] \in Seq(S) /\ ToSet(kept[i]) = ToSet(kept[i - 1]) \cup {s[i]}
          /\ IsInjective(s) => IsInjective(kept[i])
      BY <2>1, <3>1, <3>2, AppendIs
    <3> QED
      BY <2>1, <2>2, <2>4, <3>3
  <2> QED
    BY <2>3, <2>4
<1>8. n \in I
  <2> HIDE DEF I
  <2>1. 0 .. n \subseteq I
    BY <1>1, <1>6, <1>7, UpTo
  <2> QED
    BY <1>1, <2>1
<1> QED
  BY <1>4, <1>8, ElementsAre

Numberings == [next : Nat \ {0}, number : [Tasks -> Nat]]

LEMMA RegisterIs ==
  ASSUME saved \in [Tasks -> Nat], NEW board \in Numberings, NEW t \in Tasks
  PROVE  LET after == Register(board, t)
         IN  /\ after \in Numberings /\ board.next <= after.next
             /\ \A u \in Tasks \ {t} : after.number[u] = board.number[u]
             /\ after.number[t] # 0 /\ after.number[t] < after.next
             /\ saved[t] # 0 => after.number[t] = saved[t]
<1> DEFINE n == IF saved[t] = 0 THEN board.next ELSE saved[t]
           after == Register(board, t)
<1>1. /\ board.next \in Nat \ {0} /\ board.number \in [Tasks -> Nat] /\ saved[t] \in Nat
      /\ n \in Nat \ {0}
  BY DEF Numberings
<1>2. /\ after.next = (IF n >= board.next THEN n + 1 ELSE board.next)
      /\ after.number = [board.number EXCEPT ![t] = n]
      /\ after = [next |-> after.next, number |-> after.number]
  BY DEF Register
<1>3. saved[t] # 0 => n = saved[t]
  OBVIOUS
<1> HIDE DEF n, after
<1>4. /\ after.next \in Nat \ {0} /\ after.number \in [Tasks -> Nat] /\ after.number[t] = n
      /\ n < after.next /\ board.next <= after.next
      /\ \A u \in Tasks \ {t} : after.number[u] = board.number[u]
  BY <1>1, <1>2
<1>5. after \in Numberings
  BY <1>2, <1>4 DEF Numberings
<1> QED
  BY <1>1, <1>3, <1>4, <1>5 DEF after

LEMMA RegisteringIs ==
  ASSUME saved \in [Tasks -> Nat], NEW order \in Seq(Tasks)
  PROVE  LET board == Registering(order)[Len(order)]
         IN  /\ board \in Numberings
             /\ \A t \in Tasks : board.number[t] < board.next
             /\ \A t \in ToSet(order) :
                  board.number[t] # 0 /\ (saved[t] # 0 => board.number[t] = saved[t])
             /\ \A t \in Tasks \ ToSet(order) : board.number[t] = 0
<1> DEFINE n == Len(order)
           V == Numberings
           base == [next |-> 1, number |-> [t \in Tasks |-> 0]]
           step == [i \in 1 .. n |-> [b \in V |-> Register(b, order[i])]]
           body(f) == [i \in 0 .. n |-> IF i = 0 THEN [next |-> 1, number |-> [t \in Tasks |-> 0]]
                                        ELSE Register(f[i - 1], order[i])]
           board == CHOOSE f : f = body(f)
<1>1. n \in Nat /\ \A i \in 1 .. n : order[i] \in Tasks
  BY ElementsAre, ElementOfSeq
<1>2. base \in V /\ base.next = 1 /\ \A t \in Tasks : base.number[t] = 0
  BY DEF Numberings
<1>3. \E f : f = body(f)
  <2>1. StepsStay(step, n, V)
    BY <1>1, RegisterIs DEF StepsStay
  <2> HIDE DEF step, V, base
  <2>2. PICK f : Solution(f, n, V, base, step)
    BY <1>1, <1>2, <2>1, Recursion
  <2>3. ASSUME NEW i \in 0 .. n
        PROVE  f[i] = IF i = 0 THEN base ELSE Register(f[i - 1], order[i])
    <3>1. CASE i = 0
      BY <2>2, <3>1 DEF Solution
    <3>2. CASE i # 0
      <4>1. i \in 1 .. n /\ i - 1 \in 0 .. n
        BY <1>1, <3>2
      <4>2. f[i] = step[i][f[i - 1]] /\ f[i - 1] \in V
        BY <2>2, <3>2, <4>1 DEF Solution
      <4> QED
        BY <3>2, <4>1, <4>2 DEF step
    <3> QED
      BY <3>1, <3>2
  <2>4. f = body(f)
    BY <2>2, <2>3 DEF Solution, base
  <2> QED
    BY <2>4
<1>4. board = body(board)
  <2> HIDE DEF body
  <2> QED
    BY <1>3
<1>5. Registering(order) = board
  BY DEF Registering
<1>6. board[0] = base /\ \A i \in 1 .. n : board[i] = Register(board[i - 1], order[i])
  <2> HIDE DEF board
  <2>1. \A i \in 0 .. n : board[i] = IF i = 0 THEN base ELSE Register(board[i - 1], order[i])
    BY <1>4
  <2>2. 0 \in 0 .. n /\ \A i \in 1 .. n : i \in 0 .. n /\ i # 0
    BY <1>1
  <2> QED
    BY <2>1, <2>2
<1> HIDE DEF board, base
<1> DEFINE Met(i) == {order[j] : j \in 1 .. i}
           I == {i \in 0 .. n :
                   /\ board[i] \in Numberings
                   /\ \A t \in Tasks : board[i].number[t] < board[i].next
                   /\ \A t \in Met(i) : board[i].number[t] # 0
                                        /\ (saved[t] # 0 => board[i].number[t] = saved[t])
                   /\ \A t \in Tasks \ Met(i) : board[i].number[t] = 0}
<1>7. 0 \in I
  <2>1. Met(0) = {} /\ 0 \in 0 .. n
    BY <1>1
  <2> QED
    BY <1>2, <1>6, <2>1
<1>8. ASSUME NEW i \in 1 .. n, i - 1 \in I
      PROVE  i \in I
  <2> DEFINE t == order[i]
             before == board[i - 1]
             after == board[i]
  <2>1. /\ before \in Numberings /\ i \in 0 .. n /\ t \in Tasks
        /\ \A u \in Tasks : before.number[u] < before.next
        /\ \A u \in Met(i - 1) : before.number[u] # 0
                                 /\ (saved[u] # 0 => before.number[u] = saved[u])
        /\ \A u \in Tasks \ Met(i - 1) : before.number[u] = 0
    BY <1>1, <1>8
  <2>2. Met(i) = Met(i - 1) \cup {t} /\ Met(i) \subseteq Tasks
    <3>1. 1 .. i = 1 .. i - 1 \cup {i} /\ 1 .. i \subseteq 1 .. n
      BY <1>1
    <3> QED
      BY <1>1, <3>1
  <2>3. after = Register(before, t)
    BY <1>6
  <2> HIDE DEF t, before, after, Met
  <2>4. /\ after \in Numberings /\ before.next <= after.next
        /\ \A u \in Tasks \ {t} : after.number[u] = before.number[u]
        /\ after.number[t] # 0 /\ after.number[t] < after.next
        /\ saved[t] # 0 => after.number[t] = saved[t]
    BY <2>1, <2>3, RegisterIs
  <2>5. ASSUME NEW u \in Tasks PROVE after.number[u] < after.next
    <3>1. before.number[u] \in Nat /\ before.next \in Nat /\ after.next \in Nat
      BY <2>1, <2>4 DEF Numberings
    <3> QED
      BY <2>1, <2>4, <3>1
  <2>6. \A u \in Met(i) : after.number[u] # 0 /\ (saved[u] # 0 => after.number[u] = saved[u])
    BY <2>1, <2>2, <2>4
  <2>7. \A u \in Tasks \ Met(i) : after.number[u] = 0
    BY <2>1, <2>2, <2>4
  <2> QED
    BY <2>1, <2>4, <2>5, <2>6, <2>7 DEF after
<1>9. n \in I
  <2> HIDE DEF I
  <2>1. 0 .. n \subseteq I
    BY <1>1, <1>7, <1>8, UpTo
  <2> QED
    BY <1>1, <2>1
<1> QED
  BY <1>5, <1>9, ElementsAre

-----------------------------------------------------------------------------
(***************************************************************************)
(* The scheduler: leaving the queue, and draining it.                      *)
(***************************************************************************)
LEMMA DequeuedIs ==
  ASSUME NEW q \in Seq(Tasks), IsInjective(q), NEW t \in Tasks
  PROVE  LET d == Board!Dequeued(q, t)
         IN  d \in Seq(Tasks) /\ IsInjective(d) /\ ToSet(d) = ToSet(q) \ {t}
<1> DEFINE d == Board!Dequeued(q, t)
<1>1. d = P!Dequeued(q, t)
  BY DEF Board!Dequeued, P!Dequeued
<1>2. CASE t \in ToSet(q)
  <2>1. P!NoDup(q) /\ t \in P!Elems(q)
    BY <1>2, ElementsAre, BoardElements
  <2>2. d \in Seq(Tasks) /\ P!NoDup(d) /\ P!Elems(d) = P!Elems(q) \ {t}
    BY <1>1, <2>1, SameTasks, P!DequeuedIs
  <2> HIDE DEF d
  <2>3. d \in Seq(Tasks) /\ IsInjective(d) /\ ToSet(d) = ToSet(q) \ {t}
    BY <2>2, ElementsAre, BoardElements
  <2> QED
    BY <2>3 DEF d
<1>3. CASE t \notin ToSet(q)
  <2>1. d = q
    BY <1>3, ElementsAre DEF Board!Dequeued
  <2> QED
    BY <1>3, <2>1
<1> QED
  BY <1>2, <1>3

LEMMA StartedIs ==
  ASSUME NEW q \in Seq(Tasks), IsInjective(q), NEW held \in SUBSET Tasks,
         Cardinality(held) <= MaxConcurrent
  PROVE  LET S == Board!Started(q, held)
             rest == SubSeq(q, Cardinality(S) + 1, Len(q))
         IN  /\ S \subseteq ToSet(q) /\ Cardinality(held \cup S) <= MaxConcurrent
             /\ rest \in Seq(Tasks) /\ IsInjective(rest) /\ ToSet(rest) = ToSet(q) \ S
<1> DEFINE S == Board!Started(q, held)
           rest == SubSeq(q, Cardinality(S) + 1, Len(q))
<1>1. S = P!Started(q, held)
  BY DEF Board!Started, P!Started, Board!Least, P!Least, Board!Cardinality, P!Cardinality
<1>2. Len(q) \in Nat /\ P!NoDup(q) /\ P!Cardinality(held) <= MaxConcurrent
  BY ElementsAre, BoardElements, SameOperators
<1>3. PICK k \in 0 .. Len(q) :
        /\ S = {q[i] : i \in 1 .. k} /\ IsFiniteSet(S) /\ Cardinality(S) = k
        /\ Cardinality(held) + k <= MaxConcurrent
  BY <1>1, <1>2, SameTasks, SameOperators, P!StartedIs
<1>4. rest = SubSeq(q, k + 1, Len(q))
  BY <1>3
<1> HIDE DEF S, rest
<1>5. S \subseteq ToSet(q)
  BY <1>2, <1>3, ElementsAre
<1>6. Cardinality(held \cup S) <= MaxConcurrent
  <2>1. IsFiniteSet(held)
    BY PersistenceAssumption, FS_Subset DEF PersistenceAssumption
  <2>2. /\ Cardinality(held \cup S) = Cardinality(held) + Cardinality(S) - Cardinality(held \cap S)
        /\ Cardinality(held) \in Nat /\ Cardinality(held \cap S) \in Nat
    BY <1>3, <2>1, FS_Union, FS_Intersection, FS_CardinalityType
  <2> QED
    BY <1>3, <2>2, PersistenceAssumption DEF PersistenceAssumption
<1>7. /\ rest \in Seq(Tasks) /\ Len(rest) = Len(q) - k
      /\ \A i \in 1 .. Len(q) - k : rest[i] = q[k + i]
  <2>1. \A i \in k + 1 .. Len(q) : q[i] \in Tasks
    BY <1>2, ElementOfSeq
  <2>2. /\ rest \in Seq(Tasks)
        /\ Len(rest) = IF k + 1 <= Len(q) THEN Len(q) - (k + 1) + 1 ELSE 0
        /\ \A i \in 1 .. Len(q) - (k + 1) + 1 : rest[i] = q[k + 1 + i - 1]
    BY <1>2, <1>4, <2>1, SubSeqProperties
  <2>3. Len(rest) = Len(q) - k
    BY <1>2, <2>2
  <2>4. ASSUME NEW i \in 1 .. Len(q) - k PROVE rest[i] = q[k + i]
    <3>1. i \in 1 .. Len(q) - (k + 1) + 1 /\ k + 1 + i - 1 = k + i
      BY <1>2
    <3> QED
      BY <2>2, <3>1
  <2> QED
    BY <2>2, <2>3, <2>4
<1>8. IsInjective(rest)
  <2>1. ASSUME NEW i \in 1 .. Len(rest), NEW j \in 1 .. Len(rest), rest[i] = rest[j]
        PROVE  i = j
    <3>1. k + i \in 1 .. Len(q) /\ k + j \in 1 .. Len(q) /\ q[k + i] = q[k + j]
      BY <1>2, <1>7, <2>1
    <3>2. k + i = k + j
      BY <3>1, ElementsAre
    <3> QED
      BY <3>2
  <2> QED
    BY <1>7, <2>1, ElementsAre
<1>9. ToSet(rest) = ToSet(q) \ S
  <2>1. ASSUME NEW i \in 1 .. Len(rest) PROVE rest[i] \in ToSet(q) \ S
    <3>1. k + i \in 1 .. Len(q) /\ rest[i] = q[k + i] /\ \A j \in 1 .. k : j # k + i /\ j \in 1 .. Len(q)
      BY <1>2, <1>7
    <3>2. \A j \in 1 .. k : q[j] # q[k + i]
      BY <3>1, ElementsAre
    <3> QED
      BY <1>3, <3>1, <3>2, ElementsAre
  <2>2. ASSUME NEW j \in 1 .. Len(q), q[j] \notin S PROVE q[j] \in ToSet(rest)
    <3>1. j - k \in 1 .. Len(rest) /\ k + (j - k) = j
      BY <1>2, <1>3, <1>7, <2>2
    <3>2. rest[j - k] = q[j]
      BY <1>7, <3>1
    <3>3. ToSet(rest) = {rest[i] : i \in 1 .. Len(rest)}
      BY <1>7, ElementsAre
    <3> QED
      BY <3>1, <3>2, <3>3
  <2>3. ToSet(rest) = {rest[i] : i \in 1 .. Len(rest)} /\ ToSet(q) = {q[i] : i \in 1 .. Len(q)}
    BY <1>7, ElementsAre
  <2> QED
    BY <2>1, <2>2, <2>3
<1> QED
  BY <1>5, <1>6, <1>7, <1>8, <1>9 DEF S, rest

\* What the scheduler may be while the tasks under way are cancelled.
Schedulers ==
  {b \in [queue : Seq(Tasks), held : SUBSET Tasks, began : SUBSET Tasks] :
     /\ IsInjective(b.queue) /\ Cardinality(b.held) <= MaxConcurrent
     /\ ToSet(b.queue) \subseteq ToSet(queue) /\ b.began \subseteq ToSet(queue)}

LEMMA CancelNextIs ==
  ASSUME NEW b \in Schedulers, NEW t \in Tasks
  PROVE  /\ CancelNext(b, t) \in Schedulers
         /\ ToSet(CancelNext(b, t).queue) \subseteq ToSet(b.queue) \ {t}
<1> DEFINE q == Board!Dequeued(b.queue, t)
           held == b.held \ {t}
           S == Board!Started(q, held)
           rest == SubSeq(q, Cardinality(S) + 1, Len(q))
<1>1. /\ b.queue \in Seq(Tasks) /\ IsInjective(b.queue)
      /\ b.held \in SUBSET Tasks /\ b.began \in SUBSET Tasks
      /\ Cardinality(b.held) <= MaxConcurrent
      /\ ToSet(b.queue) \subseteq ToSet(queue) /\ b.began \subseteq ToSet(queue)
  BY DEF Schedulers
<1>2. q \in Seq(Tasks) /\ IsInjective(q) /\ ToSet(q) = ToSet(b.queue) \ {t}
  BY <1>1, DequeuedIs
<1>3. held \in SUBSET Tasks /\ Cardinality(held) <= MaxConcurrent
  <2>1. IsFiniteSet(b.held)
    BY <1>1, PersistenceAssumption, FS_Subset DEF PersistenceAssumption
  <2>2. Cardinality(held) <= Cardinality(b.held) /\ Cardinality(held) \in Nat
        /\ Cardinality(b.held) \in Nat
    BY <2>1, FS_Subset, FS_CardinalityType
  <2> QED
    BY <1>1, <2>2, PersistenceAssumption DEF PersistenceAssumption
<1>4. CancelNext(b, t) = [queue |-> rest, held |-> held \cup S, began |-> b.began \cup S]
  BY DEF CancelNext
<1> HIDE DEF q, held
<1>5. /\ S \subseteq ToSet(q) /\ Cardinality(held \cup S) <= MaxConcurrent
      /\ rest \in Seq(Tasks) /\ IsInjective(rest) /\ ToSet(rest) = ToSet(q) \ S
  BY <1>2, <1>3, StartedIs
<1> HIDE DEF S, rest
<1>6. ToSet(q) \subseteq Tasks
  BY <1>2, ElementsAre
<1>7. CancelNext(b, t) \in Schedulers
  <2> DEFINE c == CancelNext(b, t)
  <2>1. c.queue = rest /\ c.held = held \cup S /\ c.began = b.began \cup S
    BY <1>4
  <2>2. c \in [queue : Seq(Tasks), held : SUBSET Tasks, began : SUBSET Tasks]
    BY <1>1, <1>3, <1>4, <1>5, <1>6
  <2> HIDE DEF c
  <2>3. /\ IsInjective(c.queue) /\ Cardinality(c.held) <= MaxConcurrent
        /\ ToSet(c.queue) \subseteq ToSet(queue) /\ c.began \subseteq ToSet(queue)
    BY <1>1, <1>2, <1>5, <2>1
  <2>4. c \in Schedulers
    BY <2>2, <2>3 DEF Schedulers
  <2> QED
    BY <2>4 DEF c
<1> QED
  BY <1>2, <1>4, <1>5, <1>7

LEMMA CancellingIs ==
  ASSUME queue \in Seq(Tasks), IsInjective(queue),
         running \in SUBSET Tasks, Cardinality(running) <= MaxConcurrent,
         NEW order \in Seq(Tasks)
  PROVE  LET end == Cancelling(order)[Len(order)]
         IN  /\ end \in Schedulers
             /\ ToSet(end.queue) \cap ToSet(order) = {}
<1> DEFINE n == Len(order)
           V == Schedulers
           base == [queue |-> queue, held |-> running, began |-> {}]
           step == [i \in 1 .. n |-> [b \in V |-> CancelNext(b, order[i])]]
           body(f) == [i \in 0 .. n |-> IF i = 0 THEN [queue |-> queue, held |-> running, began |-> {}]
                                        ELSE CancelNext(f[i - 1], order[i])]
           board == CHOOSE f : f = body(f)
<1>1. n \in Nat /\ \A i \in 1 .. n : order[i] \in Tasks
  BY ElementsAre, ElementOfSeq
<1>2. base \in V
  BY DEF Schedulers
<1>3. \E f : f = body(f)
  <2>1. StepsStay(step, n, V)
    BY <1>1, CancelNextIs DEF StepsStay
  <2> HIDE DEF step, V, base
  <2>2. PICK f : Solution(f, n, V, base, step)
    BY <1>1, <1>2, <2>1, Recursion
  <2>3. ASSUME NEW i \in 0 .. n
        PROVE  f[i] = IF i = 0 THEN base ELSE CancelNext(f[i - 1], order[i])
    <3>1. CASE i = 0
      BY <2>2, <3>1 DEF Solution
    <3>2. CASE i # 0
      <4>1. i \in 1 .. n /\ i - 1 \in 0 .. n
        BY <1>1, <3>2
      <4>2. f[i] = step[i][f[i - 1]] /\ f[i - 1] \in V
        BY <2>2, <3>2, <4>1 DEF Solution
      <4> QED
        BY <3>2, <4>1, <4>2 DEF step
    <3> QED
      BY <3>1, <3>2
  <2>4. f = body(f)
    BY <2>2, <2>3 DEF Solution, base
  <2> QED
    BY <2>4
<1>4. board = body(board)
  <2> HIDE DEF body
  <2> QED
    BY <1>3
<1>5. Cancelling(order) = board
  BY DEF Cancelling
<1>6. board[0] = base /\ \A i \in 1 .. n : board[i] = CancelNext(board[i - 1], order[i])
  <2> HIDE DEF board
  <2>1. \A i \in 0 .. n : board[i] = IF i = 0 THEN base ELSE CancelNext(board[i - 1], order[i])
    BY <1>4
  <2>2. 0 \in 0 .. n /\ \A i \in 1 .. n : i \in 0 .. n /\ i # 0
    BY <1>1
  <2> QED
    BY <2>1, <2>2
<1> HIDE DEF board, base
<1> DEFINE Met(i) == {order[j] : j \in 1 .. i}
           I == {i \in 0 .. n : board[i] \in Schedulers /\ ToSet(board[i].queue) \cap Met(i) = {}}
<1>7. 0 \in I
  <2>1. Met(0) = {} /\ 0 \in 0 .. n
    BY <1>1
  <2> QED
    BY <1>2, <1>6, <2>1
<1>8. ASSUME NEW i \in 1 .. n, i - 1 \in I
      PROVE  i \in I
  <2>1. /\ board[i - 1] \in Schedulers /\ i \in 0 .. n /\ order[i] \in Tasks
        /\ ToSet(board[i - 1].queue) \cap Met(i - 1) = {}
    BY <1>1, <1>8
  <2>2. Met(i) = Met(i - 1) \cup {order[i]}
    <3>1. 1 .. i = 1 .. i - 1 \cup {i}
      OBVIOUS
    <3> QED
      BY <3>1
  <2> HIDE DEF Met
  <2>3. board[i] = CancelNext(board[i - 1], order[i])
    BY <1>6
  <2> HIDE DEF I
  <2>4. /\ CancelNext(board[i - 1], order[i]) \in Schedulers
        /\ ToSet(CancelNext(board[i - 1], order[i]).queue)
             \subseteq ToSet(board[i - 1].queue) \ {order[i]}
    BY <2>1, CancelNextIs
  <2> QED
    BY <2>1, <2>2, <2>3, <2>4 DEF I
<1>9. n \in I
  <2> HIDE DEF I
  <2>1. 0 .. n \subseteq I
    BY <1>1, <1>7, <1>8, UpTo
  <2> QED
    BY <1>1, <2>1
<1> QED
  BY <1>5, <1>9, ElementsAre

-----------------------------------------------------------------------------
(***************************************************************************)
(* A step that drains the queue.  The board is first changed to st and rn, *)
(* with the queue q and the slots `held`; the tasks that start then are in *)
(* a state that fits as well.                                              *)
(***************************************************************************)
LEMMA BoardDrains ==
  ASSUME NEW q, NEW held \in SUBSET Tasks, NEW st \in [Tasks -> Board!Status],
         NEW rn \in [Tasks -> Board!RunState],
         QueueIs(q, st), Cardinality(held) <= MaxConcurrent, shutdown' \in SUBSET Tasks,
         Board!Drain(q, held, st, rn)
  PROVE  /\ Board!TypeOK' /\ QueueIs(queue', status') /\ Cardinality(running') <= MaxConcurrent
         /\ \A t \in Tasks :
              \/ status'[t] = st[t] /\ run'[t] = rn[t]
              \/ st[t] = "queued" /\ status'[t] = "running" /\ run'[t] \in {"active", "failing"}
<1> DEFINE S == Board!Started(q, held)
           rest == SubSeq(q, Cardinality(S) + 1, Len(q))
<1>1. q \in Seq(Tasks) /\ IsInjective(q) /\ ToSet(q) = {t \in Tasks : st[t] = "queued"}
  BY DEF QueueIs
<1>2. /\ S \subseteq ToSet(q) /\ Cardinality(held \cup S) <= MaxConcurrent
      /\ rest \in Seq(Tasks) /\ IsInjective(rest) /\ ToSet(rest) = ToSet(q) \ S
  BY <1>1, StartedIs
<1>3. /\ queue' = rest /\ running' = held \cup S
      /\ status' = [t \in Tasks |-> IF t \in S THEN "running" ELSE st[t]]
      /\ run' = [t \in Tasks |-> CASE t \in S \cap Misconfigured -> "failing"
                                   [] t \in S \ Misconfigured -> "active"
                                   [] OTHER -> rn[t]]
  BY SameOperators DEF Board!Drain
<1> HIDE DEF S, rest
<1>4. ASSUME NEW t \in Tasks
      PROVE  \/ t \notin S /\ status'[t] = st[t] /\ run'[t] = rn[t]
             \/ t \in S /\ st[t] = "queued" /\ status'[t] = "running"
                /\ run'[t] \in {"active", "failing"}
  BY <1>1, <1>2, <1>3
<1>5. ToSet(rest) = {t \in Tasks : status'[t] = "queued"}
  BY <1>1, <1>2, <1>4
<1>6. status' \in [Tasks -> Board!Status]
  BY <1>3 DEF Board!Status
<1>7. run' \in [Tasks -> Board!RunState]
  <2>1. {"active", "failing"} \subseteq Board!RunState
    BY DEF Board!RunState, Board!Live
  <2>2. \A t \in Tasks : run'[t] \in Board!RunState
    BY <1>4, <2>1
  <2> QED
    BY <1>3, <2>2
<1>8. running' \in SUBSET Tasks
  BY <1>1, <1>2, <1>3
<1> QED
  BY <1>2, <1>3, <1>4, <1>5, <1>6, <1>7, <1>8 DEF Board!TypeOK, QueueIs

\* What the runs that begin write, of those that may.
LEMMA RunsBegin ==
  ASSUME NEW onDisk \in [Tasks -> Nat], TypeOK, number' \in [Tasks -> Nat], IsInjective(runs),
         BeginRuns(onDisk), Beginning \cap ToSet(runs) = {}
  PROVE  /\ runs' \in Seq(Tasks) /\ IsInjective(runs')
         /\ manifest' \in [Tasks -> ManifestStatus \cup {"none"}] /\ saved' \in [Tasks -> Nat]
         /\ \A t \in Tasks :
              \/ /\ t \in ToSet(runs') <=> t \in ToSet(runs)
                 /\ manifest'[t] = manifest[t] /\ saved'[t] = onDisk[t]
              \/ /\ run[t] = "none" /\ run'[t] = "active"
                 /\ t \in ToSet(runs') /\ manifest'[t] = "running" /\ saved'[t] = number'[t]
<1>1. PICK begin \in {Beginning, {}} :
        /\ \E order \in SetToSeqs(begin) : runs' = runs \o order
        /\ manifest' = [t \in Tasks |-> IF t \in begin THEN "running" ELSE manifest[t]]
        /\ saved' = [t \in Tasks |-> IF t \in begin THEN number'[t] ELSE onDisk[t]]
  BY DEF BeginRuns
<1>2. begin \in SUBSET Tasks /\ begin \cap ToSet(runs) = {}
      /\ \A t \in begin : run[t] = "none" /\ run'[t] = "active"
  BY <1>1 DEF Beginning
<1>3. PICK order \in SetToSeqs(begin) : runs' = runs \o order
  BY <1>1
<1>4. order \in Seq(begin) /\ ToSet(order) = begin /\ IsInjective(order)
  <2>1. IsFiniteSet(begin)
    BY <1>2, PersistenceAssumption, FS_Subset DEF PersistenceAssumption
  <2> QED
    BY <2>1, OrderIs
<1>5. order \in Seq(Tasks)
  BY <1>2, <1>4, SeqMonotonic
<1>6. runs \in Seq(Tasks) /\ manifest \in [Tasks -> ManifestStatus \cup {"none"}]
  BY DEF TypeOK
<1>7. runs' \in Seq(Tasks) /\ ToSet(runs') = ToSet(runs) \cup begin /\ IsInjective(runs')
  BY <1>2, <1>3, <1>4, <1>5, <1>6, ConcatIs
<1>8. manifest' \in [Tasks -> ManifestStatus \cup {"none"}]
  BY <1>1, <1>6 DEF ManifestStatus
<1>9. saved' \in [Tasks -> Nat]
  BY <1>1
<1> QED
  BY <1>1, <1>2, <1>7, <1>8, <1>9

\* A task that leaves the queue, with or without a manifest.
LEMMA StartFits ==
  ASSUME NEW t, NEW m, NEW v, NEW n, NEW filed, NEW listed, NEW told, NEW bound,
         TaskFits(t, "queued", "none", m, v, n, filed, listed, told, bound)
  PROVE  /\ TaskFits(t, "running", "failing", m, v, n, filed, listed, told, bound)
         /\ TaskFits(t, "running", "active", m, v, n, filed, listed, told, bound)
         /\ TaskFits(t, "running", "active", "running", n, n, filed, TRUE, told, bound)
BY DEF TaskFits, FileOK, OutcomeOK, CliOK, NumberOK, Board!Live

\* The board fits the files before the queue is drained.
Fitting(st, rn, onDisk) ==
  \A t \in Tasks :
    /\ TaskFits(t, st[t], rn[t], manifest[t], onDisk[t], number'[t],
                t \in ToSet(todoFile'), t \in ToSet(runs), t \in shutdown', next')
    /\ rn[t] = "active" => run[t] # "none"

LEMMA DrainFits ==
  ASSUME NEW q, NEW held \in SUBSET Tasks, NEW st \in [Tasks -> Board!Status],
         NEW rn \in [Tasks -> Board!RunState], NEW onDisk \in [Tasks -> Nat],
         QueueIs(q, st), Cardinality(held) <= MaxConcurrent, shutdown' \in SUBSET Tasks,
         TypeOK, IsInjective(runs), number' \in [Tasks -> Nat],
         Board!Drain(q, held, st, rn), BeginRuns(onDisk), Fitting(st, rn, onDisk)
  PROVE  /\ Board!TypeOK' /\ QueueIs(queue', status') /\ Cardinality(running') <= MaxConcurrent
         /\ runs' \in Seq(Tasks) /\ IsInjective(runs')
         /\ manifest' \in [Tasks -> ManifestStatus \cup {"none"}] /\ saved' \in [Tasks -> Nat]
         /\ \A t \in Tasks : TaskOK(t)'
<1>1. /\ Board!TypeOK' /\ QueueIs(queue', status') /\ Cardinality(running') <= MaxConcurrent
      /\ \A t \in Tasks :
           \/ status'[t] = st[t] /\ run'[t] = rn[t]
           \/ st[t] = "queued" /\ status'[t] = "running" /\ run'[t] \in {"active", "failing"}
  BY BoardDrains
<1>2. Beginning \cap ToSet(runs) = {}
  <2>1. ASSUME NEW t \in Beginning PROVE t \notin ToSet(runs)
    <3>1. t \in Tasks /\ run[t] = "none" /\ run'[t] = "active"
      BY <2>1 DEF Beginning
    <3>2. st[t] = "queued"
      BY <1>1, <3>1 DEF Fitting
    <3>3. TaskFits(t, st[t], rn[t], manifest[t], onDisk[t], number'[t],
                   t \in ToSet(todoFile'), t \in ToSet(runs), t \in shutdown', next')
      BY <3>1 DEF Fitting
    <3> QED
      BY <3>2, <3>3 DEF TaskFits, FileOK
  <2> QED
    BY <2>1
<1>3. /\ runs' \in Seq(Tasks) /\ IsInjective(runs')
      /\ manifest' \in [Tasks -> ManifestStatus \cup {"none"}] /\ saved' \in [Tasks -> Nat]
      /\ \A t \in Tasks :
           \/ /\ t \in ToSet(runs') <=> t \in ToSet(runs)
              /\ manifest'[t] = manifest[t] /\ saved'[t] = onDisk[t]
           \/ /\ run[t] = "none" /\ run'[t] = "active"
              /\ t \in ToSet(runs') /\ manifest'[t] = "running" /\ saved'[t] = number'[t]
  BY <1>2, RunsBegin
<1>4. ASSUME NEW t \in Tasks PROVE TaskOK(t)'
  <2>1. TaskFits(t, st[t], rn[t], manifest[t], onDisk[t], number'[t],
                 t \in ToSet(todoFile'), t \in ToSet(runs), t \in shutdown', next')
        /\ (rn[t] = "active" => run[t] # "none")
    BY DEF Fitting
  <2> SUFFICES TaskFits(t, status'[t], run'[t], manifest'[t], saved'[t], number'[t],
                        t \in ToSet(todoFile'), t \in ToSet(runs'), t \in shutdown', next')
    BY DEF TaskOK, InFile
  <2>2. CASE status'[t] = st[t] /\ run'[t] = rn[t]
    <3>1. ~ (run[t] = "none" /\ run'[t] = "active")
      BY <2>1, <2>2
    <3>2. /\ t \in ToSet(runs') <=> t \in ToSet(runs)
          /\ manifest'[t] = manifest[t] /\ saved'[t] = onDisk[t]
      BY <1>3, <3>1
    <3> QED
      BY <2>1, <2>2, <3>2 DEF TaskFits, FileOK
  <2>3. CASE st[t] = "queued" /\ status'[t] = "running" /\ run'[t] \in {"active", "failing"}
    <3>1. rn[t] = "none"
      BY <2>1, <2>3 DEF TaskFits, FileOK
    <3>2. TaskFits(t, "queued", "none", manifest[t], onDisk[t], number'[t],
                   t \in ToSet(todoFile'), t \in ToSet(runs), t \in shutdown', next')
      BY <2>1, <2>3, <3>1
    <3>3. CASE /\ t \in ToSet(runs') <=> t \in ToSet(runs)
               /\ manifest'[t] = manifest[t] /\ saved'[t] = onDisk[t]
      <4>1. /\ TaskFits(t, "running", "failing", manifest[t], onDisk[t], number'[t],
                        t \in ToSet(todoFile'), t \in ToSet(runs), t \in shutdown', next')
            /\ TaskFits(t, "running", "active", manifest[t], onDisk[t], number'[t],
                        t \in ToSet(todoFile'), t \in ToSet(runs), t \in shutdown', next')
        BY <3>2, StartFits
      <4> QED
        BY <2>3, <3>3, <4>1 DEF TaskFits, FileOK
    <3>4. CASE /\ run[t] = "none" /\ run'[t] = "active"
               /\ t \in ToSet(runs') /\ manifest'[t] = "running" /\ saved'[t] = number'[t]
      <4>1. TaskFits(t, "running", "active", "running", number'[t], number'[t],
                     t \in ToSet(todoFile'), TRUE, t \in shutdown', next')
        BY <3>2, StartFits
      <4> QED
        BY <2>3, <3>4, <4>1 DEF TaskFits, FileOK
    <3> QED
      BY <1>3, <3>3, <3>4
  <2> QED
    BY <1>1, <2>2, <2>3
<1> QED
  BY <1>1, <1>3, <1>4

-----------------------------------------------------------------------------
(***************************************************************************)
(* Every step preserves the invariant, and keeps the numbers.              *)
(***************************************************************************)
NumbersStay ==
  \A t \in Tasks : status[t] # "absent" /\ status'[t] # "absent" => number'[t] = number[t]

StepOK == IInv' /\ NumbersStay

LEMMA Types ==
  ASSUME IInv
  PROVE  /\ status \in [Tasks -> Board!Status] /\ run \in [Tasks -> Board!RunState]
         /\ queue \in Seq(Tasks) /\ IsInjective(queue)
         /\ ToSet(queue) = {t \in Tasks : status[t] = "queued"}
         /\ running \in SUBSET Tasks /\ Cardinality(running) <= MaxConcurrent
         /\ shutdown \in SUBSET Tasks
         /\ number \in [Tasks -> Nat] /\ next \in Nat \ {0} /\ saved \in [Tasks -> Nat]
         /\ todoFile \in Seq(Tasks) /\ IsInjective(todoFile) /\ InFile \subseteq Tasks
         /\ runs \in Seq(Tasks) /\ IsInjective(runs) /\ ToSet(runs) \subseteq Tasks
         /\ manifest \in [Tasks -> ManifestStatus \cup {"none"}]
BY ElementsAre DEF IInv, QueueIs, TypeOK, Board!TypeOK, InFile

LEMMA Fit ==
  ASSUME IInv, NEW t \in Tasks
  PROVE  TaskFits(t, status[t], run[t], manifest[t], saved[t], number[t],
                  t \in ToSet(todoFile), t \in ToSet(runs), t \in shutdown, next)
BY DEF IInv, TaskOK, InFile

LEMMA RemovedIs ==
  ASSUME NEW held \in SUBSET Tasks, Cardinality(held) <= MaxConcurrent, NEW t
  PROVE  held \ {t} \in SUBSET Tasks /\ Cardinality(held \ {t}) <= MaxConcurrent
<1>1. IsFiniteSet(held)
  BY PersistenceAssumption, FS_Subset DEF PersistenceAssumption
<1>2. Cardinality(held \ {t}) <= Cardinality(held) /\ Cardinality(held \ {t}) \in Nat
      /\ Cardinality(held) \in Nat
  BY <1>1, FS_Subset, FS_CardinalityType
<1> QED
  BY <1>2, PersistenceAssumption DEF PersistenceAssumption

\* A drain that gives no number.
LEMMA DrainStep ==
  ASSUME IInv, UNCHANGED <<number, next>>, todoFile' \in Seq(Tasks), IsInjective(todoFile'),
         NEW q, NEW held \in SUBSET Tasks, NEW st \in [Tasks -> Board!Status],
         NEW rn \in [Tasks -> Board!RunState], NEW onDisk \in [Tasks -> Nat],
         QueueIs(q, st), Cardinality(held) <= MaxConcurrent, shutdown' \in SUBSET Tasks,
         Board!Drain(q, held, st, rn), BeginRuns(onDisk), Fitting(st, rn, onDisk)
  PROVE  StepOK
<1>1. TypeOK /\ IsInjective(runs) /\ number' \in [Tasks -> Nat] /\ next' \in Nat \ {0}
      /\ number' = number /\ next' = next
  BY Types DEF IInv
<1>2. /\ Board!TypeOK' /\ QueueIs(queue', status') /\ Cardinality(running') <= MaxConcurrent
      /\ runs' \in Seq(Tasks) /\ IsInjective(runs')
      /\ manifest' \in [Tasks -> ManifestStatus \cup {"none"}] /\ saved' \in [Tasks -> Nat]
      /\ \A t \in Tasks : TaskOK(t)'
  BY <1>1, DrainFits
<1>3. TypeOK'
  BY <1>1, <1>2 DEF TypeOK
<1>4. NewTasksDiffer'
  BY <1>1 DEF IInv, NewTasksDiffer
<1> QED
  BY <1>1, <1>2, <1>3, <1>4 DEF StepOK, IInv, NumbersStay

LEMMA CreateTaskOK ==
  ASSUME IInv, NEW t \in Tasks, CreateTask(t)
  PROVE  StepOK
<1> DEFINE q == Append(queue, t)
           st == [status EXCEPT ![t] = "queued"]
<1>1. /\ t \notin CliRuns /\ number' = [number EXCEPT ![t] = next] /\ next' = next + 1
      /\ status[t] = "absent" /\ Board!Drain(q, running, st, run) /\ shutdown' = shutdown
      /\ BeginRuns(saved) /\ todoFile' = todoFile
  BY DEF CreateTask, NewNumber, Board!CreateTask, Board!Enqueue
<1>2. st \in [Tasks -> Board!Status] /\ st[t] = "queued"
      /\ \A u \in Tasks \ {t} : st[u] = status[u]
  BY Types DEF Board!Status
<1>3. QueueIs(q, st)
  <2>1. q \in Seq(Tasks) /\ ToSet(q) = ToSet(queue) \cup {t} /\ IsInjective(q)
    BY <1>1, Types, AppendIs
  <2> HIDE DEF q, st
  <2>2. ToSet(q) = {u \in Tasks : st[u] = "queued"}
    BY <1>2, <2>1, Types
  <2> QED
    BY <2>1, <2>2 DEF QueueIs
<1> HIDE DEF q, st
<1>4. /\ number' \in [Tasks -> Nat] /\ next' \in Nat \ {0} /\ next < next'
      /\ number'[t] = next /\ \A u \in Tasks \ {t} : number'[u] = number[u]
  BY <1>1, Types
<1>5. ASSUME NEW u \in Tasks
      PROVE  /\ TaskFits(u, st[u], run[u], manifest[u], saved[u], number'[u],
                         u \in ToSet(todoFile'), u \in ToSet(runs), u \in shutdown', next')
             /\ run[u] = "active" => run[u] # "none"
  <2>1. TaskFits(u, status[u], run[u], manifest[u], saved[u], number[u],
                 u \in ToSet(todoFile), u \in ToSet(runs), u \in shutdown, next)
    BY Fit
  <2>2. number[u] \in Nat /\ next \in Nat \ {0} /\ next' \in Nat
    BY <1>4, Types
  <2>3. CASE u # t
    BY <1>1, <1>2, <1>4, <2>1, <2>2, <2>3 DEF TaskFits, FileOK, OutcomeOK, CliOK, NumberOK
  <2>4. CASE u = t
    <3>1. number'[u] = next /\ st[u] = "queued" /\ status[u] = "absent" /\ u \notin CliRuns
      BY <1>1, <1>2, <1>4, <2>4
    <3>2. /\ manifest[u] = "none" /\ run[u] = "none" /\ saved[u] = 0
          /\ u \notin ToSet(todoFile) /\ u \notin ToSet(runs)
      BY <2>1, <3>1 DEF TaskFits, FileOK, OutcomeOK, NumberOK
    <3>3. FileOK("queued", "none", "none", FALSE, FALSE)
          /\ OutcomeOK("queued", "none", "none", FALSE, u \in shutdown)
      BY DEF FileOK, OutcomeOK, Board!Live
    <3>4. NumberOK(FALSE, "queued", "none", 0, next, FALSE, next')
      BY <1>4, <2>2 DEF NumberOK
    <3> QED
      BY <1>1, <3>1, <3>2, <3>3, <3>4 DEF TaskFits, FileOK, OutcomeOK, NumberOK
  <2> QED
    BY <2>3, <2>4
<1>6. TypeOK /\ todoFile' \in Seq(Tasks) /\ IsInjective(todoFile') /\ Fitting(st, run, saved)
  BY <1>1, <1>5, Types DEF IInv, Fitting
<1>7. /\ Board!TypeOK' /\ QueueIs(queue', status') /\ Cardinality(running') <= MaxConcurrent
      /\ runs' \in Seq(Tasks) /\ IsInjective(runs')
      /\ manifest' \in [Tasks -> ManifestStatus \cup {"none"}] /\ saved' \in [Tasks -> Nat]
      /\ \A u \in Tasks : TaskOK(u)'
  BY <1>1, <1>2, <1>3, <1>4, <1>6, Types, DrainFits
<1>8. TypeOK'
  BY <1>4, <1>6, <1>7 DEF TypeOK
<1>9. NewTasksDiffer' /\ NumbersStay
  <2>1. \A u \in Tasks : number[u] # next
    <3>1. ASSUME NEW u \in Tasks PROVE number[u] # next
      <4>1. number[u] < next
        BY Fit DEF TaskFits, NumberOK
      <4> QED
        BY <4>1, Types
    <3> QED
      BY <3>1
  <2>2. NewTasksDiffer
    BY DEF IInv
  <2> QED
    BY <1>1, <1>4, <2>1, <2>2 DEF NewTasksDiffer, NumbersStay
<1> QED
  BY <1>6, <1>7, <1>8, <1>9 DEF StepOK, IInv

LEMMA ExecuteTaskOK ==
  ASSUME IInv, NEW t \in Tasks, ExecuteTask(t)
  PROVE  StepOK
<1> DEFINE q == Append(queue, t)
           st == [status EXCEPT ![t] = "queued"]
           onDisk == [saved EXCEPT ![t] = 0]
<1>1. /\ status[t] = "todo" /\ Board!Drain(q, running, st, run) /\ shutdown' = shutdown
      /\ BeginRuns(onDisk) /\ todoFile' = Filtered(todoFile, {t}) /\ UNCHANGED <<number, next>>
  BY DEF ExecuteTask, Board!ExecuteTask, Board!Enqueue
<1>2. st \in [Tasks -> Board!Status] /\ st[t] = "queued"
      /\ \A u \in Tasks \ {t} : st[u] = status[u]
  BY Types DEF Board!Status
<1>3. onDisk \in [Tasks -> Nat] /\ onDisk[t] = 0 /\ \A u \in Tasks \ {t} : onDisk[u] = saved[u]
  BY Types
<1>4. QueueIs(q, st)
  <2>1. q \in Seq(Tasks) /\ ToSet(q) = ToSet(queue) \cup {t} /\ IsInjective(q)
    BY <1>1, Types, AppendIs
  <2> HIDE DEF q, st
  <2>2. ToSet(q) = {u \in Tasks : st[u] = "queued"}
    BY <1>2, <2>1, Types
  <2> QED
    BY <2>1, <2>2 DEF QueueIs
<1> HIDE DEF q, st, onDisk
<1>5. todoFile' \in Seq(Tasks) /\ IsInjective(todoFile')
      /\ ToSet(todoFile') = ToSet(todoFile) \ {t}
  BY <1>1, Types, FilteredIs
<1>6. ASSUME NEW u \in Tasks
      PROVE  /\ TaskFits(u, st[u], run[u], manifest[u], onDisk[u], number'[u],
                         u \in ToSet(todoFile'), u \in ToSet(runs), u \in shutdown', next')
             /\ run[u] = "active" => run[u] # "none"
  <2>1. TaskFits(u, status[u], run[u], manifest[u], saved[u], number[u],
                 u \in ToSet(todoFile), u \in ToSet(runs), u \in shutdown, next)
    BY Fit
  <2>2. CASE u # t
    BY <1>1, <1>2, <1>3, <1>5, <2>1, <2>2 DEF TaskFits, FileOK, OutcomeOK, CliOK, NumberOK
  <2>3. CASE u = t
    BY <1>1, <1>2, <1>3, <1>5, <2>1, <2>3
    DEF TaskFits, FileOK, OutcomeOK, CliOK, NumberOK, Board!Live
  <2> QED
    BY <2>2, <2>3
<1> QED
  BY <1>1, <1>2, <1>3, <1>4, <1>5, <1>6, Types, DrainStep DEF Fitting

LEMMA CancelTaskOK ==
  ASSUME IInv, NEW t \in Tasks, CancelTask(t)
  PROVE  StepOK
<1> DEFINE q == IF status[t] = "queued" THEN Board!Dequeued(queue, t) ELSE queue
           held == running \ {t}
           st == [status EXCEPT ![t] = "cancelled"]
<1>1. /\ status[t] # "absent" /\ Board!Drain(q, held, st, run)
      /\ shutdown' = IF run[t] \in Board!Live \cup {"ended"} THEN shutdown \cup {t} ELSE shutdown
      /\ BeginRuns(saved) /\ todoFile' = todoFile /\ UNCHANGED <<number, next>>
  BY DEF CancelTask, Board!CancelTask
<1>2. st \in [Tasks -> Board!Status] /\ st[t] = "cancelled"
      /\ \A u \in Tasks \ {t} : st[u] = status[u]
  BY Types DEF Board!Status
<1>3. QueueIs(q, st)
  <2>1. q \in Seq(Tasks) /\ ToSet(q) = ToSet(queue) \ {t} /\ IsInjective(q)
    BY Types, DequeuedIs
  <2> HIDE DEF q, st
  <2>2. ToSet(q) = {u \in Tasks : st[u] = "queued"}
    BY <1>2, <2>1, Types
  <2> QED
    BY <2>1, <2>2 DEF QueueIs
<1>4. held \in SUBSET Tasks /\ Cardinality(held) <= MaxConcurrent
  BY Types, RemovedIs
<1> HIDE DEF q, held, st
<1>5. todoFile' \in Seq(Tasks) /\ IsInjective(todoFile') /\ shutdown' \in SUBSET Tasks
      /\ \A u \in Tasks \ {t} : u \in shutdown' <=> u \in shutdown
  BY <1>1, Types
<1>6. ASSUME NEW u \in Tasks
      PROVE  /\ TaskFits(u, st[u], run[u], manifest[u], saved[u], number'[u],
                         u \in ToSet(todoFile'), u \in ToSet(runs), u \in shutdown', next')
             /\ run[u] = "active" => run[u] # "none"
  <2>1. TaskFits(u, status[u], run[u], manifest[u], saved[u], number[u],
                 u \in ToSet(todoFile), u \in ToSet(runs), u \in shutdown, next)
    BY Fit
  <2>2. CASE u # t
    BY <1>1, <1>2, <1>5, <2>1, <2>2 DEF TaskFits, FileOK, OutcomeOK, CliOK, NumberOK
  <2>3. CASE u = t
    BY <1>1, <1>2, <1>5, <2>1, <2>3
    DEF TaskFits, FileOK, OutcomeOK, CliOK, NumberOK, Board!Live
  <2> QED
    BY <2>2, <2>3
<1> QED
  BY <1>1, <1>2, <1>3, <1>4, <1>5, <1>6, Types, DrainStep DEF Fitting

\* A task that held a slot and was not queued goes on as s and r.
LEMMA FinishOK ==
  ASSUME IInv, NEW t \in Tasks, NEW s \in Board!Status, NEW r \in Board!RunState,
         Board!Finish(t, s, r), shutdown' = shutdown, BeginRuns(saved),
         UNCHANGED <<number, next, todoFile>>, status[t] # "queued", s # "queued",
         TaskFits(t, s, r, manifest[t], saved[t], number[t],
                  t \in ToSet(todoFile), t \in ToSet(runs), t \in shutdown, next),
         r # "active"
  PROVE  StepOK
<1> DEFINE held == running \ {t}
           st == [status EXCEPT ![t] = s]
           rn == [run EXCEPT ![t] = r]
<1>1. Board!Drain(queue, held, st, rn)
  BY DEF Board!Finish
<1>2. /\ st \in [Tasks -> Board!Status] /\ st[t] = s
      /\ rn \in [Tasks -> Board!RunState] /\ rn[t] = r
      /\ \A u \in Tasks \ {t} : st[u] = status[u] /\ rn[u] = run[u]
  BY Types
<1>3. held \in SUBSET Tasks /\ Cardinality(held) <= MaxConcurrent
  BY Types, RemovedIs
<1> HIDE DEF held, st, rn
<1>4. QueueIs(queue, st)
  <2>1. ToSet(queue) = {u \in Tasks : st[u] = "queued"}
    BY <1>2, Types
  <2> QED
    BY <2>1, Types DEF QueueIs
<1>5. todoFile' \in Seq(Tasks) /\ IsInjective(todoFile') /\ shutdown' \in SUBSET Tasks
  BY Types
<1>6. ASSUME NEW u \in Tasks
      PROVE  /\ TaskFits(u, st[u], rn[u], manifest[u], saved[u], number'[u],
                         u \in ToSet(todoFile'), u \in ToSet(runs), u \in shutdown', next')
             /\ rn[u] = "active" => run[u] # "none"
  <2>1. TaskFits(u, status[u], run[u], manifest[u], saved[u], number[u],
                 u \in ToSet(todoFile), u \in ToSet(runs), u \in shutdown, next)
    BY Fit
  <2>2. CASE u # t
    BY <1>2, <2>1, <2>2
  <2>3. CASE u = t
    BY <1>2, <2>3
  <2> QED
    BY <2>2, <2>3
<1>7. UNCHANGED <<number, next>> /\ saved \in [Tasks -> Nat] /\ Fitting(st, rn, saved)
  BY <1>6, Types DEF Fitting
<1> QED
  BY <1>1, <1>2, <1>3, <1>4, <1>5, <1>7, Types, DrainStep

LEMMA RunStepsOK ==
  ASSUME IInv, NEW t \in Tasks, RunSettles(t) \/ StartRejected(t)
  PROVE  StepOK
<1>1. /\ TaskFits(t, status[t], run[t], manifest[t], saved[t], number[t],
                  t \in ToSet(todoFile), t \in ToSet(runs), t \in shutdown, next)
      /\ status[t] \in Board!Status /\ manifest[t] \in ManifestStatus \cup {"none"}
  BY Fit, Types
<1>2. /\ {"completed", "failed", "cancelled"} \subseteq Board!Status
      /\ {"ended", "none"} \subseteq Board!RunState
      /\ {"active", "asking", "refused"} = Board!Live /\ "failing" \notin Board!Live
  BY DEF Board!Status, Board!RunState, Board!Live
<1>3. BeginRuns(saved) /\ UNCHANGED <<number, next, todoFile>>
  BY DEF RunSettles, StartRejected
<1>4. CASE manifest[t] = "completed" /\ Board!RunSucceeds(t)
  <2>1. run[t] = "active" /\ Board!Finish(t, "completed", "ended") /\ shutdown' = shutdown
    BY <1>4 DEF Board!RunSucceeds
  <2>2. TaskFits(t, "completed", "ended", manifest[t], saved[t], number[t],
                 t \in ToSet(todoFile), t \in ToSet(runs), t \in shutdown, next)
    BY <1>1, <1>2, <1>4, <2>1 DEF TaskFits, FileOK, OutcomeOK, CliOK, NumberOK, Outcome
  <2>3. status[t] # "queued"
    BY <1>1, <2>1 DEF TaskFits, FileOK
  <2> QED
    BY <1>2, <1>3, <2>1, <2>2, <2>3, FinishOK
<1>5. CASE manifest[t] \in {"failed", "cancelled"} /\ Board!RunUnsuccessful(t)
  <2> DEFINE s == IF status[t] \in {"failed", "cancelled"} THEN status[t] ELSE "failed"
  <2>1. run[t] \in {"active", "refused"} /\ Board!Finish(t, s, "ended") /\ shutdown' = shutdown
    BY <1>5 DEF Board!RunUnsuccessful
  <2>2. s \in Board!Status /\ s # "queued" /\ s \in {"failed", "cancelled"}
    BY <1>2
  <2>3. TaskFits(t, s, "ended", manifest[t], saved[t], number[t],
                 t \in ToSet(todoFile), t \in ToSet(runs), t \in shutdown, next)
    BY <1>1, <1>2, <1>5, <2>1 DEF TaskFits, FileOK, OutcomeOK, CliOK, NumberOK, Outcome
  <2>4. status[t] # "queued"
    BY <1>1, <2>1 DEF TaskFits, FileOK
  <2> HIDE DEF s
  <2> QED
    BY <1>2, <1>3, <2>1, <2>2, <2>3, <2>4, FinishOK
<1>6. CASE manifest[t] \in {"failed", "none"} /\ Board!RunFails(t)
  <2>1. run[t] = "active" /\ Board!Finish(t, "failed", "ended") /\ shutdown' = shutdown
    BY <1>6 DEF Board!RunFails
  <2>2. TaskFits(t, "failed", "ended", manifest[t], saved[t], number[t],
                 t \in ToSet(todoFile), t \in ToSet(runs), t \in shutdown, next)
    BY <1>1, <1>2, <1>6, <2>1 DEF TaskFits, FileOK, OutcomeOK, CliOK, NumberOK, Outcome
  <2>3. status[t] # "queued"
    BY <1>1, <2>1 DEF TaskFits, FileOK
  <2> QED
    BY <1>2, <1>3, <2>1, <2>2, <2>3, FinishOK
<1>7. CASE Board!StartRejected(t)
  <2>1. run[t] = "failing" /\ Board!Finish(t, status[t], "none") /\ shutdown' = shutdown
    BY <1>7 DEF Board!StartRejected
  <2>2. status[t] # "queued"
    BY <1>1, <2>1 DEF TaskFits, FileOK
  <2>3. TaskFits(t, status[t], "none", manifest[t], saved[t], number[t],
                 t \in ToSet(todoFile), t \in ToSet(runs), t \in shutdown, next)
    BY <1>1, <1>2, <2>1 DEF TaskFits, FileOK, OutcomeOK, CliOK, NumberOK
  <2> QED
    BY <1>1, <1>2, <1>3, <2>1, <2>2, <2>3, FinishOK
<1> QED
  BY <1>4, <1>5, <1>6, <1>7 DEF RunSettles, StartRejected

-----------------------------------------------------------------------------
(***************************************************************************)
(* The steps that do not drain the queue.                                  *)
(***************************************************************************)
\* The task t, which is not queued, changes; nothing else does.
LEMMA QuietOK ==
  ASSUME IInv, NEW t \in Tasks, UNCHANGED <<queue, running, next, number>>,
         status' \in [Tasks -> Board!Status], run' \in [Tasks -> Board!RunState],
         manifest' \in [Tasks -> ManifestStatus \cup {"none"}],
         saved' = saved, todoFile' = todoFile, shutdown' = shutdown,
         runs' \in Seq(Tasks), IsInjective(runs'),
         \A u \in Tasks \ {t} : /\ status'[u] = status[u] /\ run'[u] = run[u]
                                /\ manifest'[u] = manifest[u]
                                /\ u \in ToSet(runs') <=> u \in ToSet(runs),
         status[t] # "queued", status'[t] # "queued",
         TaskFits(t, status'[t], run'[t], manifest'[t], saved[t], number[t],
                  t \in ToSet(todoFile), t \in ToSet(runs'), t \in shutdown, next)
  PROVE  StepOK
<1>1. TypeOK'
  BY DEF IInv, TypeOK, Board!TypeOK
<1>2. QueueIs(queue', status')
  <2>1. ToSet(queue') = {u \in Tasks : status'[u] = "queued"}
    BY Types
  <2> QED
    BY <2>1, Types DEF QueueIs
<1>3. ASSUME NEW u \in Tasks PROVE TaskOK(u)'
  <2>1. TaskFits(u, status[u], run[u], manifest[u], saved[u], number[u],
                 u \in ToSet(todoFile), u \in ToSet(runs), u \in shutdown, next)
    BY Fit
  <2> SUFFICES TaskFits(u, status'[u], run'[u], manifest'[u], saved[u], number[u],
                        u \in ToSet(todoFile), u \in ToSet(runs'), u \in shutdown, next)
    BY DEF TaskOK, InFile
  <2>2. CASE u = t
    BY <2>2
  <2>3. CASE u # t
    BY <2>1, <2>3 DEF TaskFits, FileOK
  <2> QED
    BY <2>2, <2>3
<1>4. NewTasksDiffer' /\ NumbersStay
  BY DEF IInv, NewTasksDiffer, NumbersStay
<1>5. Cardinality(running') <= MaxConcurrent /\ IsInjective(todoFile')
  BY Types
<1> QED
  BY <1>1, <1>2, <1>3, <1>4, <1>5 DEF StepOK, IInv

LEMMA AnswerOK ==
  ASSUME IInv, NEW t \in Tasks, Answer(t) \/ AskApproval(t)
  PROVE  StepOK
<1>1. /\ TaskFits(t, status[t], run[t], manifest[t], saved[t], number[t],
                  t \in ToSet(todoFile), t \in ToSet(runs), t \in shutdown, next)
      /\ UNCHANGED <<queue, running, shutdown, number, next, todoFile, runs, manifest, saved>>
  BY Fit DEF Answer, AskApproval, Board!Answer, Board!ApproveTask, Board!RejectTask,
     Board!AskApproval, diskVars
<1>2. PICK s \in {"running", "cancelled", "awaiting_approval"}, r \in Board!Live :
        /\ status' = [status EXCEPT ![t] = s] /\ run' = [run EXCEPT ![t] = r]
        /\ \/ run[t] = "asking" /\ s = "running" /\ r = "active"
           \/ run[t] = "asking" /\ s = "cancelled" /\ r = "refused"
           \/ run[t] = "active" /\ manifest[t] = "running" /\ s = "awaiting_approval" /\ r = "asking"
  BY DEF Answer, AskApproval, Board!Answer, Board!ApproveTask, Board!RejectTask,
     Board!AskApproval, Board!Live
<1>3. s \in Board!Status /\ r \in Board!RunState
  BY DEF Board!Status, Board!RunState
<1>4. /\ status' \in [Tasks -> Board!Status] /\ status'[t] = s
      /\ run' \in [Tasks -> Board!RunState] /\ run'[t] = r
      /\ \A u \in Tasks \ {t} : status'[u] = status[u] /\ run'[u] = run[u]
  BY <1>2, <1>3, Types
<1>5. /\ TaskFits(t, s, r, manifest[t], saved[t], number[t],
                  t \in ToSet(todoFile), t \in ToSet(runs), t \in shutdown, next)
      /\ status[t] # "queued"
  BY <1>1, <1>2 DEF TaskFits, FileOK, OutcomeOK, CliOK, NumberOK, Board!Live
<1>6. TaskFits(t, status'[t], run'[t], manifest'[t], saved[t], number[t],
               t \in ToSet(todoFile), t \in ToSet(runs'), t \in shutdown, next)
      /\ status'[t] # "queued"
  BY <1>1, <1>2, <1>4, <1>5
<1>7. /\ manifest' \in [Tasks -> ManifestStatus \cup {"none"}] /\ runs' \in Seq(Tasks)
      /\ IsInjective(runs')
      /\ \A u \in Tasks \ {t} : /\ manifest'[u] = manifest[u]
                                /\ u \in ToSet(runs') <=> u \in ToSet(runs)
  BY <1>1, Types
<1>8. UNCHANGED <<queue, running, next, number>>
  BY <1>1
<1> QED
  BY <1>1, <1>4, <1>5, <1>6, <1>7, <1>8, QuietOK

LEMMA ManifestOK ==
  ASSUME IInv, NEW t \in Tasks, WriteOutcome(t) \/ (t \in CliRuns /\ CliRunEnds(t))
  PROVE  StepOK
<1>1. /\ TaskFits(t, status[t], run[t], manifest[t], saved[t], number[t],
                  t \in ToSet(todoFile), t \in ToSet(runs), t \in shutdown, next)
      /\ UNCHANGED <<status, queue, running, run, shutdown, number, next, todoFile, runs, saved>>
  BY Fit DEF WriteOutcome, CliRunEnds, boardVars
<1>2. PICK s \in {"completed", "failed", "cancelled"} :
        /\ manifest[t] = "running" /\ manifest' = [manifest EXCEPT ![t] = s]
        /\ \/ t \in CliRuns
           \/ run[t] = IF s = "cancelled" THEN "refused" ELSE "active"
  BY PersistenceAssumption DEF WriteOutcome, CliRunEnds, ManifestStatus, PersistenceAssumption
<1>3. /\ manifest' \in [Tasks -> ManifestStatus \cup {"none"}] /\ manifest'[t] = s
      /\ \A u \in Tasks \ {t} : manifest'[u] = manifest[u]
  BY <1>2, Types DEF ManifestStatus
<1>4. /\ TaskFits(t, status[t], run[t], s, saved[t], number[t],
                  t \in ToSet(todoFile), t \in ToSet(runs), t \in shutdown, next)
      /\ status[t] # "queued"
  BY <1>1, <1>2 DEF TaskFits, FileOK, OutcomeOK, CliOK, NumberOK, Board!Live
<1>5. TaskFits(t, status'[t], run'[t], manifest'[t], saved[t], number[t],
               t \in ToSet(todoFile), t \in ToSet(runs'), t \in shutdown, next)
      /\ status'[t] # "queued"
  BY <1>1, <1>3, <1>4
<1>6. /\ status' \in [Tasks -> Board!Status] /\ run' \in [Tasks -> Board!RunState]
      /\ runs' \in Seq(Tasks) /\ IsInjective(runs')
      /\ \A u \in Tasks \ {t} : /\ status'[u] = status[u] /\ run'[u] = run[u]
                                /\ u \in ToSet(runs') <=> u \in ToSet(runs)
  BY <1>1, Types
<1>7. UNCHANGED <<queue, running, next, number>>
  BY <1>1
<1> QED
  BY <1>1, <1>3, <1>4, <1>5, <1>6, <1>7, QuietOK

LEMMA CliRunStartsOK ==
  ASSUME IInv, NEW c \in CliRuns, CliRunStarts(c)
  PROVE  StepOK
<1>1. c \in Tasks
  BY PersistenceAssumption DEF PersistenceAssumption
<1>2. /\ TaskFits(c, status[c], run[c], manifest[c], saved[c], number[c],
                  c \in ToSet(todoFile), c \in ToSet(runs), c \in shutdown, next)
      /\ UNCHANGED <<status, queue, running, run, shutdown, number, next, todoFile, saved>>
      /\ c \notin ToSet(runs) /\ runs' = Append(runs, c)
      /\ manifest' = [manifest EXCEPT ![c] = "running"]
  BY <1>1, Fit DEF CliRunStarts, boardVars
<1>3. /\ manifest' \in [Tasks -> ManifestStatus \cup {"none"}] /\ manifest'[c] = "running"
      /\ \A u \in Tasks \ {c} : manifest'[u] = manifest[u]
  BY <1>1, <1>2, Types DEF ManifestStatus
<1>4. /\ runs' \in Seq(Tasks) /\ IsInjective(runs') /\ ToSet(runs') = ToSet(runs) \cup {c}
  BY <1>1, <1>2, Types, AppendIs
<1>5. /\ TaskFits(c, status[c], run[c], "running", saved[c], number[c],
                  c \in ToSet(todoFile), TRUE, c \in shutdown, next)
      /\ status[c] # "queued"
  BY <1>2 DEF TaskFits, FileOK, CliOK, NumberOK, Board!Live
<1>6. TaskFits(c, status'[c], run'[c], manifest'[c], saved[c], number[c],
               c \in ToSet(todoFile), c \in ToSet(runs'), c \in shutdown, next)
      /\ status'[c] # "queued"
  BY <1>2, <1>3, <1>4, <1>5 DEF TaskFits, FileOK
<1>7. /\ status' \in [Tasks -> Board!Status] /\ run' \in [Tasks -> Board!RunState]
      /\ \A u \in Tasks \ {c} : /\ status'[u] = status[u] /\ run'[u] = run[u]
                                /\ u \in ToSet(runs') <=> u \in ToSet(runs)
  BY <1>2, <1>4, Types
<1>8. UNCHANGED <<queue, running, next, number>>
  BY <1>2
<1> QED
  BY <1>1, <1>2, <1>3, <1>4, <1>5, <1>6, <1>7, <1>8, QuietOK

LEMMA CreateTodoTaskOK ==
  ASSUME IInv, NEW t \in Tasks, CreateTodoTask(t)
  PROVE  StepOK
<1>1. /\ t \notin CliRuns /\ number' = [number EXCEPT ![t] = next] /\ next' = next + 1
      /\ status[t] = "absent" /\ status' = [status EXCEPT ![t] = "todo"]
      /\ UNCHANGED <<queue, running, run, shutdown, runs, manifest>>
      /\ todoFile' = Append(todoFile, t) /\ saved' = [saved EXCEPT ![t] = next]
  BY DEF CreateTodoTask, NewNumber, Board!CreateTodoTask
<1>2. TaskFits(t, "absent", run[t], manifest[t], saved[t], number[t],
               t \in ToSet(todoFile), t \in ToSet(runs), t \in shutdown, next)
  BY <1>1, Fit
<1>3. /\ manifest[t] = "none" /\ run[t] = "none" /\ t \notin ToSet(todoFile)
      /\ t \notin ToSet(runs)
  BY <1>1, <1>2 DEF TaskFits, FileOK, OutcomeOK
<1>4. /\ number' \in [Tasks -> Nat] /\ next' \in Nat \ {0} /\ next < next' /\ next # 0
      /\ number'[t] = next /\ \A u \in Tasks \ {t} : number'[u] = number[u]
      /\ saved' \in [Tasks -> Nat] /\ saved'[t] = next
      /\ \A u \in Tasks \ {t} : saved'[u] = saved[u]
  BY <1>1, Types
<1>5. /\ status' \in [Tasks -> Board!Status] /\ status'[t] = "todo"
      /\ \A u \in Tasks \ {t} : status'[u] = status[u]
  BY <1>1, Types DEF Board!Status
<1>6. /\ todoFile' \in Seq(Tasks) /\ IsInjective(todoFile')
      /\ ToSet(todoFile') = ToSet(todoFile) \cup {t}
  BY <1>1, <1>3, Types, AppendIs
<1>7. TypeOK'
  BY <1>1, <1>4, <1>5, <1>6 DEF IInv, TypeOK, Board!TypeOK
<1>8. QueueIs(queue', status')
  <2>1. ToSet(queue') = {u \in Tasks : status'[u] = "queued"}
    BY <1>1, <1>5, Types
  <2> QED
    BY <1>1, <2>1, Types DEF QueueIs
<1>9. ASSUME NEW u \in Tasks PROVE TaskOK(u)'
  <2>1. TaskFits(u, status[u], run[u], manifest[u], saved[u], number[u],
                 u \in ToSet(todoFile), u \in ToSet(runs), u \in shutdown, next)
    BY Fit
  <2>2. number[u] \in Nat /\ next \in Nat /\ next' \in Nat
    BY <1>4, Types
  <2> SUFFICES TaskFits(u, status'[u], run[u], manifest[u], saved'[u], number'[u],
                        u \in ToSet(todoFile'), u \in ToSet(runs), u \in shutdown, next')
    BY <1>1 DEF TaskOK, InFile
  <2>3. CASE u # t
    BY <1>4, <1>5, <1>6, <2>1, <2>2, <2>3 DEF TaskFits, FileOK, OutcomeOK, CliOK, NumberOK
  <2>4. CASE u = t
    <3>1. /\ status'[u] = "todo" /\ number'[u] = next /\ saved'[u] = next
          /\ u \in ToSet(todoFile')
      BY <1>4, <1>5, <1>6, <2>4
    <3>2. FileOK("todo", "none", "none", TRUE, FALSE)
          /\ OutcomeOK("todo", "none", "none", TRUE, u \in shutdown)
      BY DEF FileOK, OutcomeOK, Board!Live
    <3>3. NumberOK(FALSE, "todo", "none", next, next, TRUE, next')
      BY <1>4, <2>2 DEF NumberOK
    <3> QED
      BY <1>1, <1>3, <2>4, <3>1, <3>2, <3>3 DEF TaskFits, FileOK, OutcomeOK, NumberOK
  <2> QED
    BY <2>3, <2>4
<1>10. NewTasksDiffer' /\ NumbersStay
  <2>1. ASSUME NEW u \in Tasks PROVE number[u] # next
    <3>1. number[u] < next
      BY Fit DEF TaskFits, NumberOK
    <3> QED
      BY <3>1, Types
  <2>2. NewTasksDiffer
    BY DEF IInv
  <2> QED
    BY <1>1, <1>4, <2>1, <2>2 DEF NewTasksDiffer, NumbersStay
<1> QED
  BY <1>1, <1>6, <1>7, <1>8, <1>9, <1>10, Types DEF StepOK, IInv

-----------------------------------------------------------------------------
(***************************************************************************)
(* The graceful shutdown.                                                  *)
(***************************************************************************)
LEMMA ShutdownIs ==
  ASSUME IInv, GracefulShutdown
  PROVE  \E begun, failing \in SUBSET Tasks :
           /\ begun \subseteq ToSet(queue) /\ failing \subseteq ToSet(queue)
           /\ begun \cap failing = {}
           /\ queue' = <<>> /\ running' \in SUBSET Tasks
           /\ Cardinality(running') <= MaxConcurrent
           /\ status' = [t \in Tasks |-> IF t \in UnderWay THEN "cancelled" ELSE status[t]]
           /\ run' = [t \in Tasks |-> CASE t \in begun -> "active"
                                        [] t \in failing -> "failing"
                                        [] OTHER -> run[t]]
           /\ shutdown' = shutdown \cup {t \in UnderWay : run[t] \in Board!Live \/ t \in begun}
<1>1. PICK order \in SetToSeqs(UnderWay) : CancelAll(order)
  BY DEF GracefulShutdown
<1>2. UnderWay \in SUBSET Tasks /\ IsFiniteSet(UnderWay)
  <2>1. UnderWay \in SUBSET Tasks
    BY DEF UnderWay
  <2> QED
    BY <2>1, PersistenceAssumption, FS_Subset DEF PersistenceAssumption
<1>3. order \in Seq(UnderWay) /\ ToSet(order) = UnderWay
  BY <1>2, OrderIs
<1>4. order \in Seq(Tasks)
  BY <1>2, <1>3, SeqMonotonic
<1> DEFINE end == Cancelling(order)[Len(order)]
           begun == end.began \ Misconfigured
           failing == end.began \ begun
<1>5. end \in Schedulers /\ ToSet(end.queue) \cap ToSet(order) = {}
  BY <1>4, Types, CancellingIs
<1>6. /\ queue' = end.queue /\ running' = end.held
      /\ status' = [t \in Tasks |-> IF t \in ToSet(order) THEN "cancelled"
                                    ELSE IF t \in end.began THEN "running" ELSE status[t]]
      /\ run' = [t \in Tasks |-> CASE t \in begun -> "active"
                                   [] t \in end.began \ begun -> "failing"
                                   [] OTHER -> run[t]]
      /\ shutdown' = shutdown \cup {t \in ToSet(order) : run[t] \in Board!Live \/ t \in begun}
  BY <1>1 DEF CancelAll
<1> HIDE DEF end
<1>7. /\ end.queue \in Seq(Tasks) /\ end.held \in SUBSET Tasks /\ end.began \in SUBSET Tasks
      /\ Cardinality(end.held) <= MaxConcurrent
      /\ ToSet(end.queue) \subseteq ToSet(queue) /\ end.began \subseteq ToSet(queue)
  BY <1>5 DEF Schedulers
<1>8. ToSet(queue) \subseteq UnderWay
  BY Types DEF UnderWay
<1>9. end.queue = <<>>
  <2>1. ToSet(end.queue) = {}
    BY <1>3, <1>5, <1>7, <1>8
  <2>2. Len(end.queue) = 0
    <3>1. Len(end.queue) \in Nat /\ ToSet(end.queue) = {end.queue[i] : i \in 1 .. Len(end.queue)}
      BY <1>7, ElementsAre
    <3>2. ~ (1 \in 1 .. Len(end.queue))
      BY <2>1, <3>1
    <3> QED
      BY <3>1, <3>2
  <2> QED
    BY <1>7, <2>2, EmptySeq
<1>10. status' = [t \in Tasks |-> IF t \in UnderWay THEN "cancelled" ELSE status[t]]
  BY <1>3, <1>6, <1>7, <1>8
<1>11. begun \in SUBSET Tasks /\ failing \in SUBSET Tasks /\ begun \cap failing = {}
       /\ begun \subseteq ToSet(queue) /\ failing \subseteq ToSet(queue)
  BY <1>7
<1> HIDE DEF begun
<1>12. run' = [t \in Tasks |-> CASE t \in begun -> "active"
                                 [] t \in failing -> "failing"
                                 [] OTHER -> run[t]]
  BY <1>6
<1> HIDE DEF failing
<1>13. shutdown' = shutdown \cup {t \in UnderWay : run[t] \in Board!Live \/ t \in begun}
  BY <1>3, <1>6
<1> QED
  BY <1>6, <1>7, <1>9, <1>10, <1>11, <1>12, <1>13

LEMMA GracefulShutdownOK ==
  ASSUME IInv, GracefulShutdown
  PROVE  StepOK
<1>1. BeginRuns(saved) /\ todoFile' = todoFile /\ number' = number /\ next' = next
  BY DEF GracefulShutdown
<1>2. PICK begun \in SUBSET Tasks, failing \in SUBSET Tasks :
        /\ begun \subseteq ToSet(queue) /\ failing \subseteq ToSet(queue)
        /\ begun \cap failing = {}
        /\ queue' = <<>> /\ running' \in SUBSET Tasks /\ Cardinality(running') <= MaxConcurrent
        /\ status' = [t \in Tasks |-> IF t \in UnderWay THEN "cancelled" ELSE status[t]]
        /\ run' = [t \in Tasks |-> CASE t \in begun -> "active"
                                     [] t \in failing -> "failing"
                                     [] OTHER -> run[t]]
        /\ shutdown' = shutdown \cup {t \in UnderWay : run[t] \in Board!Live \/ t \in begun}
  BY ShutdownIs
<1>3. ASSUME NEW t \in Tasks
      PROVE  /\ status'[t] = IF t \in UnderWay THEN "cancelled" ELSE status[t]
             /\ \/ run'[t] = run[t] /\ t \notin begun
                \/ /\ run'[t] = "active" /\ status[t] = "queued" /\ t \in UnderWay
                   /\ t \in shutdown'
                \/ run'[t] = "failing" /\ status[t] = "queued" /\ t \in UnderWay
             /\ t \in shutdown' <=> \/ t \in shutdown
                                    \/ t \in UnderWay /\ (run[t] \in Board!Live \/ t \in begun)
             /\ t \in UnderWay <=> status[t] \in {"running", "queued", "awaiting_approval"}
  <2>1. t \in UnderWay <=> status[t] \in {"running", "queued", "awaiting_approval"}
    BY DEF UnderWay
  <2>2. t \in begun \cup failing => status[t] = "queued"
    BY <1>2, Types
  <2>3. run'[t] = CASE t \in begun -> "active" [] t \in failing -> "failing" [] OTHER -> run[t]
    BY <1>2
  <2> QED
    BY <1>2, <2>1, <2>2, <2>3
<1>4. status' \in [Tasks -> Board!Status]
  BY <1>2, Types DEF Board!Status
<1>5. run' \in [Tasks -> Board!RunState]
  <2>1. {"active", "failing"} \subseteq Board!RunState
    BY DEF Board!RunState, Board!Live
  <2>2. \A t \in Tasks : run'[t] \in Board!RunState
    BY <1>3, <2>1, Types
  <2> QED
    BY <1>2, <2>2
<1>6. QueueIs(queue', status')
  <2>1. \A t \in Tasks : status'[t] # "queued"
    BY <1>3
  <2> QED
    BY <1>2, <2>1, EmptyIs DEF QueueIs
<1>7. Beginning \cap ToSet(runs) = {}
  <2>1. ASSUME NEW t \in Beginning PROVE t \notin ToSet(runs)
    <3>1. t \in Tasks /\ status[t] = "queued"
      BY <1>3, <2>1 DEF Beginning
    <3> QED
      BY <3>1, Fit DEF TaskFits, FileOK
  <2> QED
    BY <2>1
<1>8. /\ runs' \in Seq(Tasks) /\ IsInjective(runs')
      /\ manifest' \in [Tasks -> ManifestStatus \cup {"none"}] /\ saved' \in [Tasks -> Nat]
      /\ \A t \in Tasks :
           \/ /\ t \in ToSet(runs') <=> t \in ToSet(runs)
              /\ manifest'[t] = manifest[t] /\ saved'[t] = saved[t]
           \/ /\ run[t] = "none" /\ run'[t] = "active"
              /\ t \in ToSet(runs') /\ manifest'[t] = "running" /\ saved'[t] = number[t]
  <2>1. TypeOK /\ number' \in [Tasks -> Nat] /\ saved \in [Tasks -> Nat] /\ IsInjective(runs)
    BY <1>1, Types DEF IInv
  <2> QED
    BY <1>1, <1>7, <2>1, RunsBegin
<1>9. ASSUME NEW t \in Tasks PROVE TaskOK(t)'
  <2>1. TaskFits(t, status[t], run[t], manifest[t], saved[t], number[t],
                 t \in ToSet(todoFile), t \in ToSet(runs), t \in shutdown, next)
    BY Fit
  <2> SUFFICES TaskFits(t, status'[t], run'[t], manifest'[t], saved'[t], number[t],
                        t \in ToSet(todoFile), t \in ToSet(runs'), t \in shutdown', next)
    BY <1>1 DEF TaskOK, InFile
  <2>2. CASE run'[t] = run[t]
    <3>1. /\ t \in ToSet(runs') <=> t \in ToSet(runs)
          /\ manifest'[t] = manifest[t] /\ saved'[t] = saved[t]
      BY <1>8, <2>2
    <3>2. t \in shutdown' <=> t \in shutdown \/ (t \in UnderWay /\ run[t] \in Board!Live)
      BY <1>3, <2>1, <2>2 DEF TaskFits, FileOK, Board!Live
    <3>3. CASE t \notin UnderWay
      <4>1. status'[t] = status[t]
        BY <1>3, <3>3
      <4> QED
        BY <2>1, <2>2, <3>1, <3>2, <3>3, <4>1 DEF TaskFits, FileOK
    <3>4. CASE t \in UnderWay
      <4>1. /\ status'[t] = "cancelled" /\ status[t] \in {"running", "queued", "awaiting_approval"}
            /\ t \in shutdown' <=> t \in shutdown \/ run[t] \in Board!Live
        BY <1>3, <3>2, <3>4
      <4>2. TaskFits(t, "cancelled", run[t], manifest[t], saved[t], number[t],
                     t \in ToSet(todoFile), t \in ToSet(runs), t \in shutdown', next)
        <5>1. manifest[t] \in {"running", "completed", "failed", "cancelled", "none"}
          BY Types DEF ManifestStatus
        <5> QED
          BY <2>1, <4>1, <5>1 DEF TaskFits, FileOK, OutcomeOK, CliOK, NumberOK, Board!Live, Outcome
      <4> QED
        BY <2>2, <3>1, <4>1, <4>2 DEF TaskFits, FileOK
    <3> QED
      BY <3>3, <3>4
  <2>3. CASE run'[t] # run[t]
    <3>1. /\ status[t] = "queued" /\ status'[t] = "cancelled"
          /\ \/ run'[t] = "active" /\ t \in shutdown'
             \/ run'[t] = "failing"
      BY <1>3, <2>3
    <3>2. run[t] = "none" /\ manifest[t] = "none" /\ t \notin CliRuns
      BY <2>1, <3>1 DEF TaskFits, FileOK, CliOK
    <3> QED
      BY <1>8, <2>1, <3>1, <3>2
      DEF TaskFits, FileOK, OutcomeOK, CliOK, NumberOK, Board!Live, Outcome
  <2> QED
    BY <2>2, <2>3
<1>10. shutdown' \in SUBSET Tasks
  BY <1>2, Types DEF UnderWay
<1>11. TypeOK' /\ IsInjective(todoFile') /\ Cardinality(running') <= MaxConcurrent
  <2>1. queue' \in Seq(Tasks)
    BY <1>6 DEF QueueIs
  <2> QED
    BY <1>1, <1>2, <1>4, <1>5, <1>8, <1>10, <2>1, Types DEF TypeOK, Board!TypeOK
<1>12. NewTasksDiffer' /\ NumbersStay
  BY <1>1 DEF IInv, NewTasksDiffer, NumbersStay
<1> QED
  BY <1>6, <1>8, <1>9, <1>11, <1>12 DEF StepOK, IInv

LEMMA ShutdownReaches ==
  ASSUME IInv, GracefulShutdown
  PROVE  /\ queue' = <<>>
         /\ \A t \in Tasks : run'[t] \in Board!Live => t \in shutdown' \/ run'[t] = "refused"
<1>1. PICK begun \in SUBSET Tasks, failing \in SUBSET Tasks :
        /\ begun \subseteq ToSet(queue) /\ failing \subseteq ToSet(queue)
        /\ queue' = <<>>
        /\ run' = [t \in Tasks |-> CASE t \in begun -> "active"
                                     [] t \in failing -> "failing"
                                     [] OTHER -> run[t]]
        /\ shutdown' = shutdown \cup {t \in UnderWay : run[t] \in Board!Live \/ t \in begun}
  BY ShutdownIs
<1>2. ASSUME NEW t \in Tasks, run'[t] \in Board!Live, run'[t] # "refused"
      PROVE  t \in shutdown'
  <2>1. TaskFits(t, status[t], run[t], manifest[t], saved[t], number[t],
                 t \in ToSet(todoFile), t \in ToSet(runs), t \in shutdown, next)
    BY Fit
  <2>2. t \in UnderWay <=> status[t] \in {"running", "queued", "awaiting_approval"}
    BY DEF UnderWay
  <2>3. CASE t \in begun
    BY <1>1, <2>2, <2>3, Types
  <2>4. CASE t \notin begun
    <3>1. run'[t] = run[t]
      BY <1>1, <1>2, <2>4 DEF Board!Live
    <3>2. run[t] \in Board!Live /\ run[t] \in {"active", "asking"}
      BY <1>2, <3>1 DEF Board!Live
    <3>3. t \in shutdown \/ t \in UnderWay
      BY <2>1, <2>2, <3>2 DEF TaskFits, OutcomeOK, CliOK, Board!Live
    <3> QED
      BY <1>1, <3>2, <3>3
  <2> QED
    BY <2>3, <2>4
<1> QED
  BY <1>1, <1>2

-----------------------------------------------------------------------------
(***************************************************************************)
(* The restart.                                                            *)
(***************************************************************************)
LEMMA RestoreOK ==
  ASSUME IInv, NEW file \in {todoFile, <<>>}, NEW torn \in SUBSET Tasks, Restore(file, torn)
  PROVE  StepOK
<1> DEFINE ran == Filtered(runs, torn)
           order == file \o ran
           board == Registering(order)[Len(order)]
<1>1. /\ queue' = <<>> /\ running' = {} /\ run' = [t \in Tasks |-> "none"] /\ shutdown' = {}
      /\ status' = [t \in Tasks |-> CASE t \in ToSet(file) -> "todo"
                                      [] t \in ToSet(ran) \ ToSet(file) -> Outcome(manifest[t])
                                      [] OTHER -> "absent"]
      /\ number' = board.number /\ next' = board.next /\ saved' = board.number
      /\ todoFile' = file /\ runs' = ran
      /\ manifest' = [t \in Tasks |-> IF t \in torn THEN "none" ELSE manifest[t]]
  BY DEF Restore, Forget, RestoredStatus, Numbered
<1>2. file \in Seq(Tasks) /\ IsInjective(file) /\ ToSet(file) \subseteq ToSet(todoFile)
      /\ ToSet(file) \subseteq Tasks
  BY Types, EmptyIs DEF InFile
<1>3. ran \in Seq(Tasks) /\ ToSet(ran) = ToSet(runs) \ torn /\ IsInjective(ran)
  BY Types, FilteredIs
<1> HIDE DEF ran
<1>4. order \in Seq(Tasks) /\ ToSet(order) = ToSet(file) \cup ToSet(ran)
  BY <1>2, <1>3, ConcatIs
<1> HIDE DEF order
<1>5. /\ board \in Numberings
      /\ \A t \in Tasks : board.number[t] < board.next
      /\ \A t \in ToSet(order) :
           board.number[t] # 0 /\ (saved[t] # 0 => board.number[t] = saved[t])
      /\ \A t \in Tasks \ ToSet(order) : board.number[t] = 0
  BY <1>4, Types, RegisteringIs
<1> HIDE DEF board
<1>6. /\ number' \in [Tasks -> Nat] /\ next' \in Nat \ {0} /\ saved' = number'
      /\ \A t \in Tasks : number'[t] < next'
      /\ \A t \in ToSet(order) : number'[t] # 0 /\ (saved[t] # 0 => number'[t] = saved[t])
      /\ \A t \in Tasks \ ToSet(order) : number'[t] = 0
  BY <1>1, <1>5 DEF Numberings
<1>7. ASSUME NEW t \in Tasks
      PROVE  /\ TaskFits(t, status[t], run[t], manifest[t], saved[t], number[t],
                         t \in ToSet(todoFile), t \in ToSet(runs), t \in shutdown, next)
             /\ manifest[t] \in ManifestStatus \cup {"none"}
             /\ run'[t] = "none" /\ t \notin shutdown'
             /\ manifest'[t] = IF t \in torn THEN "none" ELSE manifest[t]
             /\ \/ /\ t \in ToSet(file) /\ t \notin ToSet(ran)
                   /\ status'[t] = "todo" /\ manifest[t] = "none"
                \/ /\ t \notin ToSet(file) /\ t \in ToSet(ran) /\ t \notin torn
                   /\ status'[t] = Outcome(manifest[t]) /\ manifest[t] # "none"
                \/ /\ t \notin ToSet(file) /\ t \notin ToSet(ran)
                   /\ status'[t] = "absent" /\ (t \in torn \/ manifest[t] = "none")
  <2>1. /\ TaskFits(t, status[t], run[t], manifest[t], saved[t], number[t],
                    t \in ToSet(todoFile), t \in ToSet(runs), t \in shutdown, next)
        /\ manifest[t] \in ManifestStatus \cup {"none"}
    BY Fit, Types
  <2>2. run'[t] = "none" /\ t \notin shutdown'
        /\ manifest'[t] = (IF t \in torn THEN "none" ELSE manifest[t])
        /\ status'[t] = CASE t \in ToSet(file) -> "todo"
                          [] t \in ToSet(ran) \ ToSet(file) -> Outcome(manifest[t])
                          [] OTHER -> "absent"
    BY <1>1
  <2>3. /\ t \in ToSet(file) => manifest[t] = "none"
        /\ t \in ToSet(runs) <=> manifest[t] # "none"
    BY <1>2, <2>1 DEF TaskFits, FileOK
  <2>4. t \in ToSet(ran) <=> t \in ToSet(runs) /\ t \notin torn
    BY <1>3
  <2> QED
    BY <2>1, <2>2, <2>3, <2>4
<1>8. ASSUME NEW t \in Tasks
      PROVE  TaskOK(t)' /\ status'[t] \in Board!Status \ {"queued"}
  <2> DEFINE cli == t \in CliRuns
  <2> SUFFICES /\ TaskFits(t, status'[t], run'[t], manifest'[t], saved'[t], number'[t],
                           t \in ToSet(file), t \in ToSet(ran), t \in shutdown', next')
               /\ status'[t] \in Board!Status \ {"queued"}
    BY <1>1 DEF TaskOK, InFile
  <2>1. /\ saved'[t] = number'[t] /\ number'[t] < next'
        /\ t \in ToSet(file) \cup ToSet(ran) <=> number'[t] # 0
    BY <1>4, <1>6
  <2>2. CASE t \in ToSet(file)
    <3>1. /\ status'[t] = "todo" /\ manifest'[t] = "none" /\ run'[t] = "none" /\ t \notin ToSet(ran)
          /\ t \notin CliRuns
      BY <1>2, <1>7, <2>2 DEF TaskFits, CliOK
    <3> QED
      BY <2>1, <2>2, <3>1
      DEF TaskFits, FileOK, OutcomeOK, CliOK, NumberOK, Board!Live, Board!Status
  <2>3. CASE t \notin ToSet(file) /\ t \in ToSet(ran)
    <3>1. /\ manifest'[t] = manifest[t] /\ status'[t] = Outcome(manifest[t])
          /\ manifest[t] \in {"running", "completed", "failed", "cancelled"}
          /\ run'[t] = "none" /\ t \notin shutdown'
      BY <1>7, <2>3 DEF ManifestStatus
    <3> QED
      BY <2>1, <2>3, <3>1
      DEF TaskFits, FileOK, OutcomeOK, CliOK, NumberOK, Board!Live, Board!Status, Outcome
  <2>4. CASE t \notin ToSet(file) /\ t \notin ToSet(ran)
    <3>1. /\ manifest'[t] = "none" /\ status'[t] = "absent" /\ run'[t] = "none"
      BY <1>7, <2>4
    <3> QED
      BY <2>1, <2>4, <3>1
      DEF TaskFits, FileOK, OutcomeOK, CliOK, NumberOK, Board!Live, Board!Status
  <2> QED
    BY <2>2, <2>3, <2>4
<1>9. TypeOK'
  <2>1. status' \in [Tasks -> Board!Status]
    BY <1>1, <1>8
  <2>2. run' \in [Tasks -> Board!RunState]
    BY <1>1 DEF Board!RunState
  <2>3. manifest' \in [Tasks -> ManifestStatus \cup {"none"}]
    BY <1>1, Types
  <2>4. queue' \in Seq(Tasks) /\ running' \in SUBSET Tasks /\ shutdown' \in SUBSET Tasks
        /\ todoFile' \in Seq(Tasks) /\ runs' \in Seq(Tasks)
    BY <1>1, <1>2, <1>3, EmptyIs
  <2> QED
    BY <1>6, <2>1, <2>2, <2>3, <2>4 DEF TypeOK, Board!TypeOK
<1>10. QueueIs(queue', status') /\ Cardinality(running') <= MaxConcurrent
  <2>1. {t \in Tasks : status'[t] = "queued"} = {}
    BY <1>8
  <2>2. QueueIs(queue', status')
    BY <1>1, <2>1, EmptyIs DEF QueueIs
  <2> QED
    BY <1>1, <2>2, FS_EmptySet, PersistenceAssumption DEF PersistenceAssumption
<1>11. ASSUME NEW t \in ToSet(order), t \notin CliRuns \/ status[t] # "absent"
       PROVE  t \in Tasks /\ number'[t] = number[t]
  <2>1. t \in Tasks /\ t \in ToSet(file) \cup ToSet(ran)
    BY <1>2, <1>3, <1>4, ElementsAre
  <2>2. saved[t] # 0 /\ saved[t] \in {0, number[t]}
    BY <1>2, <1>7, <1>11, <2>1 DEF TaskFits, NumberOK
  <2> QED
    BY <1>6, <2>1, <2>2
<1>12. NewTasksDiffer'
  <2>1. ASSUME NEW t \in Tasks \ (CliRuns \cup Unnumbered), NEW u \in Tasks \ (CliRuns \cup Unnumbered),
               number'[t] = number'[u], number'[t] # 0
        PROVE  t = u
    <3>1. t \in ToSet(order) /\ u \in ToSet(order)
      BY <1>6, <2>1
    <3>2. number[t] = number[u] /\ number[t] # 0
      BY <1>11, <2>1, <3>1
    <3> QED
      BY <3>2 DEF IInv, NewTasksDiffer
  <2> QED
    BY <2>1 DEF NewTasksDiffer
<1>13. NumbersStay
  <2>1. ASSUME NEW t \in Tasks, status[t] # "absent", status'[t] # "absent"
        PROVE  number'[t] = number[t]
    <3>1. t \in ToSet(order)
      BY <1>4, <1>7, <2>1
    <3> QED
      BY <1>11, <2>1, <3>1
  <2> QED
    BY <2>1 DEF NumbersStay
<1> QED
  BY <1>1, <1>2, <1>3, <1>8, <1>9, <1>10, <1>12, <1>13 DEF StepOK, IInv

LEMMA StepIsOK ==
  ASSUME IInv, Next
  PROVE  StepOK
<1>1. CASE Restart
  BY <1>1, RestoreOK DEF Restart
<1>2. ASSUME NEW c \in CliRuns, CliRunStarts(c) \/ CliRunEnds(c) PROVE StepOK
  <2>1. c \in Tasks
    BY PersistenceAssumption DEF PersistenceAssumption
  <2> QED
    BY <1>2, <2>1, CliRunStartsOK, ManifestOK
<1> QED
  BY <1>1, <1>2, CreateTodoTaskOK, CreateTaskOK, ExecuteTaskOK, CancelTaskOK, AnswerOK,
     RunStepsOK, ManifestOK, GracefulShutdownOK DEF Next

LEMMA InitIInv == Init => IInv
<1> SUFFICES ASSUME Init PROVE IInv
  OBVIOUS
<1>1. Unnumbered \in SUBSET Tasks /\ IsFiniteSet(Unnumbered) /\ Unnumbered \cap CliRuns = {}
  BY PersistenceAssumption, FS_Subset DEF PersistenceAssumption
<1>2. /\ todoFile \in Seq(Unnumbered) /\ ToSet(todoFile) = Unnumbered /\ IsInjective(todoFile)
  BY <1>1, OrderExists, OrderIs DEF Init
<1>3. todoFile \in Seq(Tasks) /\ Len(todoFile) \in Nat /\ DOMAIN todoFile = 1 .. Len(todoFile)
      /\ ToSet(todoFile) = {todoFile[i] : i \in 1 .. Len(todoFile)}
  BY <1>1, <1>2, SeqMonotonic, ElementsAre
<1>4. ASSUME NEW t \in Tasks
      PROVE  /\ number[t] \in Nat /\ number[t] < next
             /\ t \in Unnumbered <=> number[t] # 0
  <2>1. CASE t \in Unnumbered
    <3>1. \E i \in DOMAIN todoFile : todoFile[i] = t
      BY <1>2, <1>3, <2>1
    <3>2. number[t] \in DOMAIN todoFile
      BY <2>1, <3>1 DEF Init
    <3> QED
      BY <1>3, <2>1, <3>2 DEF Init
  <2>2. CASE t \notin Unnumbered
    BY <1>3, <2>2 DEF Init
  <2> QED
    BY <2>1, <2>2
<1>5. number \in [Tasks -> Nat] /\ next \in Nat \ {0}
  BY <1>3, <1>4 DEF Init
<1>6. TypeOK
  <2>1. Board!TypeOK
    BY EmptyIs DEF Init, Board!TypeOK, Board!Status, Board!RunState
  <2>2. runs \in Seq(Tasks) /\ manifest \in [Tasks -> ManifestStatus \cup {"none"}]
    BY EmptyIs DEF Init
  <2> QED
    BY <1>3, <1>5, <2>1, <2>2 DEF Init, TypeOK
<1>7. QueueIs(queue, status)
  <2>1. {t \in Tasks : status[t] = "queued"} = {}
    BY DEF Init
  <2> QED
    BY <2>1, EmptyIs DEF Init, QueueIs
<1>8. ASSUME NEW t \in Tasks PROVE TaskOK(t)
  <2>1. /\ status[t] = (IF t \in Unnumbered THEN "todo" ELSE "absent")
        /\ run[t] = "none" /\ manifest[t] = "none" /\ saved[t] = number[t]
        /\ t \notin ToSet(runs)
    BY EmptyIs DEF Init
  <2>2. t \in ToSet(todoFile) <=> t \in Unnumbered
    BY <1>2
  <2> QED
    BY <1>1, <1>4, <2>1, <2>2
    DEF TaskOK, InFile, TaskFits, FileOK, OutcomeOK, CliOK, NumberOK, Board!Live
<1>9. NewTasksDiffer
  BY <1>4 DEF NewTasksDiffer
<1>10. Cardinality(running) <= MaxConcurrent /\ IsInjective(runs)
  BY EmptyIs, FS_EmptySet, PersistenceAssumption DEF Init, PersistenceAssumption
<1> QED
  BY <1>2, <1>6, <1>7, <1>8, <1>9, <1>10 DEF IInv

LEMMA NextIInv == IInv /\ [Next]_vars => IInv'
<1> SUFFICES ASSUME IInv, [Next]_vars PROVE IInv'
  OBVIOUS
<1>1. CASE Next
  BY <1>1, StepIsOK DEF StepOK
<1>2. CASE UNCHANGED vars
  BY <1>2 DEF vars, boardVars, diskVars, IInv, TypeOK, Board!TypeOK, QueueIs, TaskOK, InFile,
     NewTasksDiffer
<1> QED
  BY <1>1, <1>2

LEMMA Invariance == Spec => []IInv
BY InitIInv, NextIInv, PTL DEF Spec

-----------------------------------------------------------------------------
(***************************************************************************)
(* The board and the files keep their types across any restarts.           *)
(***************************************************************************)
THEOREM TypeCorrect == Spec => []TypeOK
<1>1. IInv => TypeOK
  BY DEF IInv
<1> QED
  BY <1>1, Invariance, PTL

(***************************************************************************)
(* No crash and no restart makes a piece of work out of one that was       *)
(* saved: what is in tasks.json has no run, and no file names it twice.    *)
(***************************************************************************)
THEOREM WorkSavedOnce == Spec => []WorkIsSavedOnce
<1>1. ASSUME IInv PROVE WorkIsSavedOnce
  <2>1. ASSUME NEW t \in InFile PROVE manifest[t] = "none"
    BY <1>1, <2>1, Types, Fit DEF TaskFits, FileOK, InFile
  <2> QED
    BY <1>1, <2>1 DEF IInv, WorkIsSavedOnce
<1> QED
  BY <1>1, Invariance, PTL

(***************************************************************************)
(* A board rebuilt from the files at any moment shows the todo tasks and   *)
(* the outcomes that it shows now.                                         *)
(***************************************************************************)
THEOREM OutcomesSaved == Spec => []OutcomesAreSaved
<1>1. ASSUME IInv PROVE OutcomesAreSaved
  <2> DEFINE again == RestoredStatus(todoFile, runs)
             Settled(t) == status[t] \in {"completed", "failed"}
                           \/ (run[t] = "ended" /\ t \notin shutdown)
  <2>1. ASSUME NEW t \in Tasks \ CliRuns
        PROVE  /\ status[t] = "todo" => again[t] = "todo"
               /\ status[t] = "completed" => manifest[t] = "completed"
               /\ Settled(t) /\ manifest[t] # "none" => again[t] = status[t]
    <3>1. /\ FileOK(status[t], run[t], manifest[t], t \in ToSet(todoFile), t \in ToSet(runs))
          /\ OutcomeOK(status[t], run[t], manifest[t], t \in ToSet(todoFile), t \in shutdown)
      BY <1>1, Fit DEF TaskFits
    <3>2. again[t] = CASE t \in ToSet(todoFile) -> "todo"
                       [] t \in ToSet(runs) \ ToSet(todoFile) -> Outcome(manifest[t])
                       [] OTHER -> "absent"
      BY DEF RestoredStatus
    <3> HIDE DEF again
    <3> QED
      BY <3>1, <3>2 DEF FileOK, OutcomeOK, Outcome
  <2> QED
    BY <2>1 DEF OutcomesAreSaved
<1> QED
  BY <1>1, Invariance, PTL

(***************************************************************************)
(* The counter stays ahead of every number on the board, although each     *)
(* restart starts it again at 1; so no two new tasks share a number.       *)
(***************************************************************************)
THEOREM NumbersDistinct == Spec => []NumbersAreDistinct
<1>1. ASSUME IInv PROVE NumbersAreDistinct
  <2>1. ASSUME NEW t \in Tasks PROVE number[t] < next
    BY <1>1, Fit DEF TaskFits, NumberOK
  <2> QED
    BY <1>1, <2>1 DEF IInv, NewTasksDiffer, NumbersAreDistinct
<1> QED
  BY <1>1, Invariance, PTL

(***************************************************************************)
(* No step changes the number of a task that stays on the board, a restart *)
(* not more than any other.                                                *)
(***************************************************************************)
THEOREM NumbersKept == Spec => NumbersAreKept
<1>1. ASSUME IInv, [Next]_vars
      PROVE  [\A t \in Tasks : status[t] # "absent" /\ status'[t] # "absent"
                               => number'[t] = number[t]]_vars
  <2>1. CASE Next
    BY <1>1, <2>1, StepIsOK DEF StepOK, NumbersStay
  <2>2. CASE UNCHANGED vars
    BY <2>2
  <2> QED
    BY <1>1, <2>1, <2>2
<1> QED
  BY <1>1, Invariance, PTL DEF Spec, NumbersAreKept

(***************************************************************************)
(* A graceful shutdown empties the queue and tells every run to stop, the  *)
(* runs that its own cancellations start included.                         *)
(***************************************************************************)
THEOREM ShutdownReachesEveryRun == Spec => ShutdownReachesAll
<1>1. ASSUME IInv, [Next]_vars
      PROVE  [GracefulShutdown =>
                /\ queue' = <<>>
                /\ \A t \in Tasks : run'[t] \in Board!Live =>
                                      t \in shutdown' \/ run'[t] = "refused"]_vars
  BY <1>1, ShutdownReaches
<1> QED
  BY <1>1, Invariance, PTL DEF Spec, ShutdownReachesAll
=============================================================================
