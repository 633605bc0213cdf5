---------------------------- MODULE SequenceFacts ---------------------------
(***************************************************************************)
(* Induction, definitions by recursion, and sequences: the facts that the  *)
(* proofs about several modules need.  Induction is stated of sets and     *)
(* functions, so that no fact has an operator as a parameter and every     *)
(* proof can instantiate it.                                               *)
(***************************************************************************)
EXTENDS Integers, FiniteSets, Sequences, SequencesExt, FiniteSetTheorems, SequenceTheorems,
        WellFoundedInduction, TLAPS

LEMMA LeastElement ==
  ASSUME NEW S \in SUBSET Nat, S # {}
  PROVE  \E n \in S : \A m \in S : n <= m
<1> DEFINE R == OpToRel(<, Nat)
<1>1. IsWellFoundedOn(R, Nat)
  BY NatLessThanWellFounded
<1>2. \A x, y \in Nat : <<x, y>> \in R <=> x < y
  BY DEF OpToRel
<1> HIDE DEF R
<1>3. PICK n \in S : \A m \in S : ~ (<<m, n>> \in R)
  BY <1>1, WFMin
<1>4. n \in Nat /\ \A m \in S : m \in Nat /\ ~ (m < n)
  BY <1>2, <1>3
<1> QED
  BY <1>4

(***************************************************************************)
(* A set of indices that contains 0 and, with each index, the next one     *)
(* contains them all.                                                      *)
(***************************************************************************)
LEMMA UpTo ==
  ASSUME NEW n \in Nat, NEW S, 0 \in S, \A i \in 1 .. n : i - 1 \in S => i \in S
  PROVE  0 .. n \subseteq S
<1> SUFFICES ASSUME 0 .. n \ S # {} PROVE FALSE
  OBVIOUS
<1>1. 0 .. n \ S \in SUBSET Nat
  OBVIOUS
<1>2. PICK k \in 0 .. n \ S : \A m \in 0 .. n \ S : k <= m
  BY <1>1, LeastElement
<1>3. k \in 1 .. n /\ k - 1 \in 0 .. n /\ ~ (k <= k - 1)
  BY <1>2
<1> QED
  BY <1>2, <1>3

(***************************************************************************)
(* A recursion over 0 .. n whose steps stay in a set has a solution.       *)
(***************************************************************************)
StepsStay(step, n, V) == step \in [1 .. n -> [V -> V]]

Solution(f, n, V, base, step) ==
  f \in [0 .. n -> V] /\ f[0] = base /\ \A i \in 1 .. n : f[i] = step[i][f[i - 1]]

LEMMA Recursion ==
  ASSUME NEW V, NEW n \in Nat, NEW base \in V, NEW step, StepsStay(step, n, V)
  PROVE  \E f : Solution(f, n, V, base, step)
<1> DEFINE Solves(f, k) == /\ f \in [0 .. k -> V] /\ f[0] = base
                           /\ \A i \in 1 .. k : f[i] = step[i][f[i - 1]]
           S == {k \in 0 .. n : \E h : Solves(h, k)}
<1>0. step \in [1 .. n -> [V -> V]]
  BY DEF StepsStay
<1>1. 0 \in S
  <2> DEFINE g == [i \in 0 .. 0 |-> base]
  <2>1. Solves(g, 0)
    OBVIOUS
  <2> HIDE DEF g
  <2> QED
    BY <2>1
<1>2. ASSUME NEW k \in 1 .. n, k - 1 \in S
      PROVE  k \in S
  <2>1. PICK f : Solves(f, k - 1)
    BY <1>2
  <2> DEFINE g == [i \in 0 .. k |-> IF i = k THEN step[k][f[k - 1]] ELSE f[i]]
  <2>2. \A i \in 0 .. k : i # k => i \in 0 .. k - 1
    OBVIOUS
  <2>3. step[k][f[k - 1]] \in V
    BY <1>0, <2>1
  <2>4. g \in [0 .. k -> V] /\ g[0] = base
    BY <2>1, <2>2, <2>3
  <2>5. ASSUME NEW i \in 1 .. k PROVE g[i] = step[i][g[i - 1]]
    <3>1. i - 1 \in 0 .. k /\ i - 1 # k /\ i \in 0 .. k
      OBVIOUS
    <3>2. g[i - 1] = f[i - 1]
      BY <3>1
    <3>3. CASE i = k
      BY <3>2, <3>3
    <3>4. CASE i # k
      <4>1. i \in 1 .. k - 1
        BY <3>4
      <4> QED
        BY <2>1, <3>1, <3>2, <3>4, <4>1
    <3> QED
      BY <3>3, <3>4
  <2> HIDE DEF g
  <2>6. Solves(g, k)
    BY <2>4, <2>5
  <2> HIDE DEF Solves
  <2>7. k \in 0 .. n
    OBVIOUS
  <2> QED
    BY <2>6, <2>7
<1>3. n \in S
  <2> HIDE DEF S
  <2>1. 0 .. n \subseteq S
    BY <1>1, <1>2, UpTo
  <2> QED
    BY <2>1
<1> QED
  BY <1>3 DEF Solution

-----------------------------------------------------------------------------
(***************************************************************************)
(* Sequences, and the sets of their elements.                              *)
(***************************************************************************)
LEMMA ElementsAre ==
  ASSUME NEW S, NEW s \in Seq(S)
  PROVE  /\ Len(s) \in Nat /\ DOMAIN s = 1 .. Len(s)
         /\ ToSet(s) = {s[i] : i \in 1 .. Len(s)}
         /\ ToSet(s) \subseteq S
         /\ IsInjective(s) <=> \A i, j \in 1 .. Len(s) : s[i] = s[j] => i = j
<1>1. Len(s) \in Nat /\ DOMAIN s = 1 .. Len(s) /\ \A i \in 1 .. Len(s) : s[i] \in S
  BY LenProperties, ElementOfSeq
<1> QED
  BY <1>1 DEF ToSet, IsInjective

LEMMA AppendIs ==
  ASSUME NEW S, NEW s \in Seq(S), NEW e \in S
  PROVE  /\ Append(s, e) \in Seq(S)
         /\ ToSet(Append(s, e)) = ToSet(s) \cup {e}
         /\ IsInjective(s) /\ e \notin ToSet(s) => IsInjective(Append(s, e))
<1> DEFINE a == Append(s, e)
<1>1. /\ a \in Seq(S) /\ Len(a) = Len(s) + 1 /\ a[Len(s) + 1] = e
      /\ \A i \in 1 .. Len(s) : a[i] = s[i]
  BY AppendProperties
<1> HIDE DEF a
<1>2. Len(s) \in Nat /\ 1 .. Len(a) = 1 .. Len(s) \cup {Len(s) + 1}
  BY <1>1, ElementsAre
<1>3. ToSet(a) = ToSet(s) \cup {e}
  BY <1>1, <1>2, ElementsAre
<1>4. ASSUME IsInjective(s), e \notin ToSet(s) PROVE IsInjective(a)
  <2>1. \A i \in 1 .. Len(s) : a[i] # e
    BY <1>1, <1>4, ElementsAre
  <2> QED
    BY <1>1, <1>2, <1>4, <2>1, ElementsAre
<1> QED
  BY <1>1, <1>3, <1>4 DEF a

\* The positions of a concatenation, and of what is left without the first.
LEMMA ConcatSplits ==
  ASSUME NEW S, NEW s \in Seq(S), NEW u \in Seq(S)
  PROVE  /\ s \o u \in Seq(S) /\ Len(s \o u) = Len(s) + Len(u)
         /\ \A i \in DOMAIN s : i \in DOMAIN (s \o u) /\ (s \o u)[i] = s[i]
         /\ \A i \in DOMAIN u : Len(s) + i \in DOMAIN (s \o u) /\ (s \o u)[Len(s) + i] = u[i]
         /\ \A k \in DOMAIN (s \o u) :
              \/ k \in DOMAIN s /\ (s \o u)[k] = s[k]
              \/ /\ k - Len(s) \in DOMAIN u /\ k > Len(s)
                 /\ (s \o u)[k] = u[k - Len(s)]
<1> DEFINE c == s \o u
<1>1. /\ c \in Seq(S) /\ Len(c) = Len(s) + Len(u)
      /\ \A i \in 1 .. Len(s) + Len(u) : c[i] = IF i <= Len(s) THEN s[i] ELSE u[i - Len(s)]
  BY ConcatProperties
<1> HIDE DEF c
<1>2. /\ Len(s) \in Nat /\ Len(u) \in Nat
      /\ DOMAIN s = 1 .. Len(s) /\ DOMAIN u = 1 .. Len(u) /\ DOMAIN c = 1 .. Len(s) + Len(u)
  BY <1>1, ElementsAre
<1>3. \A i \in DOMAIN s : i \in DOMAIN c /\ c[i] = s[i]
  BY <1>1, <1>2
<1>4. ASSUME NEW i \in DOMAIN u PROVE Len(s) + i \in DOMAIN c /\ c[Len(s) + i] = u[i]
  <2>1. Len(s) + i \in 1 .. Len(s) + Len(u) /\ ~ (Len(s) + i <= Len(s)) /\ (Len(s) + i) - Len(s) = i
    BY <1>2
  <2> QED
    BY <1>1, <1>2, <2>1
<1>5. ASSUME NEW k \in DOMAIN c
      PROVE  \/ k \in DOMAIN s /\ c[k] = s[k]
             \/ k - Len(s) \in DOMAIN u /\ k > Len(s) /\ c[k] = u[k - Len(s)]
  BY <1>1, <1>2
<1> QED
  BY <1>1, <1>3, <1>4, <1>5 DEF c

LEMMA TailIs ==
  ASSUME NEW S, NEW s \in Seq(S), s # <<>>
  PROVE  /\ Head(s) = s[1] /\ 1 \in DOMAIN s /\ s[1] \in S
         /\ Tail(s) \in Seq(S) /\ Len(Tail(s)) = Len(s) - 1
         /\ \A i \in DOMAIN Tail(s) : i + 1 \in DOMAIN s /\ Tail(s)[i] = s[i + 1]
         /\ \A k \in DOMAIN s : k = 1 \/ (k - 1 \in DOMAIN Tail(s) /\ s[k] = Tail(s)[k - 1])
<1> DEFINE r == Tail(s)
<1>1. /\ Head(s) = s[1] /\ r \in Seq(S) /\ Len(r) = Len(s) - 1
      /\ \A i \in 1 .. Len(r) : r[i] = s[i + 1]
  BY HeadTailProperties
<1> HIDE DEF r
<1>2. /\ Len(s) \in Nat /\ Len(s) # 0 /\ DOMAIN s = 1 .. Len(s) /\ DOMAIN r = 1 .. Len(s) - 1
  BY <1>1, ElementsAre, EmptySeq
<1> QED
  BY <1>1, <1>2, ElementOfSeq DEF r

LEMMA ConcatIs ==
  ASSUME NEW S, NEW s \in Seq(S), NEW u \in Seq(S)
  PROVE  /\ s \o u \in Seq(S)
         /\ ToSet(s \o u) = ToSet(s) \cup ToSet(u)
         /\ IsInjective(s) /\ IsInjective(u) /\ ToSet(s) \cap ToSet(u) = {} => IsInjective(s \o u)
<1> DEFINE c == s \o u
<1>1. /\ c \in Seq(S) /\ Len(c) = Len(s) + Len(u)
      /\ \A i \in 1 .. Len(s) + Len(u) : c[i] = IF i <= Len(s) THEN s[i] ELSE u[i - Len(s)]
  BY ConcatProperties
<1> HIDE DEF c
<1>2. Len(s) \in Nat /\ Len(u) \in Nat
  BY ElementsAre
<1>3. ToSet(c) = ToSet(s) \cup ToSet(u)
  <2>1. ToSet(c) \subseteq ToSet(s) \cup ToSet(u)
    <3>1. ASSUME NEW i \in 1 .. Len(c) PROVE c[i] \in ToSet(s) \cup ToSet(u)
      <4>1. i \in 1 .. Len(s) \/ i - Len(s) \in 1 .. Len(u)
        BY <1>1, <1>2
      <4> QED
        BY <1>1, <1>2, <4>1, ElementsAre
    <3>2. ToSet(c) = {c[i] : i \in 1 .. Len(c)}
      BY <1>1, ElementsAre
    <3> QED
      BY <3>1, <3>2
  <2>2. ToSet(s) \subseteq ToSet(c)
    <3>1. \A i \in 1 .. Len(s) : i \in 1 .. Len(c) /\ c[i] = s[i]
      BY <1>1, <1>2
    <3>2. /\ ToSet(c) = {c[i] : i \in 1 .. Len(c)}
          /\ ToSet(s) = {s[i] : i \in 1 .. Len(s)}
      BY <1>1, ElementsAre
    <3> QED
      BY <3>1, <3>2
  <2>3. ToSet(u) \subseteq ToSet(c)
    <3>1. ASSUME NEW i \in 1 .. Len(u) PROVE u[i] \in ToSet(c)
      <4>1. /\ i + Len(s) \in 1 .. Len(c) /\ i + Len(s) \in 1 .. Len(s) + Len(u)
            /\ ~ (i + Len(s) <= Len(s)) /\ (i + Len(s)) - Len(s) = i
        BY <1>1, <1>2
      <4>2. c[i + Len(s)] = u[i]
        BY <1>1, <4>1
      <4>3. ToSet(c) = {c[k] : k \in 1 .. Len(c)}
        BY <1>1, ElementsAre
      <4> QED
        BY <4>1, <4>2, <4>3
    <3> QED
      BY <3>1, ElementsAre
  <2> QED
    BY <2>1, <2>2, <2>3
<1>4. ASSUME IsInjective(s), IsInjective(u), ToSet(s) \cap ToSet(u) = {}
      PROVE  IsInjective(c)
  <2>1. ASSUME NEW i \in 1 .. Len(c), NEW j \in 1 .. Len(c), c[i] = c[j]
        PROVE  i = j
    <3>1. /\ i \in 1 .. Len(s) \/ (i - Len(s) \in 1 .. Len(u) /\ ~ (i <= Len(s)))
          /\ j \in 1 .. Len(s) \/ (j - Len(s) \in 1 .. Len(u) /\ ~ (j <= Len(s)))
      BY <1>1, <1>2
    <3>2. ASSUME NEW k \in 1 .. Len(s), NEW l \in 1 .. Len(u) PROVE s[k] # u[l]
      <4>1. s[k] \in ToSet(s) /\ u[l] \in ToSet(u)
        BY ElementsAre
      <4> QED
        BY <1>4, <4>1
    <3>3. CASE i \in 1 .. Len(s) /\ j \in 1 .. Len(s)
      BY <1>1, <1>4, <2>1, <3>3, ElementsAre
    <3>4. CASE i - Len(s) \in 1 .. Len(u) /\ ~ (i <= Len(s))
               /\ j - Len(s) \in 1 .. Len(u) /\ ~ (j <= Len(s))
      <4>1. u[i - Len(s)] = u[j - Len(s)]
        BY <1>1, <2>1, <3>4
      <4>2. i - Len(s) = j - Len(s)
        BY <1>4, <3>4, <4>1, ElementsAre
      <4> QED
        BY <1>2, <2>1, <4>2
    <3>5. c[i] = (IF i <= Len(s) THEN s[i] ELSE u[i - Len(s)])
          /\ c[j] = (IF j <= Len(s) THEN s[j] ELSE u[j - Len(s)])
      BY <1>1
    <3>6. CASE i \in 1 .. Len(s) /\ j - Len(s) \in 1 .. Len(u) /\ ~ (j <= Len(s))
      <4>1. c[i] = s[i] /\ c[j] = u[j - Len(s)]
        BY <1>2, <3>5, <3>6
      <4> QED
        BY <2>1, <3>2, <3>6, <4>1
    <3>7. CASE j \in 1 .. Len(s) /\ i - Len(s) \in 1 .. Len(u) /\ ~ (i <= Len(s))
      <4>1. c[j] = s[j] /\ c[i] = u[i - Len(s)]
        BY <1>2, <3>5, <3>7
      <4> QED
        BY <2>1, <3>2, <3>7, <4>1
    <3> QED
      BY <3>1, <3>3, <3>4, <3>6, <3>7
  <2> QED
    BY <1>1, <2>1, ElementsAre
<1> QED
  BY <1>1, <1>3, <1>4 DEF c

LEMMA EmptyIs ==
  ASSUME NEW S
  PROVE  <<>> \in Seq(S) /\ ToSet(<<>>) = {} /\ IsInjective(<<>>)
<1>1. <<>> \in Seq(S) /\ Len(<<>>) = 0 /\ 1 .. 0 = {}
  BY EmptySeq
<1>2. /\ ToSet(<<>>) = {<<>>[i] : i \in 1 .. Len(<<>>)}
      /\ IsInjective(<<>>) <=> \A i, j \in 1 .. Len(<<>>) : <<>>[i] = <<>>[j] => i = j
  BY <1>1, ElementsAre
<1> QED
  BY <1>1, <1>2

(***************************************************************************)
(* A permutation of a finite set, as the code's loops over a Map see it.   *)
(***************************************************************************)
LEMMA OrderIs ==
  ASSUME NEW S, IsFiniteSet(S), NEW order \in SetToSeqs(S)
  PROVE  order \in Seq(S) /\ ToSet(order) = S /\ IsInjective(order)
<1>1. Cardinality(S) \in Nat /\ order \in [1 .. Cardinality(S) -> S]
      /\ \A i, j \in 1 .. Cardinality(S) : i # j => order[i] # order[j]
  BY FS_CardinalityType DEF SetToSeqs
<1>2. order \in Seq(S) /\ Len(order) = Cardinality(S)
  BY <1>1
<1>3. IsInjective(order)
  BY <1>1, <1>2, ElementsAre
<1>4. order \in Injection(1 .. Cardinality(S), S)
  BY <1>1, <1>3 DEF Injection
<1>5. Cardinality(1 .. Cardinality(S)) = Cardinality(S)
  BY <1>1, FS_Interval
<1>6. order \in Surjection(1 .. Cardinality(S), S)
  BY <1>4, <1>5, FS_Injection
<1>7. \A x \in S : \E i \in 1 .. Cardinality(S) : order[i] = x
  BY <1>6 DEF Surjection
<1>8. ToSet(order) = S
  <2>1. ToSet(order) = {order[i] : i \in 1 .. Cardinality(S)} /\ ToSet(order) \subseteq S
    BY <1>2, ElementsAre
  <2> QED
    BY <1>7, <2>1
<1> QED
  BY <1>2, <1>3, <1>8

LEMMA OrderExists ==
  ASSUME NEW S, IsFiniteSet(S)
  PROVE  SetToSeq(S) \in SetToSeqs(S)
<1>1. Cardinality(S) \in Nat /\ ExistsBijection(1 .. Cardinality(S), S)
  BY FS_CardinalityType
<1>2. PICK f \in [1 .. Cardinality(S) -> S] : IsInjective(f)
  BY <1>1 DEF ExistsBijection, Bijection, Injection
<1>3. SetToSeq(S) \in [1 .. Cardinality(S) -> S] /\ IsInjective(SetToSeq(S))
  BY <1>2 DEF SetToSeq
<1> QED
  BY <1>3 DEF SetToSeqs, IsInjective

\* A sequence of sequences is flattened from its first to its last.
Flattened(f, s, V) ==
  /\ f \in [0 .. Len(s) -> Seq(V)]
  /\ f[0] = <<>> /\ FlattenSeq(s) = f[Len(s)]
  /\ \A i \in 1 .. Len(s) : f[i] = f[i - 1] \o s[i]

LEMMA FlattenIs ==
  ASSUME NEW V, NEW s \in Seq(Seq(V))
  PROVE  \E f : Flattened(f, s, V)
<1> DEFINE n == Len(s)
           W == Seq(V)
           step == [i \in 1 .. n |-> [v \in W |-> v \o s[i]]]
           body(f) == [i \in 1 .. n |-> IF i = 1 THEN s[i] ELSE f[i - 1] \o s[i]]
           flat == CHOOSE f : f = body(f)
<1>1. n \in Nat /\ \A i \in 1 .. n : s[i] \in W
  BY ElementsAre, ElementOfSeq
<1>2. <<>> \in W /\ StepsStay(step, n, W)
  <2>1. \A i \in 1 .. n : \A v \in W : v \o s[i] \in W
    BY <1>1, ConcatIs
  <2> HIDE DEF W
  <2>2. \A i \in 1 .. n : step[i] \in [W -> W]
    BY <2>1
  <2> QED
    BY <2>2 DEF StepsStay, W
<1>3. PICK g : Solution(g, n, W, <<>>, step)
  <2> HIDE DEF step, W
  <2> QED
    BY <1>1, <1>2, Recursion
<1>4. /\ g \in [0 .. n -> W] /\ g[0] = <<>>
      /\ \A i \in 1 .. n : g[i] = g[i - 1] \o s[i]
  <2>1. /\ g \in [0 .. n -> W] /\ g[0] = <<>>
        /\ \A i \in 1 .. n : g[i] = step[i][g[i - 1]]
    BY <1>3 DEF Solution
  <2> HIDE DEF W
  <2>2. ASSUME NEW i \in 1 .. n PROVE g[i] = g[i - 1] \o s[i]
    <3>1. i - 1 \in 0 .. n
      BY <1>1
    <3> QED
      BY <2>1, <3>1
  <2> QED
    BY <2>1, <2>2
<1> HIDE DEF step
<1>5. ASSUME NEW i \in 1 .. n
      PROVE  g[i] = IF i = 1 THEN s[i] ELSE g[i - 1] \o s[i]
  <2>1. i = 1 => g[i - 1] = <<>> /\ <<>> \o s[i] = s[i]
    BY <1>1, <1>4, ConcatEmptySeq
  <2> QED
    BY <1>4, <2>1
<1>6. \E f : f = body(f)
  <2> DEFINE h == [i \in 1 .. n |-> g[i]]
  <2>1. \A i \in 1 .. n : i # 1 => i - 1 \in 1 .. n
    BY <1>1
  <2>2. h = body(h)
    BY <1>5, <2>1
  <2> QED
    BY <2>2
<1>7. flat = body(flat)
  <2> HIDE DEF body
  <2> QED
    BY <1>6
<1>8. FlattenSeq(s) = IF n = 0 THEN s ELSE flat[n]
  BY DEF FlattenSeq
<1>9. \A i \in 1 .. n : flat[i] = IF i = 1 THEN s[i] ELSE flat[i - 1] \o s[i]
  <2> HIDE DEF flat
  <2> QED
    BY <1>7
<1> HIDE DEF flat
<1>10. 0 .. n \subseteq {i \in 0 .. n : i = 0 \/ flat[i] = g[i]}
  <2> DEFINE I == {i \in 0 .. n : i = 0 \/ flat[i] = g[i]}
  <2>1. 0 \in I
    BY <1>1
  <2>2. ASSUME NEW i \in 1 .. n, i - 1 \in I PROVE i \in I
    <3>1. i \in 0 .. n /\ (i # 1 => flat[i - 1] = g[i - 1])
      BY <1>1, <2>2
    <3> QED
      BY <1>5, <1>9, <3>1
  <2> HIDE DEF I
  <2>3. 0 .. n \subseteq I
    BY <1>1, <2>1, <2>2, UpTo
  <2> QED
    BY <2>3 DEF I
<1>11. FlattenSeq(s) = g[n]
  <2>1. CASE n = 0
    BY <1>4, <1>8, <2>1
  <2>2. CASE n # 0
    <3>1. n \in 0 .. n
      BY <1>1
    <3> QED
      BY <1>8, <1>10, <2>2, <3>1
  <2> QED
    BY <2>1, <2>2
<1> QED
  BY <1>4, <1>11 DEF Flattened
-----------------------------------------------------------------------------
(***************************************************************************)
(* A finite set of naturals can be listed in increasing order.             *)
(***************************************************************************)
Increases(f, S) ==
  /\ f \in [1 .. Cardinality(S) -> S]
  /\ \A i, j \in 1 .. Cardinality(S) : i < j => f[i] < f[j]

LEMMA IncreasingExists ==
  ASSUME NEW S \in SUBSET Nat, IsFiniteSet(S)
  PROVE  \E f : Increases(f, S)
<1> DEFINE N == Cardinality(S)
           I == {k \in 0 .. N : \A T \in SUBSET S : Cardinality(T) = k => \E f : Increases(f, T)}
<1>0. N \in Nat /\ \A T \in SUBSET S : IsFiniteSet(T) /\ Cardinality(T) \in Nat
  BY FS_Subset, FS_CardinalityType
<1> HIDE DEF N
<1>1. 0 \in I
  <2> SUFFICES ASSUME NEW T \in SUBSET S, Cardinality(T) = 0 PROVE \E f : Increases(f, T)
    BY <1>0
  <2>1. T = {}
    BY <1>0, FS_EmptySet
  <2>2. Increases([i \in 1 .. 0 |-> i], T)
    BY <2>1, FS_EmptySet DEF Increases
  <2> QED
    BY <2>2
<1>2. ASSUME NEW k \in 1 .. N, k - 1 \in I PROVE k \in I
  <2> SUFFICES ASSUME NEW T \in SUBSET S, Cardinality(T) = k PROVE \E f : Increases(f, T)
    BY <1>0
  <2>1. T # {} /\ T \in SUBSET Nat
    BY FS_EmptySet
  <2>2. PICK m \in T : \A n \in T : m <= n
    BY <2>1, LeastElement
  <2> DEFINE R == T \ {m}
  <2>3. R \in SUBSET S /\ Cardinality(R) = k - 1
    BY <1>0, <2>2, FS_RemoveElement
  <2>4. PICK g : Increases(g, R)
    BY <1>2, <2>3
  <2>5. \A i \in 1 .. k - 1 : g[i] \in T /\ g[i] \in Nat /\ m < g[i]
    <3>1. \A i \in 1 .. k - 1 : g[i] \in R
      BY <2>3, <2>4 DEF Increases
    <3>2. \A n \in R : n \in T /\ n \in Nat /\ m \in Nat /\ n # m /\ m <= n
      BY <2>1, <2>2
    <3>3. \A n \in R : m < n
      BY <3>2
    <3> QED
      BY <3>1, <3>2, <3>3
  <2>6. \A i, j \in 1 .. k - 1 : i < j => g[i] < g[j]
    BY <2>3, <2>4 DEF Increases
  <2> HIDE DEF R
  <2> DEFINE f == [i \in 1 .. k |-> IF i = 1 THEN m ELSE g[i - 1]]
  <2>7. \A i \in 1 .. k : f[i] = IF i = 1 THEN m ELSE g[i - 1]
    OBVIOUS
  <2>8. \A i \in 1 .. k : i # 1 => i - 1 \in 1 .. k - 1
    BY <1>0
  <2>9. f \in [1 .. k -> T]
    BY <2>2, <2>5, <2>8
  <2> HIDE DEF f
  <2>10. ASSUME NEW i \in 1 .. k, NEW j \in 1 .. k, i < j PROVE f[i] < f[j]
    <3>1. j # 1 /\ j - 1 \in 1 .. k - 1 /\ (i # 1 => i - 1 \in 1 .. k - 1 /\ i - 1 < j - 1)
      BY <1>0, <2>8, <2>10
    <3> QED
      BY <2>5, <2>6, <2>7, <3>1
  <2>11. Increases(f, T)
    BY <2>9, <2>10 DEF Increases
  <2> QED
    BY <2>11
<1>3. N \in I
  <2> HIDE DEF I
  <2>1. 0 .. N \subseteq I
    BY <1>0, <1>1, <1>2, UpTo
  <2> QED
    BY <1>0, <2>1
<1> QED
  BY <1>3 DEF N

LEMMA IncreasingIsOrder ==
  ASSUME NEW S \in SUBSET Nat, IsFiniteSet(S), NEW f, Increases(f, S)
  PROVE  f \in SetToSeqs(S)
<1>1. Cardinality(S) \in Nat
  BY FS_CardinalityType
<1>2. \A i, j \in 1 .. Cardinality(S) : i # j => f[i] # f[j]
  <2>1. ASSUME NEW i \in 1 .. Cardinality(S), NEW j \in 1 .. Cardinality(S), i # j
        PROVE  f[i] # f[j]
    <3>1. f[i] \in Nat /\ f[j] \in Nat
      BY DEF Increases
    <3>2. i < j \/ j < i
      BY <2>1
    <3> QED
      BY <3>1, <3>2 DEF Increases
  <2> QED
    BY <2>1
<1> QED
  BY <1>2 DEF Increases, SetToSeqs

(***************************************************************************)
(* How many elements of a sequence are in a set.                           *)
(***************************************************************************)
Positions(s, S) == {i \in DOMAIN s : s[i] \in S}

CountOf(s, S) == Cardinality(Positions(s, S))

LEMMA PositionsFinite ==
  ASSUME NEW V, NEW s \in Seq(V), NEW S
  PROVE  /\ Positions(s, S) \in SUBSET (1 .. Len(s)) /\ Len(s) \in Nat
         /\ IsFiniteSet(Positions(s, S)) /\ CountOf(s, S) \in Nat
<1>1. Positions(s, S) \in SUBSET (1 .. Len(s)) /\ Len(s) \in Nat
  BY ElementsAre DEF Positions
<1>2. IsFiniteSet(1 .. Len(s))
  BY <1>1, FS_Interval
<1> QED
  BY <1>1, <1>2, FS_Subset, FS_CardinalityType DEF CountOf

LEMMA CountConcat ==
  ASSUME NEW V, NEW s \in Seq(V), NEW u \in Seq(V), NEW S
  PROVE  CountOf(s \o u, S) = CountOf(s, S) + CountOf(u, S)
<1> DEFINE P == Positions(s, S)
           Q == Positions(u, S)
           R == {Len(s) + i : i \in Q}
           shift == [i \in Q |-> Len(s) + i]
<1>1. /\ P \in SUBSET (1 .. Len(s)) /\ Q \in SUBSET (1 .. Len(u)) /\ Len(s) \in Nat /\ Len(u) \in Nat
      /\ IsFiniteSet(P) /\ IsFiniteSet(Q) /\ Cardinality(P) \in Nat /\ Cardinality(Q) \in Nat
  BY PositionsFinite DEF CountOf
<1>2. Positions(s \o u, S) = P \cup R
  <2>1. ASSUME NEW k \in Positions(s \o u, S) PROVE k \in P \cup R
    <3>1. k \in DOMAIN (s \o u) /\ (s \o u)[k] \in S
      BY DEF Positions
    <3>2. CASE k \in DOMAIN s /\ (s \o u)[k] = s[k]
      BY <3>1, <3>2 DEF Positions
    <3>3. CASE k - Len(s) \in DOMAIN u /\ k > Len(s) /\ (s \o u)[k] = u[k - Len(s)]
      <4>1. k - Len(s) \in Q
        BY <3>1, <3>3 DEF Positions
      <4>2. k \in Nat
        BY <3>1, ConcatSplits, ElementsAre
      <4>3. k = Len(s) + (k - Len(s))
        BY <1>1, <4>2
      <4> QED
        BY <4>1, <4>3
    <3> QED
      BY <3>1, <3>2, <3>3, ConcatSplits
  <2>2. P \subseteq Positions(s \o u, S)
    BY ConcatSplits DEF Positions
  <2>3. R \subseteq Positions(s \o u, S)
    BY ConcatSplits DEF Positions
  <2> QED
    BY <2>1, <2>2, <2>3
<1> HIDE DEF P, Q
<1>3. shift \in Bijection(Q, R)
  <2>1. shift \in [Q -> R] /\ \A k \in R : \E i \in Q : shift[i] = k
    OBVIOUS
  <2>2. ASSUME NEW i \in Q, NEW j \in Q, shift[i] = shift[j] PROVE i = j
    BY <1>1, <2>2
  <2>3. shift \in Surjection(Q, R)
    BY <2>1 DEF Surjection
  <2>4. shift \in Injection(Q, R)
    BY <2>1, <2>2 DEF Injection, IsInjective
  <2> QED
    BY <2>3, <2>4 DEF Bijection
<1>4. IsFiniteSet(R) /\ Cardinality(R) = Cardinality(Q)
  BY <1>1, <1>3, FS_Bijection DEF ExistsBijection
<1>5. P \cap R = {}
  BY <1>1
<1> HIDE DEF R
<1>6. Cardinality(P \cup R) = Cardinality(P) + Cardinality(R)
  <2>1. Cardinality(P \cap R) = 0
    BY <1>5, FS_EmptySet
  <2>2. Cardinality(P \cup R) = Cardinality(P) + Cardinality(R) - Cardinality(P \cap R)
    BY <1>1, <1>4, FS_Union
  <2> QED
    BY <1>1, <1>4, <2>1, <2>2
<1> QED
  BY <1>2, <1>4, <1>6 DEF CountOf, P, Q

LEMMA CountNone ==
  ASSUME NEW V, NEW s \in Seq(V), NEW S, \A i \in DOMAIN s : s[i] \notin S
  PROVE  CountOf(s, S) = 0
<1>1. Positions(s, S) = {}
  BY DEF Positions
<1> QED
  BY <1>1, FS_EmptySet DEF CountOf

LEMMA CountOne ==
  ASSUME NEW x, NEW S
  PROVE  CountOf(<<x>>, S) = IF x \in S THEN 1 ELSE 0
<1>1. DOMAIN <<x>> = {1} /\ <<x>>[1] = x
  OBVIOUS
<1>2. Positions(<<x>>, S) = IF x \in S THEN {1} ELSE {}
  BY <1>1 DEF Positions
<1> QED
  BY <1>2, FS_EmptySet, FS_Singleton DEF CountOf

LEMMA CountUnique ==
  ASSUME NEW V, NEW s \in Seq(V), NEW k \in DOMAIN s, NEW x,
         \A i \in DOMAIN s : s[i] = x <=> i = k
  PROVE  CountOf(s, {x}) = 1
<1>1. Positions(s, {x}) = {k}
  BY DEF Positions
<1> QED
  BY <1>1, FS_Singleton DEF CountOf

\* The two parts of a concatenation, as SubSeq finds them.
LEMMA PartsOfConcat ==
  ASSUME NEW V, NEW s \in Seq(V), NEW u \in Seq(V)
  PROVE  /\ SubSeq(s \o u, 1, Len(s \o u) - Len(u)) = s
         /\ SubSeq(s \o u, Len(s \o u) - Len(u) + 1, Len(s \o u)) = u
<1> DEFINE c == s \o u
<1>1. /\ c \in Seq(V) /\ Len(c) = Len(s) + Len(u) /\ Len(s) \in Nat /\ Len(u) \in Nat
      /\ s \in [1 .. Len(s) -> V] /\ u \in [1 .. Len(u) -> V]
      /\ \A i \in 1 .. Len(s) + Len(u) : c[i] = IF i <= Len(s) THEN s[i] ELSE u[i - Len(s)]
  BY ConcatProperties, LenProperties
<1> HIDE DEF c
<1>2. Len(c) - Len(u) = Len(s)
  BY <1>1
<1>3. SubSeq(c, 1, Len(s)) = [i \in 1 .. Len(s) |-> c[i]]
  BY <1>1 DEF SubSeq
<1>4. \A i \in 1 .. Len(s) : c[i] = s[i]
  BY <1>1
<1>5. SubSeq(c, Len(s) + 1, Len(c)) = [i \in 1 .. Len(u) |-> c[i + Len(s)]]
  BY <1>1 DEF SubSeq
<1>6. \A i \in 1 .. Len(u) : c[i + Len(s)] = u[i]
  BY <1>1
<1> QED
  BY <1>1, <1>2, <1>3, <1>4, <1>5, <1>6 DEF c
=============================================================================
